--------------------------- MODULE RealtimeBringUp ---------------------------
(***************************************************************************)
(* The realtime channels of the facade (src/src/client/eufy-mega.ts): the  *)
(* bring-up that login() starts, the secure-MQTT transport it shares per   *)
(* scope with on-demand publishes, the push client, the poll loop, and     *)
(* disconnect(), which may come at any point of it.                        *)
(*                                                                         *)
(* disconnect() bumps the epoch; the bring-up, the transport starts and    *)
(* the polls of an earlier epoch run on until they notice.  They, and the  *)
(* tear-down of an epoch, are therefore indexed by their epoch.  The host  *)
(* awaits disconnect() before it disconnects again; a login, a publish or  *)
(* a lookup it began before runs on during the tear-down.                  *)
(*                                                                         *)
(* The cloud, the broker and the push service are the environment.  Wired  *)
(* P2P stations are one pending part of a bring-up.                        *)
(***************************************************************************)
EXTENDS Naturals

CONSTANTS
  Scopes,       \* MQTT credential scopes with devices
  InitScopes,   \* those whose devices are sent commands once subscribed
  MaxEpoch,     \* bound: disconnects
  MaxStarts,    \* bound: transport starts per scope
  MaxPolls      \* bound: polls running at once

ASSUME ScopesAssumption == InitScopes \subseteq Scopes
ASSUME BringUpBounds == MaxEpoch \in Nat /\ MaxStarts \in Nat /\ MaxPolls \in Nat

Epochs == 0 .. MaxEpoch
Starts == 1 .. MaxStarts
None   == MaxEpoch + 1   \* no epoch
NoStart == 0

VARIABLES
  epoch,       \* realtimeEpoch
  task,        \* [Epochs -> ...]: startRealtimeGeneration of the epoch
  result,      \* [Epochs -> ...]: how its generation settled
  awaits,      \* [Epochs -> [Scopes -> start it waits for]]
  wired,       \* [Epochs -> BOOLEAN]: wired stations are still being warmed
  push,        \* [Epochs -> ...]: the push client its startPush made
  pushClient,  \* the epoch whose push client is installed, or None
  run,         \* [Scopes -> [Starts -> Start]]: calls of startMqtt
  started,     \* [Scopes -> how many there were]
  memo,        \* [Scopes -> start]: mqttReady
  installed,   \* [Scopes -> start]: transports
  late,        \* history, [Epochs -> scopes asked for while transports close]
  hasty,       \* history: epochs brought up before disconnect() resolved
  teardown,    \* [Epochs -> ...]: the disconnect() that ended the epoch
  pollOn,      \* the poll interval is not zero
  pollArmed,   \* the epoch the pending poll belongs to, or None
  polls        \* [Epochs -> how many of its polls run]

bringup == <<task, result, awaits, wired>>
pushing == <<push, pushClient, hasty>>
mqtt    == <<run, started, memo, installed, late>>
polling == <<pollOn, pollArmed, polls>>
vars    == <<epoch, bringup, pushing, mqtt, teardown, polling>>

\* One attempt to start a transport.  A link is up from the broker's answer to
\* the call of its disconnect().
Start == [pc : {"none", "connecting", "closing", "subscribing", "publishing",
                "done", "failed"},
          epoch : Epochs, link : BOOLEAN, on : Starts \cup {NoStart}]
NoAttempt == [pc |-> "none", epoch |-> 0, link |-> FALSE, on |-> NoStart]

\* Invariant.  The state keeps its shape.
TypeOK ==
  /\ epoch \in Epochs
  /\ task \in [Epochs -> {"none", "listing", "starting", "over"}]
  /\ result \in [Epochs -> {"pending", "ready", "partial", "superseded"}]
  /\ awaits \in [Epochs -> [Scopes -> Starts \cup {NoStart}]]
  /\ wired \in [Epochs -> BOOLEAN]
  /\ push \in [Epochs -> {"none", "registering", "connecting", "up",
                          "failed", "aborted", "closed"}]
  /\ pushClient \in Epochs \cup {None}
  /\ run \in [Scopes -> [Starts -> Start]]
  /\ started \in [Scopes -> 0 .. MaxStarts]
  /\ memo \in [Scopes -> Starts \cup {NoStart}]
  /\ installed \in [Scopes -> Starts \cup {NoStart}]
  /\ late \in [Epochs -> SUBSET Scopes] /\ hasty \subseteq Epochs
  /\ teardown \in [Epochs -> {"none", "mqtt", "p2p", "done"}]
  /\ pollOn \in BOOLEAN /\ pollArmed \in Epochs \cup {None}
  /\ polls \in [Epochs -> 0 .. MaxPolls]

Init ==
  /\ epoch = 0
  /\ task = [e \in Epochs |-> "none"]
  /\ result = [e \in Epochs |-> "pending"]
  /\ awaits = [e \in Epochs |-> [s \in Scopes |-> NoStart]]
  /\ wired = [e \in Epochs |-> FALSE]
  /\ push = [e \in Epochs |-> "none"]
  /\ pushClient = None
  /\ run = [s \in Scopes |-> [n \in Starts |-> NoAttempt]]
  /\ started = [s \in Scopes |-> 0]
  /\ memo = [s \in Scopes |-> NoStart]
  /\ installed = [s \in Scopes |-> NoStart]
  /\ late = [e \in Epochs |-> {}] /\ hasty = {}
  /\ teardown = [e \in Epochs |-> "none"]
  /\ pollOn = TRUE /\ pollArmed = None
  /\ polls = [e \in Epochs |-> 0]

\* Every disconnect() the host called has resolved.
Rested == \A e \in Epochs : teardown[e] \in {"none", "done"}

\* One of them awaits the transports, which it then forgets.
Closing == \E e \in Epochs : teardown[e] = "mqtt"

\* The scopes S are asked for in this epoch: too early, if Closing.
Asked(S) == late' = [late EXCEPT ![epoch] = IF Closing THEN @ \cup S ELSE @]

----------------------------------------------------------------------------
(* One transport per scope: ensureMqttStarted().                           *)

MutCold(S) == S    \* mutant: every caller makes a start of its own

Cold(S) == {s \in S : memo[s] = NoStart}
CanStart(S) == \A s \in Cold(S) : started[s] < MaxStarts

\* Share the memoised start of each scope of S, or make one, for this epoch.
EnsureMqttStarted(S) ==
  /\ CanStart(S)
  /\ started' = [s \in Scopes |-> IF s \in Cold(S) THEN started[s] + 1 ELSE started[s]]
  /\ memo' = [s \in Scopes |-> IF s \in Cold(S) THEN started[s] + 1 ELSE memo[s]]

Begun(S) == [s \in Scopes |-> [n \in Starts |->
  IF s \in Cold(S) /\ n = started[s] + 1
  THEN [NoAttempt EXCEPT !.pc = "connecting", !.epoch = epoch]
  ELSE run[s][n]]]

\* The host's publish finds no transport, whenever it gets that far.  Where a
\* start is memoised it only waits.
Publish(s) ==
  /\ installed[s] = NoStart
  /\ memo[s] = NoStart
  /\ EnsureMqttStarted({s}) /\ Asked({s})
  /\ run' = Begun({s})
  /\ UNCHANGED <<epoch, bringup, pushing, installed, teardown, polling>>

\* The host's lookup wants the first report of a device.  It asked for a
\* bring-up before it awaited the list, and for no transport at all.
AwaitFirstRealtimeState(s) ==
  /\ \E e \in Epochs : task[e] # "none"
  /\ memo[s] = NoStart
  /\ EnsureMqttStarted({s}) /\ Asked({s})
  /\ run' = Begun({s})
  /\ UNCHANGED <<epoch, bringup, pushing, installed, teardown, polling>>

\* The broker accepts: the transport is installed, unless a disconnect() came
\* first; then it is disconnected again.
Connects(s, n) ==
  /\ run[s][n].pc = "connecting"
  /\ \/ /\ run[s][n].epoch = epoch
        /\ run' = [run EXCEPT ![s][n] = [@ EXCEPT !.pc = "subscribing", !.link = TRUE]]
        /\ installed' = [installed EXCEPT ![s] = n]
     \/ /\ run[s][n].epoch # epoch
        /\ run' = [run EXCEPT ![s][n].pc = "closing"]
        /\ UNCHANGED installed
  /\ UNCHANGED <<epoch, bringup, pushing, started, memo, late, teardown, polling>>

\* It refuses, or the credentials cannot be had.  Only this start's own memo
\* is cleared.
ConnectFails(s, n) ==
  /\ run[s][n].pc = "connecting"
  /\ run' = [run EXCEPT ![s][n].pc = "failed"]
  /\ memo' = IF memo[s] = n THEN [memo EXCEPT ![s] = NoStart] ELSE memo
  /\ UNCHANGED <<epoch, bringup, pushing, started, installed, late, teardown, polling>>

\* The superseded start resolves once its transport is gone.
Closed(s, n) ==
  /\ run[s][n].pc = "closing"
  /\ run' = [run EXCEPT ![s][n].pc = "done"]
  /\ UNCHANGED <<epoch, bringup, pushing, started, memo, installed, late, teardown,
                 polling>>

\* The roster of the scope is subscribed; failures are reported only.  What a
\* device is sent first goes over the installed transport.
Subscribed(s, n) ==
  /\ run[s][n].pc = "subscribing"
  /\ run' = [run EXCEPT ![s][n].pc = "done"]
  /\ UNCHANGED <<epoch, bringup, pushing, started, memo, installed, late, teardown,
                 polling>>

\* Mutant: the first command awaits the bring-up of its scope.
MutInitFindsNone(s, n) ==
  /\ s \in InitScopes /\ run[s][n].pc = "subscribing"
  /\ EnsureMqttStarted({s}) /\ Asked(Cold({s}))
  /\ run' = [Begun({s}) EXCEPT ![s][n] = [@ EXCEPT !.pc = "publishing", !.on = memo'[s]]]
  /\ UNCHANGED <<epoch, bringup, pushing, installed, teardown, polling>>

\* The record of the device was awaited before its first command is published:
\* a disconnect() meanwhile leaves no transport, so the command starts one.
InitFindsNone(s, n) ==
  /\ s \in InitScopes /\ run[s][n].pc = "subscribing"
  /\ installed[s] = NoStart
  /\ EnsureMqttStarted({s}) /\ Asked(Cold({s}))
  /\ run' = [Begun({s}) EXCEPT ![s][n] = [@ EXCEPT !.pc = "publishing", !.on = memo'[s]]]
  /\ UNCHANGED <<epoch, bringup, pushing, installed, teardown, polling>>

Settled(st) == st.pc \in {"done", "failed"}

\* The start it awaits settles; nothing else can be subscribed over its own
\* transport any more.
InitSent(s, n) ==
  /\ run[s][n].pc = "publishing"
  /\ Settled(run[s][run[s][n].on])
  /\ run' = [run EXCEPT ![s][n].pc = "done"]
  /\ UNCHANGED <<epoch, bringup, pushing, started, memo, installed, late, teardown,
                 polling>>

----------------------------------------------------------------------------
(* The bring-up of an epoch: startRealtimeGeneration().                    *)

\* A login() that succeeds, whenever it does, joins the generation of the epoch
\* or makes it.
Login ==
  /\ task[epoch] = "none"
  /\ task' = [task EXCEPT ![epoch] = "listing"]
  /\ UNCHANGED <<epoch, result, awaits, wired, pushing, mqtt, teardown, polling>>

\* The device list is there: start everything, unless superseded.
Listed(e) ==
  /\ task[e] = "listing"
  /\ \/ /\ e = epoch
        /\ EnsureMqttStarted(Scopes) /\ Asked(Scopes)
        /\ run' = Begun(Scopes)
        /\ awaits' = [awaits EXCEPT ![e] = memo']
        /\ push' = [push EXCEPT ![e] = "registering"]
        /\ wired' = [wired EXCEPT ![e] = TRUE]
        /\ task' = [task EXCEPT ![e] = "starting"]
     \/ /\ e # epoch
        /\ task' = [task EXCEPT ![e] = "over"]
        /\ UNCHANGED <<awaits, wired, push, run, started, memo, late>>
  /\ UNCHANGED <<epoch, result, pushClient, hasty, installed, teardown, polling>>

\* schedulePoll(e): no poll while the interval is zero, none for a stale epoch.
SchedulePoll(e) == pollArmed' = IF pollOn /\ e = epoch THEN e ELSE pollArmed

\* A generation settles once.
Settle(e, how) ==
  result' = [result EXCEPT ![e] = IF @ = "pending" THEN how ELSE @]

\* The list cannot be had: nothing is started in this epoch.
ListFails(e) ==
  /\ task[e] = "listing"
  /\ task' = [task EXCEPT ![e] = "over"]
  /\ Settle(e, IF e = epoch THEN "partial" ELSE "superseded")
  /\ UNCHANGED <<epoch, awaits, wired, pushing, mqtt, teardown, polling>>

\* The push token is registered; an aborted bring-up opens no socket.
PushRegistered(e) ==
  /\ push[e] = "registering"
  /\ push' = [push EXCEPT ![e] = IF e = epoch THEN "connecting" ELSE "aborted"]
  /\ UNCHANGED <<epoch, bringup, pushClient, hasty, mqtt, teardown, polling>>

PushConnects(e) ==
  /\ push[e] = "connecting"
  /\ push' = [push EXCEPT ![e] = "up"]
  /\ UNCHANGED <<epoch, bringup, pushClient, hasty, mqtt, teardown, polling>>

\* Registration throws, or the socket reports an error and is closed.
PushFails(e) ==
  /\ push[e] \in {"registering", "connecting"}
  /\ push' = [push EXCEPT ![e] = "failed"]
  /\ UNCHANGED <<epoch, bringup, pushClient, hasty, mqtt, teardown, polling>>

\* Every wired station is connected, has failed, or the wait was aborted.
WiredSettles(e) ==
  /\ wired[e]
  /\ wired' = [wired EXCEPT ![e] = FALSE]
  /\ UNCHANGED <<epoch, task, result, awaits, pushing, mqtt, teardown, polling>>

\* Everything the bring-up of e waits for has settled.
AllSettled(e) ==
  /\ task[e] = "starting"
  /\ push[e] \in {"up", "failed", "aborted"}
  /\ ~wired[e]
  /\ \A s \in Scopes : Settled(run[s][awaits[e][s]])

\* Wired stations are left out of the count, so either outcome is possible
\* where nothing else failed.
Outcomes(e) ==
  IF push[e] = "up" /\ \A s \in Scopes : run[s][awaits[e][s]].pc = "done"
  THEN {"ready", "partial"} ELSE {"partial"}

\* Mutant: a superseded bring-up forgets the push client it made.
MutCompletesLeaky(e) ==
  /\ AllSettled(e)
  /\ task' = [task EXCEPT ![e] = "over"]
  /\ IF e = epoch
     THEN /\ pushClient' = (IF push[e] = "up" THEN e ELSE None)
          /\ SchedulePoll(e)
          /\ \E how \in Outcomes(e) : Settle(e, how)
     ELSE UNCHANGED <<pushClient, pollArmed, result>>
  /\ UNCHANGED <<epoch, awaits, wired, push, hasty, mqtt, teardown, pollOn, polls>>

\* The bring-up installs its push client, starts the poll loop and settles; a
\* superseded one closes its push client.
Completes(e) ==
  /\ AllSettled(e)
  /\ task' = [task EXCEPT ![e] = "over"]
  /\ \/ /\ e = epoch
        /\ pushClient' = IF push[e] = "up" THEN e ELSE None
        /\ hasty' = IF Rested THEN hasty ELSE hasty \cup {e}
        /\ SchedulePoll(e)
        /\ \E how \in Outcomes(e) : Settle(e, how)
        /\ UNCHANGED push
     \/ /\ e # epoch
        /\ push' = [push EXCEPT ![e] = IF @ = "up" THEN "closed" ELSE @]
        /\ Settle(e, "superseded")
        /\ UNCHANGED <<pushClient, hasty, pollArmed>>
  /\ UNCHANGED <<epoch, awaits, wired, mqtt, teardown, pollOn, polls>>

----------------------------------------------------------------------------
(* disconnect() and the tear-down it awaits.                               *)

\* Up to the first await: the epoch is bumped, the generation is aborted and
\* settled, the poll cancelled, every installed transport told to disconnect.
Disconnect ==
  /\ Rested
  /\ epoch < MaxEpoch
  /\ epoch' = epoch + 1
  /\ IF task[epoch] # "none" THEN Settle(epoch, "superseded") ELSE UNCHANGED result
  /\ push' = [push EXCEPT ![epoch] = IF @ = "connecting" THEN "aborted" ELSE @]
  /\ pollArmed' = None
  /\ run' = [s \in Scopes |-> [n \in Starts |->
               [run[s][n] EXCEPT !.link = @ /\ installed[s] # n]]]
  /\ teardown' = [teardown EXCEPT ![epoch] = "mqtt"]
  /\ UNCHANGED <<task, awaits, wired, pushClient, hasty, started, memo, installed, late,
                 pollOn, polls>>

\* Mutant: the memos of the transports survive them.
MutTransportsClosed(e) ==
  /\ teardown[e] = "mqtt"
  /\ teardown' = [teardown EXCEPT ![e] = "p2p"]
  /\ installed' = [s \in Scopes |-> NoStart]
  /\ UNCHANGED <<epoch, bringup, pushing, run, started, memo, late, polling>>

\* The transports are gone: forget them and their memos, close the stations.
TransportsClosed(e) ==
  /\ teardown[e] = "mqtt"
  /\ teardown' = [teardown EXCEPT ![e] = "p2p"]
  /\ installed' = [s \in Scopes |-> NoStart]
  /\ memo' = [s \in Scopes |-> NoStart]
  /\ UNCHANGED <<epoch, bringup, pushing, run, started, late, polling>>

\* The stations are closed; the push client is last.
StationsClosed(e) ==
  /\ teardown[e] = "p2p"
  /\ teardown' = [teardown EXCEPT ![e] = "done"]
  /\ push' = [f \in Epochs |-> IF f = pushClient THEN "closed" ELSE push[f]]
  /\ pushClient' = None
  /\ UNCHANGED <<epoch, bringup, hasty, mqtt, polling>>

----------------------------------------------------------------------------
(* The poll loop.                                                          *)

PollFires ==
  /\ pollArmed # None
  /\ polls[pollArmed] < MaxPolls
  /\ polls' = [polls EXCEPT ![pollArmed] = @ + 1]
  /\ pollArmed' = None
  /\ UNCHANGED <<epoch, bringup, pushing, mqtt, teardown, pollOn>>

\* Mutant: the end of a poll re-arms whatever epoch it belongs to.
MutPollEnds(e) ==
  /\ polls[e] > 0
  /\ polls' = [polls EXCEPT ![e] = @ - 1]
  /\ pollArmed' = e
  /\ UNCHANGED <<epoch, bringup, pushing, mqtt, teardown, pollOn>>

\* The end of a poll, whatever came of it, schedules the next one for the
\* epoch this one was armed in.
PollEnds(e) ==
  /\ polls[e] > 0
  /\ polls' = [polls EXCEPT ![e] = @ - 1]
  /\ SchedulePoll(e)
  /\ UNCHANGED <<epoch, bringup, pushing, mqtt, teardown, pollOn>>

\* setPollInterval(ms): the pending poll is cancelled, and re-armed for the
\* current epoch unless ms is zero.
SetPollInterval(on) ==
  /\ pollOn' = on
  /\ pollArmed' = IF on THEN epoch ELSE None
  /\ UNCHANGED <<epoch, bringup, pushing, mqtt, teardown, polls>>

----------------------------------------------------------------------------
\* What the host asks for on demand.
OnDemand(s) == Publish(s) \/ AwaitFirstRealtimeState(s)

HostStep ==
  \/ Login \/ Disconnect
  \/ \E on \in BOOLEAN : SetPollInterval(on)
  \/ \E s \in Scopes : OnDemand(s)

Connecting(s, n) == Connects(s, n) \/ ConnectFails(s, n)
Subscribing(s, n) == Subscribed(s, n) \/ InitFindsNone(s, n)

StartStep(s, n) ==
  Connecting(s, n) \/ Subscribing(s, n) \/ Closed(s, n) \/ InitSent(s, n)

Listing(e) == Listed(e) \/ ListFails(e)
PushStep(e) == PushRegistered(e) \/ PushConnects(e) \/ PushFails(e)

EpochStep(e) ==
  \/ Listing(e) \/ PushStep(e) \/ WiredSettles(e) \/ Completes(e)
  \/ TransportsClosed(e) \/ StationsClosed(e) \/ PollEnds(e)

Next ==
  \/ HostStep
  \/ \E s \in Scopes, n \in Starts : StartStep(s, n)
  \/ \E e \in Epochs : EpochStep(e)
  \/ PollFires

Spec == Init /\ [][Next]_vars

\* Requests answer or fail, the broker and the push service accept or refuse,
\* and what was awaited runs on.
Fairness ==
  /\ \A s \in Scopes, n \in Starts :
       /\ WF_vars(Connecting(s, n)) /\ WF_vars(Subscribing(s, n))
       /\ WF_vars(Closed(s, n)) /\ WF_vars(InitSent(s, n))
  /\ \A e \in Epochs :
       /\ WF_vars(Listing(e)) /\ WF_vars(PushStep(e))
       /\ WF_vars(WiredSettles(e)) /\ WF_vars(Completes(e))
       /\ WF_vars(TransportsClosed(e)) /\ WF_vars(StationsClosed(e))

FairSpec == Spec /\ Fairness

----------------------------------------------------------------------------
(* What makes the bring-up correct.                                        *)

\* Invariant.  No connected transport is left behind: one whose start went
\* through is the installed transport of its scope, so that disconnect()
\* reaches it and no report is delivered twice (ensureMqttStarted).  The code
\* breaks this one way only, which is excepted: the scope was asked for, in the
\* epoch of the transport, while a disconnect() awaited the transports it then
\* forgets without having disconnected the new one (closeMqttTransports).
NoStrandedTransport ==
  \A s \in Scopes, n \in Starts :
    run[s][n].link => installed[s] = n \/ s \in late[run[s][n].epoch]

\* Invariant.  The installed push client and the pending poll belong to the
\* current epoch, or to the one whose tear-down will reach them: no stale
\* bring-up and no stale poll overwrites a live channel (realtimeEpoch).
ChannelsAreCurrent ==
  /\ pushClient = None \/ pushClient = epoch \/ teardown[pushClient] \in {"mqtt", "p2p"}
  /\ pollArmed \in {None, epoch}

\* Action property.  A generation that settles "ready" tells the truth: push is
\* connected and installed, and every scope has a connected transport
\* (ensureMqttStarted "Resolves only once ... the transport is installed"), but
\* for scopes asked for in its epoch while a disconnect() awaited transports: it
\* may have shared the start of one that was just closed.
ReadyIsTrue ==
  [][\A e \in Epochs : result[e] # "ready" /\ result'[e] = "ready" =>
       /\ pushClient' = e /\ push[e] = "up"
       /\ \A s \in Scopes \ late[e] :
            installed[s] # NoStart /\ run[s][installed[s]].link]_vars

\* Liveness.  Every bring-up settles: whoever waits for realtime gets an answer,
\* whatever was superseded while it waited, and the command a device is sent
\* while its scope comes up does not wait for itself.
GenerationSettles ==
  \A e \in Epochs : task[e] # "none" ~> task[e] = "over" /\ result[e] # "pending"

\* Liveness.  A push socket that connected is owned: it becomes the installed
\* client, or is closed (startPush, startRealtimeGeneration), unless the next
\* bring-up takes its place before the tear-down gets to closing it.
PushIsOwned ==
  \A e \in Epochs :
    push[e] = "up" ~> pushClient = e \/ push[e] = "closed" \/ e + 1 \in hasty

\* Liveness.  A bring-up ends, with what it opened in somebody's hands.
BringUpEnds == GenerationSettles /\ PushIsOwned

\* Nobody asked for the channels of scope s since the last disconnect().
Unasked(s) ==
  /\ task[epoch] = "none"
  /\ \A n \in 1 .. started[s] : run[s][n].epoch # epoch

\* Action property, what docs/connectivity.md:266 says: "disconnect() closes
\* every channel (push, MQTT, all P2P sessions)", and the name of the test at
\* connect.spec.ts:400: "a disconnect racing the bring-up leaves no MQTT
\* transport behind".  Only the host opens channels again.
OnlyHostReconnects ==
  [][\A s \in Scopes : Unasked(s) /\ started'[s] > started[s] => OnDemand(s)]_vars
=============================================================================
