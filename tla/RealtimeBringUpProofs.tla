----------------------- MODULE RealtimeBringUpProofs -----------------------
(***************************************************************************)
(* Proofs about the realtime channels of the facade, for any number of     *)
(* scopes, disconnects, transport starts and polls.                        *)
(*                                                                         *)
(* No transport is stranded and "ready" is true, but for scopes asked for  *)
(* while a disconnect() awaits its transports.  The argument, for a scope  *)
(* that was not (a clean one): a start of the current epoch is the one its *)
(* scope memoises, so there is one per scope; while transports are awaited *)
(* none belongs to the current epoch, so clearing memos and transports     *)
(* loses nothing.  A scope that was asked for then stops being clean for   *)
(* the rest of its epoch; the next epoch finds it clean, with no start.    *)
(***************************************************************************)
EXTENDS RealtimeBringUp, TLAPS

\* A start that belongs to the current epoch, and one that got through.
Current(s, n) == run[s][n].pc # "none" /\ run[s][n].epoch = epoch
Through(st)   == st.pc \in {"subscribing", "publishing", "done"}

\* Scope s was not asked for in this epoch while transports were awaited, and
\* that of the epoch of start n, if it was.
Clean(s)     == s \notin late[epoch]
Excepted(s, n) == s \in late[run[s][n].epoch]

\* No bring-up of an epoch that has not come.
TasksOK == \A e \in Epochs : e > epoch => task[e] = "none"

\* While transports are awaited, a clean scope has no start of this epoch.
Quiet ==
  Closing => \A s \in Scopes, n \in Starts : Clean(s) => ~Current(s, n)

\* Starts are numbered in the order they begin, and never of a later epoch.
Numbered ==
  \A s \in Scopes, n \in Starts :
    /\ run[s][n].pc = "none" <=> n > started[s]
    /\ run[s][n].epoch <= epoch

\* A start of the current epoch in a clean scope is memoised until it fails, and
\* installed once it got through.
CurrentOK ==
  \A s \in Scopes, n \in Starts : Clean(s) /\ Current(s, n) =>
    /\ run[s][n].pc # "closing"
    /\ run[s][n].pc # "failed" => memo[s] = n
    /\ run[s][n].pc = "connecting" => installed[s] = NoStart
    /\ Through(run[s][n]) => run[s][n].link /\ installed[s] = n

\* Links belong to the current epoch, or are excepted.
LinkOK ==
  \A s \in Scopes, n \in Starts :
    run[s][n].link => Excepted(s, n) \/ (Current(s, n) /\ Through(run[s][n]))

\* So do the memos and installed transports of clean scopes.
MemoOK ==
  \A s \in Scopes : ~Closing /\ Clean(s) =>
    /\ memo[s] # NoStart => Current(s, memo[s])
    /\ installed[s] # NoStart => memo[s] = installed[s]

\* What a bring-up awaits in a clean scope is a start of its epoch.
AwaitsOK ==
  task[epoch] = "starting" =>
    \A s \in Scopes : Clean(s) =>
      awaits[epoch][s] # NoStart /\ Current(s, awaits[epoch][s])

TransportsOK ==
  /\ TasksOK /\ Quiet /\ Numbered
  /\ CurrentOK /\ LinkOK /\ MemoOK /\ AwaitsOK

IInv == TypeOK /\ TransportsOK

----------------------------------------------------------------------------
(* Types, for any InitScopes.                                              *)

USE BringUpBounds, ScopesAssumption

\* The steps of one start change its own record.
LEMMA RunChange ==
  ASSUME run \in [Scopes -> [Starts -> Start]],
         NEW s \in Scopes, NEW n \in Starts, NEW rec \in Start,
         run' = [run EXCEPT ![s][n] = rec]
  PROVE  /\ run' \in [Scopes -> [Starts -> Start]]
         /\ \A t \in Scopes, m \in Starts :
              run'[t][m] = IF t = s /\ m = n THEN rec ELSE run[t][m]
OBVIOUS

\* ensureMqttStarted() keeps the shape of what it changes, and begins one start
\* per cold scope.
LEMMA Starting ==
  ASSUME TypeOK, NEW S \in SUBSET Scopes, EnsureMqttStarted(S)
  PROVE  /\ started' \in [Scopes -> 0 .. MaxStarts]
         /\ memo' \in [Scopes -> Starts \cup {NoStart}]
         /\ \A s \in S : memo'[s] \in Starts
         /\ Begun(S) \in [Scopes -> [Starts -> Start]]
<1>1. \A s \in Cold(S) : started[s] + 1 \in Starts
  BY DEF TypeOK, EnsureMqttStarted, CanStart, Cold, Starts
<1>2. started' \in [Scopes -> 0 .. MaxStarts]
  BY <1>1 DEF TypeOK, EnsureMqttStarted, Cold, Starts
<1>3. /\ memo' \in [Scopes -> Starts \cup {NoStart}]
      /\ \A s \in S : memo'[s] \in Starts
  BY <1>1 DEF TypeOK, EnsureMqttStarted, Cold
<1>4. [NoAttempt EXCEPT !.pc = "connecting", !.epoch = epoch] \in Start
  BY DEF TypeOK, NoAttempt, Start, Epochs, NoStart
<1>5. Begun(S) \in [Scopes -> [Starts -> Start]]
  BY <1>4 DEF TypeOK, Begun
<1>6. QED
  BY <1>2, <1>3, <1>5

\* Scopes asked for are scopes.
LEMMA AskedType ==
  ASSUME TypeOK, NEW S \in SUBSET Scopes, Asked(S)
  PROVE  late' \in [Epochs -> SUBSET Scopes]
BY DEF TypeOK, Asked

\* The steps of one start keep the state's shape.
LEMMA StartStepType ==
  ASSUME TypeOK, NEW s \in Scopes, NEW n \in Starts, StartStep(s, n)
  PROVE  TypeOK'
<1>1. run[s][n] \in Start
  BY DEF TypeOK
<1>2. ASSUME run' \in [Scopes -> [Starts -> Start]],
             memo' \in [Scopes -> Starts \cup {NoStart}],
             installed' \in [Scopes -> Starts \cup {NoStart}],
             started' \in [Scopes -> 0 .. MaxStarts],
             late' \in [Epochs -> SUBSET Scopes],
             UNCHANGED <<epoch, bringup, pushing, teardown, polling>>
      PROVE  TypeOK'
  BY <1>2 DEF TypeOK, bringup, pushing, polling
<1>3. CASE Connects(s, n)
  <2>1. /\ [run[s][n] EXCEPT !.pc = "subscribing", !.link = TRUE] \in Start
        /\ [run[s][n] EXCEPT !.pc = "closing"] \in Start
    BY <1>1 DEF Start
  <2>2. run' \in [Scopes -> [Starts -> Start]]
    <3>1. CASE run' = [run EXCEPT ![s][n] = [@ EXCEPT !.pc = "subscribing", !.link = TRUE]]
      <4>1. run' = [run EXCEPT ![s][n] = [run[s][n] EXCEPT !.pc = "subscribing", !.link = TRUE]]
        BY <3>1
      <4>2. QED
        BY <4>1, <2>1, RunChange DEF TypeOK
    <3>2. CASE run' = [run EXCEPT ![s][n].pc = "closing"]
      BY <3>2, <2>1 DEF TypeOK
    <3>3. QED
      BY <1>3, <3>1, <3>2 DEF Connects
  <2>3. installed' \in [Scopes -> Starts \cup {NoStart}]
    BY <1>3 DEF TypeOK, Connects
  <2>4. QED
    BY <1>2, <1>3, <2>2, <2>3 DEF TypeOK, Connects
<1>4. CASE ConnectFails(s, n)
  <2>1. [run[s][n] EXCEPT !.pc = "failed"] \in Start
    BY <1>1 DEF Start
  <2>2. run' \in [Scopes -> [Starts -> Start]]
    BY <1>4, <2>1 DEF TypeOK, ConnectFails
  <2>3. memo' \in [Scopes -> Starts \cup {NoStart}]
    BY <1>4 DEF TypeOK, ConnectFails
  <2>4. QED
    BY <1>2, <1>4, <2>2, <2>3 DEF TypeOK, ConnectFails
<1>5. CASE Closed(s, n) \/ Subscribed(s, n) \/ InitSent(s, n)
  <2>1. [run[s][n] EXCEPT !.pc = "done"] \in Start
    BY <1>1 DEF Start
  <2>2. run' \in [Scopes -> [Starts -> Start]]
    <3>1. run' = [run EXCEPT ![s][n] = [run[s][n] EXCEPT !.pc = "done"]]
      BY <1>5 DEF Closed, Subscribed, InitSent
    <3>2. QED
      BY <3>1, <2>1, RunChange DEF TypeOK
  <2>3. QED
    BY <1>2, <1>5, <2>2 DEF TypeOK, Closed, Subscribed, InitSent
<1>6. CASE InitFindsNone(s, n)
  <2>1. EnsureMqttStarted({s}) /\ {s} \in SUBSET Scopes
    BY <1>6 DEF InitFindsNone
  <2>2. /\ started' \in [Scopes -> 0 .. MaxStarts]
        /\ memo' \in [Scopes -> Starts \cup {NoStart}]
        /\ Begun({s}) \in [Scopes -> [Starts -> Start]]
    BY <2>1, Starting
  <2>3. [Begun({s})[s][n] EXCEPT !.pc = "publishing", !.on = memo'[s]] \in Start
    <3>1. Begun({s})[s][n] \in Start /\ memo'[s] \in Starts \cup {NoStart}
      BY <2>2
    <3>2. QED
      BY <3>1 DEF Start
  <2>4. run' \in [Scopes -> [Starts -> Start]]
    BY <1>6, <2>2, <2>3 DEF InitFindsNone
  <2>5. late' \in [Epochs -> SUBSET Scopes]
    BY <1>6, AskedType DEF InitFindsNone, Cold
  <2>6. QED
    BY <1>2, <1>6, <2>2, <2>4, <2>5 DEF TypeOK, InitFindsNone
<1>7. QED
  BY <1>3, <1>4, <1>5, <1>6 DEF StartStep, Connecting, Subscribing

\* So do the steps of a bring-up and of a tear-down.
LEMMA EpochStepType ==
  ASSUME TypeOK, NEW e \in Epochs, EpochStep(e)
  PROVE  TypeOK'
<1>1. CASE Listed(e)
  <2>1. CASE e = epoch /\ EnsureMqttStarted(Scopes) /\ Asked(Scopes) /\ run' = Begun(Scopes)
    <3>0. late' \in [Epochs -> SUBSET Scopes]
      BY <2>1, AskedType
    <3>1. /\ started' \in [Scopes -> 0 .. MaxStarts]
          /\ memo' \in [Scopes -> Starts \cup {NoStart}]
          /\ run' \in [Scopes -> [Starts -> Start]]
      BY <2>1, Starting
    <3>2. awaits' \in [Epochs -> [Scopes -> Starts \cup {NoStart}]]
      BY <1>1, <2>1, <3>1 DEF TypeOK, Listed
    <3>3. /\ push' \in [Epochs -> {"none", "registering", "connecting", "up",
                                   "failed", "aborted", "closed"}]
          /\ wired' \in [Epochs -> BOOLEAN]
          /\ task' \in [Epochs -> {"none", "listing", "starting", "over"}]
      BY <1>1, <2>1 DEF TypeOK, Listed
    <3>4. QED
      BY <1>1, <3>0, <3>1, <3>2, <3>3 DEF TypeOK, Listed, polling
  <2>2. CASE e # epoch
    BY <1>1, <2>2 DEF TypeOK, Listed, bringup, pushing, mqtt, polling
  <2>3. QED
    BY <1>1, <2>1, <2>2 DEF Listed
<1>2. CASE ListFails(e)
  BY <1>2 DEF TypeOK, ListFails, Settle, bringup, pushing, mqtt, polling
<1>3. CASE PushStep(e)
  BY <1>3 DEF TypeOK, PushStep, PushRegistered, PushConnects, PushFails,
              bringup, pushing, mqtt, polling
<1>4. CASE WiredSettles(e)
  BY <1>4 DEF TypeOK, WiredSettles, bringup, pushing, mqtt, polling
<1>5. CASE Completes(e)
  <2>1. \A how \in Outcomes(e) \cup {"superseded"} :
          how \in {"pending", "ready", "partial", "superseded"}
    BY DEF Outcomes
  <2>2. result' \in [Epochs -> {"pending", "ready", "partial", "superseded"}]
    BY <1>5, <2>1 DEF TypeOK, Completes, Settle
  <2>3. push' \in [Epochs -> {"none", "registering", "connecting", "up",
                              "failed", "aborted", "closed"}]
    BY <1>5 DEF TypeOK, Completes
  <2>4. /\ pushClient' \in Epochs \cup {None}
        /\ pollArmed' \in Epochs \cup {None}
        /\ task' \in [Epochs -> {"none", "listing", "starting", "over"}]
        /\ hasty' \subseteq Epochs
    BY <1>5 DEF TypeOK, Completes, SchedulePoll
  <2>5. QED
    BY <1>5, <2>2, <2>3, <2>4 DEF TypeOK, Completes, mqtt
<1>6. CASE TransportsClosed(e) \/ StationsClosed(e)
  <2>1. teardown' \in [Epochs -> {"none", "mqtt", "p2p", "done"}]
    BY <1>6 DEF TypeOK, TransportsClosed, StationsClosed
  <2>2. CASE TransportsClosed(e)
    BY <2>1, <2>2 DEF TypeOK, TransportsClosed, bringup, pushing, polling
  <2>3. CASE StationsClosed(e)
    <3>1. push' \in [Epochs -> {"none", "registering", "connecting", "up",
                                "failed", "aborted", "closed"}]
      BY <2>3 DEF TypeOK, StationsClosed
    <3>2. QED
      BY <2>1, <2>3, <3>1 DEF TypeOK, StationsClosed, bringup, mqtt, polling
  <2>4. QED
    BY <1>6, <2>2, <2>3
<1>7. CASE PollEnds(e)
  <2>1. polls' \in [Epochs -> 0 .. MaxPolls]
    BY <1>7 DEF TypeOK, PollEnds
  <2>2. QED
    BY <1>7, <2>1 DEF TypeOK, PollEnds, SchedulePoll, bringup, pushing, mqtt, polling
<1>8. QED
  BY <1>1, <1>2, <1>3, <1>4, <1>5, <1>6, <1>7 DEF EpochStep, Listing

\* And what the host calls, and the poll timer.
LEMMA HostStepType ==
  ASSUME TypeOK, HostStep \/ PollFires
  PROVE  TypeOK'
<1>1. CASE Login
  BY <1>1 DEF TypeOK, Login, bringup, pushing, mqtt, polling
<1>2. CASE Disconnect
  <2>1. \A s \in Scopes, n \in Starts :
          [run[s][n] EXCEPT !.link = @ /\ installed[s] # n] \in Start
    <3>1. TAKE s \in Scopes, n \in Starts
    <3>2. run[s][n] \in Start /\ (run[s][n].link /\ installed[s] # n) \in BOOLEAN
      BY DEF TypeOK
    <3>3. QED
      BY <3>2 DEF Start
  <2>2. run' \in [Scopes -> [Starts -> Start]]
    BY <1>2, <2>1 DEF Disconnect
  <2>3. epoch' \in Epochs
    BY <1>2 DEF TypeOK, Disconnect, Epochs
  <2>4. QED
    BY <1>2, <2>2, <2>3 DEF TypeOK, Disconnect, Settle, bringup, pushing, mqtt, polling
<1>3. ASSUME NEW ms \in BOOLEAN, SetPollInterval(ms)
      PROVE  TypeOK'
  BY <1>3 DEF TypeOK, SetPollInterval, bringup, pushing, mqtt, polling
<1>4. ASSUME NEW s \in Scopes, OnDemand(s)
      PROVE  TypeOK'
  <2>1. /\ EnsureMqttStarted({s}) /\ Asked({s}) /\ {s} \in SUBSET Scopes
        /\ run' = Begun({s})
        /\ UNCHANGED <<epoch, bringup, pushing, installed, teardown, polling>>
    BY <1>4 DEF OnDemand, Publish, AwaitFirstRealtimeState
  <2>2. /\ started' \in [Scopes -> 0 .. MaxStarts]
        /\ memo' \in [Scopes -> Starts \cup {NoStart}]
        /\ Begun({s}) \in [Scopes -> [Starts -> Start]]
    BY <2>1, Starting
  <2>3. late' \in [Epochs -> SUBSET Scopes]
    BY <2>1, AskedType
  <2>4. QED
    BY <2>1, <2>2, <2>3 DEF TypeOK, bringup, pushing, polling
<1>5. CASE PollFires
  <2>1. pollArmed \in Epochs
    BY <1>5 DEF TypeOK, PollFires
  <2>2. polls' \in [Epochs -> 0 .. MaxPolls]
    BY <1>5, <2>1 DEF TypeOK, PollFires
  <2>3. QED
    BY <1>5, <2>2 DEF TypeOK, PollFires, bringup, pushing, mqtt, polling
<1>6. QED
  BY <1>1, <1>2, <1>3, <1>4, <1>5 DEF HostStep

\* The initial state has the shape.
LEMMA InitType == Init => TypeOK
BY DEF Init, TypeOK, Epochs, None, NoAttempt, Start, NoStart

\* Every step keeps it.
LEMMA StepType == TypeOK /\ [Next]_vars => TypeOK'
<1>1. SUFFICES ASSUME TypeOK, [Next]_vars PROVE TypeOK'
  OBVIOUS
<1>2. CASE UNCHANGED vars
  BY <1>1, <1>2 DEF TypeOK, vars, bringup, pushing, mqtt, polling
<1>3. CASE Next
  BY <1>1, <1>3, StartStepType, EpochStepType, HostStepType DEF Next
<1>4. QED
  BY <1>1, <1>2, <1>3

\* Theorem.  The state keeps its shape in every behaviour: no scope is given
\* more starts, and no epoch more polls, than were begun.
THEOREM TypeCorrect == Spec => []TypeOK
BY InitType, StepType, PTL DEF Spec

----------------------------------------------------------------------------
(* The installed push client and the pending poll, for any InitScopes.     *)

\* Every step keeps the push client and the poll current.  Only the bring-up
\* of the current epoch installs, only the current epoch arms, and a
\* disconnect() hands what is installed to the tear-down it starts.
LEMMA ChannelsStep ==
  ASSUME TypeOK, ChannelsAreCurrent, [Next]_vars
  PROVE  ChannelsAreCurrent'
<1>1. ASSUME UNCHANGED <<epoch, pushClient, pollArmed, teardown>>
      PROVE  ChannelsAreCurrent'
  BY <1>1 DEF ChannelsAreCurrent
<1>2. ASSUME NEW s \in Scopes, NEW n \in Starts, StartStep(s, n)
      PROVE  ChannelsAreCurrent'
  BY <1>1, <1>2 DEF StartStep, Connecting, Subscribing, Connects, ConnectFails,
     Closed, Subscribed, InitFindsNone, InitSent, pushing, polling
<1>3. ASSUME NEW e \in Epochs, EpochStep(e)
      PROVE  ChannelsAreCurrent'
  <2>1. CASE Listing(e) \/ PushStep(e) \/ WiredSettles(e)
    BY <1>1, <2>1 DEF Listing, Listed, ListFails, PushStep, PushRegistered,
       PushConnects, PushFails, WiredSettles, pushing, polling
  <2>2. CASE Completes(e)
    BY <2>2 DEF Completes, ChannelsAreCurrent, SchedulePoll
  <2>3. CASE TransportsClosed(e)
    BY <2>3 DEF TransportsClosed, ChannelsAreCurrent, TypeOK, pushing, polling
  <2>4. CASE StationsClosed(e)
    BY <2>4 DEF StationsClosed, ChannelsAreCurrent, polling
  <2>5. CASE PollEnds(e)
    BY <2>5 DEF PollEnds, ChannelsAreCurrent, SchedulePoll, pushing
  <2>6. QED
    BY <1>3, <2>1, <2>2, <2>3, <2>4, <2>5 DEF EpochStep
<1>4. CASE Login \/ \E s \in Scopes : OnDemand(s)
  BY <1>1, <1>4 DEF Login, OnDemand, Publish, AwaitFirstRealtimeState, pushing, polling
<1>5. CASE Disconnect
  <2>1. pushClient \in {None, epoch}
    BY <1>5 DEF Disconnect, Rested, ChannelsAreCurrent, TypeOK
  <2>2. teardown'[epoch] = "mqtt"
    BY <1>5 DEF Disconnect, TypeOK
  <2>3. QED
    BY <1>5, <2>1, <2>2 DEF Disconnect, ChannelsAreCurrent
<1>6. CASE (\E ms \in BOOLEAN : SetPollInterval(ms)) \/ PollFires
  BY <1>6 DEF SetPollInterval, PollFires, ChannelsAreCurrent, pushing
<1>7. CASE UNCHANGED vars
  BY <1>1, <1>7 DEF vars, pushing, polling
<1>8. QED
  BY <1>2, <1>3, <1>4, <1>5, <1>6, <1>7 DEF Next, HostStep

\* Theorem.  No stale bring-up and no stale poll ever replaces a channel of the
\* current epoch (realtimeEpoch).
THEOREM ChannelsCurrent == Spec => []ChannelsAreCurrent
<1>1. Init => ChannelsAreCurrent
  BY DEF Init, ChannelsAreCurrent
<1>2. QED
  BY <1>1, ChannelsStep, TypeCorrect, PTL DEF Spec

----------------------------------------------------------------------------
(* The transports.                                                         *)

\* What neither touches a transport, nor a task, nor a tear-down.
LEMMA ElsewhereKeeps ==
  ASSUME TransportsOK,
         UNCHANGED <<epoch, task, awaits, run, started, memo, installed, late, teardown>>
  PROVE  TransportsOK'
BY DEF TransportsOK, TasksOK, Quiet, Closing, Numbered, CurrentOK, Current, Clean,
       Excepted, LinkOK, MemoOK, AwaitsOK

\* A bring-up that begins or ends, but does not start anything.
LEMMA TaskKeeps ==
  ASSUME TypeOK, TransportsOK, NEW e \in Epochs, e <= epoch,
         NEW how \in {"listing", "over"}, task' = [task EXCEPT ![e] = how],
         UNCHANGED <<epoch, awaits, run, started, memo, installed, late, teardown>>
  PROVE  TransportsOK'
<1>1. /\ \A f \in Epochs : task'[f] = IF f = e THEN how ELSE task[f]
      /\ epoch \in Epochs
  BY DEF TypeOK
<1>2. TasksOK'
  BY <1>1 DEF TransportsOK, TasksOK, Epochs
<1>3. AwaitsOK'
  BY <1>1 DEF TransportsOK, AwaitsOK, Current, Clean
<1>4. Quiet' /\ Numbered' /\ CurrentOK' /\ LinkOK' /\ MemoOK'
  BY DEF TransportsOK, Quiet, Numbered, CurrentOK, Current, Clean, Excepted, LinkOK,
         MemoOK, Closing
<1>5. QED
  BY <1>2, <1>3, <1>4 DEF TransportsOK

\* A start of which the invariant says little goes on, and gains no link.
Loose(s, n) == ~Current(s, n) \/ ~Clean(s)
GoesOn(s, n) ==
  /\ Loose(s, n) /\ run[s][n].pc # "none"
  /\ run'[s][n].pc # "none" /\ run'[s][n].epoch = run[s][n].epoch
  /\ run'[s][n].link => run[s][n].link

\* Starts begin in the cold scopes of S, and of the others only loose ones go on.
Begins(S) ==
  /\ EnsureMqttStarted(S)
  /\ \A s \in Scopes, n \in Starts :
       IF s \in Cold(S) /\ n = started[s] + 1
       THEN run'[s][n] = [NoAttempt EXCEPT !.pc = "connecting", !.epoch = epoch]
       ELSE run'[s][n] = run[s][n] \/ GoesOn(s, n)

\* Starts stay numbered, and those of the current epoch stay in it.
LEMMA BeginNumbers ==
  ASSUME TypeOK, TransportsOK, NEW S \in SUBSET Scopes, Begins(S), UNCHANGED epoch
  PROVE  /\ Numbered'
         /\ \A s \in Scopes, n \in Starts : Current(s, n) => Current(s, n)'
         /\ \A s \in Cold(S) : /\ memo[s] = NoStart /\ started[s] + 1 \in Starts /\ s \in Scopes
                               /\ memo'[s] = started[s] + 1 /\ started'[s] = started[s] + 1
                               /\ run'[s][started[s] + 1] =
                                    [NoAttempt EXCEPT !.pc = "connecting", !.epoch = epoch]
         /\ \A s \in Scopes \ Cold(S) : memo'[s] = memo[s] /\ started'[s] = started[s]
<1> DEFINE new == [NoAttempt EXCEPT !.pc = "connecting", !.epoch = epoch]
           Fresh(s, n) == s \in Cold(S) /\ n = started[s] + 1
<1>0. new.pc = "connecting" /\ new.epoch = epoch /\ epoch \in Nat
  BY DEF NoAttempt, TypeOK, Epochs
<1>1. \A s \in Scopes, n \in Starts :
        /\ Fresh(s, n) => run'[s][n] = new
        /\ ~Fresh(s, n) => run'[s][n] = run[s][n] \/ GoesOn(s, n)
  BY DEF Begins
<1>a. EnsureMqttStarted(S)
  BY DEF Begins
<1>2. \A s \in Scopes :
        /\ started'[s] = IF s \in Cold(S) THEN started[s] + 1 ELSE started[s]
        /\ memo'[s] = IF s \in Cold(S) THEN started[s] + 1 ELSE memo[s]
        /\ started[s] \in 0 .. MaxStarts
        /\ memo[s] \in Starts \cup {NoStart}
  BY <1>a DEF EnsureMqttStarted, TypeOK
<1>3. \A s \in Cold(S) : memo[s] = NoStart /\ started[s] + 1 \in Starts /\ s \in Scopes
  BY <1>a DEF EnsureMqttStarted, CanStart, Cold, TypeOK, Starts
<1>4. \A s \in Scopes, n \in Starts : Current(s, n) => Current(s, n)'
  <2>1. SUFFICES ASSUME NEW s \in Scopes, NEW n \in Starts, Current(s, n)
                 PROVE  Current(s, n)'
    OBVIOUS
  <2>2. CASE Fresh(s, n)
    BY <1>0, <1>1, <2>2 DEF Current
  <2>3. CASE ~Fresh(s, n)
    BY <1>1, <2>1, <2>3 DEF Current, GoesOn
  <2>4. QED
    BY <2>2, <2>3
<1>5. Numbered'
  <2>1. SUFFICES ASSUME NEW s \in Scopes, NEW n \in Starts
                 PROVE  /\ run'[s][n].pc = "none" <=> n > started'[s]
                        /\ run'[s][n].epoch <= epoch
    BY DEF Numbered
  <2>2. /\ run[s][n].pc = "none" <=> n > started[s]
        /\ run[s][n].epoch <= epoch
    BY DEF TransportsOK, Numbered
  <2>3. CASE Fresh(s, n)
    <3>1. run'[s][n] = new
      BY <1>1, <2>3
    <3>2. started'[s] = n
      BY <1>2, <2>3
    <3>3. n > n <=> FALSE
      BY DEF Starts
    <3>4. epoch <= epoch
      BY <1>0
    <3>5. QED
      BY <1>0, <3>1, <3>2, <3>3, <3>4
  <2>4. CASE ~Fresh(s, n)
    <3>1. n > started'[s] <=> n > started[s]
      BY <1>2, <2>4 DEF Starts
    <3>2. /\ run'[s][n].pc = "none" <=> run[s][n].pc = "none"
          /\ run'[s][n].epoch = run[s][n].epoch
      BY <1>1, <2>4 DEF GoesOn
    <3>3. QED
      BY <2>2, <3>1, <3>2
  <2>5. QED
    BY <2>3, <2>4
<1>6. QED
  BY <1>1, <1>2, <1>3, <1>4, <1>5

\* ensureMqttStarted() begins a start in each cold scope of S, and only there;
\* while no transports are awaited it keeps the rest of the invariant.
LEMMA BeginKeeps ==
  ASSUME TypeOK, TransportsOK, NEW S \in SUBSET Scopes, ~Closing, Begins(S),
         UNCHANGED <<epoch, installed, late, teardown>>
  PROVE  /\ Quiet' /\ CurrentOK' /\ LinkOK' /\ MemoOK'
         /\ \A s \in S : Clean(s) => memo'[s] # NoStart /\ Current(s, memo[s])'
<1> DEFINE new == [NoAttempt EXCEPT !.pc = "connecting", !.epoch = epoch]
           Fresh(s, n) == s \in Cold(S) /\ n = started[s] + 1
<1>0. /\ new.pc = "connecting" /\ new.epoch = epoch /\ new.link = FALSE
      /\ \A s \in Scopes : Clean(s)' <=> Clean(s)
  BY DEF NoAttempt, Clean
<1>1. \A s \in Scopes, n \in Starts :
        /\ Fresh(s, n) => run'[s][n] = new
        /\ ~Fresh(s, n) => run'[s][n] = run[s][n] \/ GoesOn(s, n)
  BY DEF Begins
<1>2. \A s \in Scopes : memo[s] \in Starts \cup {NoStart}
  BY DEF TypeOK
<1>3. /\ \A s \in Cold(S) : /\ memo[s] = NoStart /\ started[s] + 1 \in Starts
                            /\ s \in Scopes /\ memo'[s] = started[s] + 1
      /\ \A s \in Scopes \ Cold(S) : memo'[s] = memo[s]
  BY BeginNumbers
<1>4. \A s \in Scopes, n \in Starts : Current(s, n) => Current(s, n)'
  BY BeginNumbers
<1>5. \A s \in Cold(S), n \in Starts : n = started[s] + 1 => Current(s, n)'
  BY <1>0, <1>1, <1>3 DEF Current
<1>6. \A s \in S : Clean(s) => memo'[s] # NoStart /\ Current(s, memo[s])'
  <2>1. SUFFICES ASSUME NEW s \in S, Clean(s) PROVE memo'[s] # NoStart /\ Current(s, memo[s])'
    OBVIOUS
  <2>2. CASE s \in Cold(S)
    <3>1. memo'[s] = started[s] + 1 /\ started[s] + 1 \in Starts
      BY <1>3, <2>2
    <3>2. Current(s, memo[s])'
      BY <1>5, <2>2, <3>1 DEF Current
    <3>3. QED
      BY <3>1, <3>2 DEF NoStart, Starts
  <2>3. CASE s \notin Cold(S)
    <3>1. memo[s] # NoStart /\ memo'[s] = memo[s] /\ memo[s] \in Starts
      BY <1>2, <1>3, <2>3 DEF Cold
    <3>2. Current(s, memo[s])
      BY <2>1, <3>1 DEF TransportsOK, MemoOK
    <3>3. Current(s, memo[s])'
      BY <1>4, <3>1, <3>2 DEF Current
    <3>4. QED
      BY <3>1, <3>3
  <2>4. QED
    BY <2>2, <2>3
<1>7. ~Closing' /\ Quiet'
  BY DEF Closing, Quiet
<1>8. CurrentOK'
  <2>1. SUFFICES ASSUME NEW s \in Scopes, NEW n \in Starts, Clean(s), Current(s, n)'
                 PROVE  /\ run'[s][n].pc # "closing"
                        /\ run'[s][n].pc # "failed" => memo'[s] = n
                        /\ run'[s][n].pc = "connecting" => installed'[s] = NoStart
                        /\ Through(run'[s][n]) => run'[s][n].link /\ installed'[s] = n
    BY <1>0 DEF CurrentOK, Through
  <2>2. CASE Fresh(s, n)
    <3>1. installed[s] = NoStart
      BY <1>3, <2>1, <2>2 DEF TransportsOK, MemoOK
    <3>2. QED
      BY <1>0, <1>1, <1>3, <2>2, <3>1 DEF Through
  <2>3. CASE ~Fresh(s, n)
    <3>1. run'[s][n] = run[s][n] /\ Current(s, n)
      BY <1>1, <2>1, <2>3 DEF Current, GoesOn, Loose
    <3>2. /\ run[s][n].pc # "closing"
          /\ run[s][n].pc # "failed" => memo[s] = n
          /\ run[s][n].pc = "connecting" => installed[s] = NoStart
          /\ Through(run[s][n]) => run[s][n].link /\ installed[s] = n
      BY <2>1, <3>1 DEF TransportsOK, CurrentOK
    <3>3. run[s][n].pc # "failed" => memo'[s] = n
      BY <1>3, <3>2 DEF Starts, NoStart
    <3>4. QED
      BY <3>1, <3>2, <3>3
  <2>4. QED
    BY <2>2, <2>3
<1>9. LinkOK'
  <2>1. SUFFICES ASSUME NEW s \in Scopes, NEW n \in Starts, run'[s][n].link
                 PROVE  Excepted(s, n)' \/ (Current(s, n)' /\ Through(run'[s][n]))
    BY DEF LinkOK, Through
  <2>2. run'[s][n] = run[s][n] \/ GoesOn(s, n)
    BY <1>0, <1>1, <2>1
  <2>3. Excepted(s, n) \/ (Current(s, n) /\ Through(run[s][n]))
    BY <2>1, <2>2 DEF TransportsOK, LinkOK, GoesOn
  <2>4. Excepted(s, n)' <=> Excepted(s, n)
    BY <2>2 DEF Excepted, GoesOn
  <2>5. QED
    BY <1>4, <2>2, <2>3, <2>4 DEF GoesOn, Loose, Clean, Excepted, Current
<1>10. MemoOK'
  <2>1. SUFFICES ASSUME NEW s \in Scopes, Clean(s)
                 PROVE  /\ memo'[s] # NoStart => Current(s, memo[s])'
                        /\ installed'[s] # NoStart => memo'[s] = installed'[s]
    BY <1>0 DEF MemoOK
  <2>2. installed[s] # NoStart => memo[s] = installed[s] /\ s \notin Cold(S)
    BY <1>3, <2>1 DEF TransportsOK, MemoOK
  <2>3. installed'[s] # NoStart => memo'[s] = installed'[s]
    BY <1>3, <2>2
  <2>4. CASE s \in Cold(S)
    <3>1. memo'[s] = started[s] + 1 /\ started[s] + 1 \in Starts
      BY <1>3, <2>4
    <3>2. Current(s, memo[s])'
      BY <1>5, <2>4, <3>1 DEF Current
    <3>3. QED
      BY <2>3, <3>2
  <2>5. CASE s \notin Cold(S)
    <3>1. memo'[s] = memo[s]
      BY <1>3, <2>5
    <3>2. memo[s] # NoStart => Current(s, memo[s]) /\ memo[s] \in Starts
      BY <1>2, <2>1 DEF TransportsOK, MemoOK
    <3>3. memo[s] # NoStart => Current(s, memo[s])'
      BY <1>4, <3>1, <3>2 DEF Current
    <3>4. QED
      BY <2>3, <3>1, <3>3
  <2>6. QED
    BY <2>4, <2>5
<1>11. QED
  BY <1>6, <1>7, <1>8, <1>9, <1>10

\* While transports are awaited, the scopes X that are asked for, those where a
\* start begins among them, stop being clean; nothing begins in the others.
LEMMA LateKeeps ==
  ASSUME TypeOK, TransportsOK, NEW S \in SUBSET Scopes, Closing, Begins(S),
         NEW X \in SUBSET Scopes, Cold(S) \subseteq X, Asked(X),
         UNCHANGED <<epoch, installed, teardown>>
  PROVE  /\ Quiet' /\ CurrentOK' /\ LinkOK' /\ MemoOK'
         /\ \A s \in Scopes : Clean(s)' => Clean(s) /\ s \notin X
<1>1. /\ \A e \in Epochs : late[e] \subseteq late'[e]
      /\ late'[epoch] = late[epoch] \cup X
      /\ Closing' /\ epoch \in Epochs
  BY DEF Asked, TypeOK, Closing
<1>2. \A s \in Scopes : Clean(s)' => Clean(s) /\ s \notin X
  BY <1>1 DEF Clean
<1>3. \A s \in Scopes, n \in Starts :
        IF s \in Cold(S) /\ n = started[s] + 1
        THEN run'[s][n] = [NoAttempt EXCEPT !.pc = "connecting", !.epoch = epoch]
        ELSE run'[s][n] = run[s][n] \/ GoesOn(s, n)
  BY DEF Begins
<1>4. \A s \in Scopes, n \in Starts : Clean(s) => ~Current(s, n)
  BY DEF TransportsOK, Quiet
<1>5. \A s \in Scopes, n \in Starts : Clean(s)' => ~Current(s, n)'
  <2>1. SUFFICES ASSUME NEW s \in Scopes, NEW n \in Starts, Clean(s)' PROVE ~Current(s, n)'
    OBVIOUS
  <2>2. Clean(s) /\ s \notin Cold(S)
    BY <1>2, <2>1
  <2>3. ~Current(s, n) /\ (run'[s][n] = run[s][n] \/ GoesOn(s, n))
    BY <1>3, <1>4, <2>2
  <2>4. QED
    BY <2>3 DEF Current, GoesOn
<1>6. LinkOK'
  <2>1. SUFFICES ASSUME NEW s \in Scopes, NEW n \in Starts, run'[s][n].link
                 PROVE  Excepted(s, n)'
    BY DEF LinkOK, Through
  <2>2. run'[s][n] = run[s][n] \/ GoesOn(s, n)
    BY <1>3, <2>1 DEF NoAttempt
  <2>3. Excepted(s, n) \/ (Current(s, n) /\ Through(run[s][n]))
    BY <2>1, <2>2 DEF TransportsOK, LinkOK, GoesOn
  <2>4. Excepted(s, n)
    BY <1>4, <2>3 DEF Clean, Excepted, Current
  <2>5. run'[s][n].epoch = run[s][n].epoch /\ run[s][n].epoch \in Epochs
    BY <2>2 DEF GoesOn, TypeOK, Start
  <2>6. QED
    BY <1>1, <2>4, <2>5 DEF Excepted
<1>7. Quiet' /\ CurrentOK' /\ MemoOK'
  BY <1>1, <1>5 DEF Quiet, CurrentOK, MemoOK
<1>8. QED
  BY <1>2, <1>6, <1>7

\* So the whole invariant is kept where no bring-up takes a step.
LEMMA BeginsKeeps ==
  ASSUME TypeOK, TransportsOK, NEW S \in SUBSET Scopes, Begins(S),
         NEW X \in SUBSET Scopes, Cold(S) \subseteq X, Asked(X),
         UNCHANGED <<epoch, task, awaits, installed, teardown>>
  PROVE  TransportsOK'
<1>1. /\ Numbered'
      /\ \A t \in Scopes, n \in Starts : Current(t, n) => Current(t, n)'
  BY BeginNumbers
<1>2. TasksOK'
  BY DEF TransportsOK, TasksOK
<1>3. \A t \in Scopes : awaits[epoch][t] # NoStart => awaits[epoch][t] \in Starts
  BY DEF TypeOK
<1>4. CASE ~Closing
  <2>1. late' = late
    BY <1>4 DEF Asked, TypeOK
  <2>2. Quiet' /\ CurrentOK' /\ LinkOK' /\ MemoOK'
    BY <1>4, <2>1, BeginKeeps
  <2>3. AwaitsOK'
    BY <1>1, <1>3, <2>1 DEF TransportsOK, AwaitsOK, Clean, Current
  <2>4. QED
    BY <1>1, <1>2, <2>2, <2>3 DEF TransportsOK
<1>5. CASE Closing
  <2>1. /\ Quiet' /\ CurrentOK' /\ LinkOK' /\ MemoOK'
        /\ \A t \in Scopes : Clean(t)' => Clean(t)
    BY <1>5, LateKeeps
  <2>2. AwaitsOK'
    BY <1>3, <1>5, <2>1 DEF TransportsOK, AwaitsOK, Quiet
  <2>3. QED
    BY <1>1, <1>2, <2>1, <2>2 DEF TransportsOK
<1>6. QED
  BY <1>4, <1>5

\* One start goes on: the record rec takes the place of that of (s, n).  A memo
\* may be cleared, and a start of the current epoch may be installed.
OneStart(s, n, rec) ==
  /\ run[s][n].pc # "none" /\ rec.pc # "none" /\ rec.epoch = run[s][n].epoch
  /\ \A t \in Scopes, m \in Starts :
       run'[t][m] = IF t = s /\ m = n THEN rec ELSE run[t][m]
  /\ \A t \in Scopes : memo'[t] = memo[t] \/ memo'[t] = NoStart
  /\ \/ installed' = installed
     \/ Current(s, n) /\ installed' = [installed EXCEPT ![s] = n]
  /\ UNCHANGED <<epoch, task, awaits, started, late, teardown>>

\* Then the current starts, and what does not look inside them, stay.
LEMMA OneStartKeeps ==
  ASSUME TypeOK, TransportsOK, NEW s \in Scopes, NEW n \in Starts, NEW rec,
         OneStart(s, n, rec)
  PROVE  /\ \A t \in Scopes, m \in Starts :
              (Current(t, m)' <=> Current(t, m)) /\ (Excepted(t, m)' <=> Excepted(t, m))
         /\ \A t \in Scopes : Clean(t)' <=> Clean(t)
         /\ TasksOK' /\ Quiet' /\ Numbered' /\ AwaitsOK'
         /\ Closing' <=> Closing
<1>1. \A t \in Scopes, m \in Starts :
        (Current(t, m)' <=> Current(t, m)) /\ (Excepted(t, m)' <=> Excepted(t, m))
  BY DEF OneStart, Current, Excepted
<1>2. \A t \in Scopes : Clean(t)' <=> Clean(t)
  BY DEF OneStart, Clean
<1>3. TasksOK' /\ (Closing' <=> Closing)
  BY DEF OneStart, TransportsOK, TasksOK, Closing
<1>4. Quiet'
  BY <1>1, <1>2, <1>3 DEF TransportsOK, Quiet
<1>5. Numbered'
  BY DEF OneStart, TransportsOK, Numbered
<1>6. AwaitsOK'
  <2>1. SUFFICES ASSUME task[epoch] = "starting", NEW t \in Scopes, Clean(t)
                 PROVE  awaits[epoch][t] # NoStart /\ Current(t, awaits[epoch][t])'
    BY <1>2 DEF AwaitsOK, OneStart
  <2>2. awaits[epoch][t] # NoStart /\ Current(t, awaits[epoch][t])
    BY <2>1 DEF TransportsOK, AwaitsOK
  <2>3. awaits[epoch][t] \in Starts /\ awaits' = awaits /\ epoch' = epoch
    BY <2>2 DEF TypeOK, OneStart
  <2>4. QED
    BY <1>1, <2>2, <2>3 DEF Current
<1>7. QED
  BY <1>1, <1>2, <1>3, <1>4, <1>5, <1>6

\* A loose start goes on and gains no link: nothing changes for the others.
LEMMA LooseKeeps ==
  ASSUME TypeOK, TransportsOK, NEW s \in Scopes, NEW n \in Starts, NEW rec,
         OneStart(s, n, rec), Loose(s, n), rec.link => run[s][n].link,
         UNCHANGED <<memo, installed>>
  PROVE  TransportsOK'
<1>1. /\ \A t \in Scopes, m \in Starts :
           (Current(t, m)' <=> Current(t, m)) /\ (Excepted(t, m)' <=> Excepted(t, m))
      /\ \A t \in Scopes : Clean(t)' <=> Clean(t)
      /\ TasksOK' /\ Quiet' /\ Numbered' /\ AwaitsOK'
      /\ Closing' <=> Closing
  BY OneStartKeeps
<1>2. \A t \in Scopes, m \in Starts :
        run'[t][m] = IF t = s /\ m = n THEN rec ELSE run[t][m]
  BY DEF OneStart
<1>3. CurrentOK'
  BY <1>1, <1>2 DEF TransportsOK, CurrentOK, Loose
<1>4. LinkOK'
  <2>1. SUFFICES ASSUME NEW t \in Scopes, NEW m \in Starts, run'[t][m].link
                 PROVE  Excepted(t, m) \/ (Current(t, m) /\ Through(run'[t][m]))
    BY <1>1 DEF LinkOK, Through
  <2>2. Excepted(t, m) \/ (Current(t, m) /\ Through(run[t][m]))
    BY <1>2, <2>1 DEF TransportsOK, LinkOK
  <2>3. CASE t = s /\ m = n
    BY <2>2, <2>3 DEF Loose, Clean, Current, Excepted
  <2>4. CASE ~(t = s /\ m = n)
    BY <1>2, <2>2, <2>4
  <2>5. QED
    BY <2>3, <2>4
<1>5. MemoOK'
  <2>1. SUFFICES ASSUME ~Closing, NEW t \in Scopes, Clean(t)
                 PROVE  /\ memo[t] # NoStart => Current(t, memo[t])'
                        /\ installed[t] # NoStart => memo[t] = installed[t]
    BY <1>1 DEF MemoOK
  <2>2. /\ memo[t] # NoStart => Current(t, memo[t]) /\ memo[t] \in Starts
        /\ installed[t] # NoStart => memo[t] = installed[t]
    BY <2>1 DEF TransportsOK, MemoOK, TypeOK
  <2>3. QED
    BY <1>1, <2>2 DEF Current
<1>6. QED
  BY <1>1, <1>3, <1>4, <1>5 DEF TransportsOK

\* A start of the current epoch that connects is installed, the only one of its
\* scope; a stale one is not.
LEMMA ConnectsKeeps ==
  ASSUME TypeOK, TypeOK', TransportsOK, NEW s \in Scopes, NEW n \in Starts, Connects(s, n)
  PROVE  TransportsOK'
<1>1. /\ run[s][n].pc = "connecting" /\ run[s][n] \in Start
      /\ UNCHANGED <<epoch, task, awaits, started, memo, late, teardown>>
  BY DEF Connects, TypeOK, bringup
<1>2. CASE run[s][n].epoch = epoch
  <2> DEFINE rec == [run[s][n] EXCEPT !.pc = "subscribing", !.link = TRUE]
  <2>1. rec \in Start /\ rec.pc = "subscribing" /\ rec.link = TRUE /\ rec.epoch = epoch
    BY <1>1, <1>2 DEF Start
  <2>2. run' = [run EXCEPT ![s][n] = rec] /\ installed' = [installed EXCEPT ![s] = n]
    BY <1>2 DEF Connects
  <2>3. \A t \in Scopes, m \in Starts :
          run'[t][m] = IF t = s /\ m = n THEN rec ELSE run[t][m]
    BY <2>1, <2>2, RunChange DEF TypeOK
  <2>4. Current(s, n)
    BY <1>1, <1>2 DEF Current
  <2>5. OneStart(s, n, rec)
    BY <1>1, <1>2, <2>1, <2>2, <2>3, <2>4 DEF OneStart
  <2>6. /\ \A t \in Scopes, m \in Starts :
             (Current(t, m)' <=> Current(t, m)) /\ (Excepted(t, m)' <=> Excepted(t, m))
        /\ \A t \in Scopes : Clean(t)' <=> Clean(t)
        /\ TasksOK' /\ Quiet' /\ Numbered' /\ AwaitsOK'
        /\ Closing' <=> Closing
    BY <2>5, OneStartKeeps
  <2>7. /\ Clean(s) => memo[s] = n /\ installed[s] = NoStart
        /\ \A t \in Scopes : installed'[t] = IF t = s THEN n ELSE installed[t]
    BY <1>1, <2>2, <2>4 DEF TransportsOK, CurrentOK, TypeOK
  <2>8. CurrentOK'
    <3>1. SUFFICES ASSUME NEW t \in Scopes, NEW m \in Starts, Clean(t), Current(t, m)
                   PROVE  /\ run'[t][m].pc # "closing"
                          /\ run'[t][m].pc # "failed" => memo'[t] = m
                          /\ run'[t][m].pc = "connecting" => installed'[t] = NoStart
                          /\ Through(run'[t][m]) => run'[t][m].link /\ installed'[t] = m
      BY <2>6 DEF CurrentOK, Through
    <3>2. CASE t = s /\ m = n
      BY <1>1, <2>1, <2>3, <2>7, <3>1, <3>2
    <3>3. CASE ~(t = s /\ m = n)
      <4>1. /\ run'[t][m] = run[t][m]
            /\ run[t][m].pc # "closing"
            /\ run[t][m].pc # "failed" => memo[t] = m
            /\ run[t][m].pc = "connecting" => installed[t] = NoStart
            /\ Through(run[t][m]) => run[t][m].link /\ installed[t] = m
        BY <2>3, <3>1, <3>3 DEF TransportsOK, CurrentOK
      <4>2. t = s => run[t][m].pc = "failed"
        BY <2>7, <3>1, <3>3, <4>1
      <4>3. QED
        BY <1>1, <2>7, <4>1, <4>2 DEF Through
    <3>4. QED
      BY <3>2, <3>3
  <2>9. LinkOK'
    <3>1. SUFFICES ASSUME NEW t \in Scopes, NEW m \in Starts, run'[t][m].link
                   PROVE  Excepted(t, m) \/ (Current(t, m) /\ Through(run'[t][m]))
      BY <2>6 DEF LinkOK, Through
    <3>2. CASE t = s /\ m = n
      BY <2>1, <2>3, <2>4, <3>2 DEF Through
    <3>3. CASE ~(t = s /\ m = n)
      BY <2>3, <3>1, <3>3 DEF TransportsOK, LinkOK
    <3>4. QED
      BY <3>2, <3>3
  <2>10. MemoOK'
    <3>1. SUFFICES ASSUME ~Closing, NEW t \in Scopes, Clean(t)
                   PROVE  /\ memo[t] # NoStart => Current(t, memo[t])'
                          /\ installed'[t] # NoStart => memo[t] = installed'[t]
      BY <1>1, <2>6 DEF MemoOK
    <3>2. /\ memo[t] # NoStart => Current(t, memo[t]) /\ memo[t] \in Starts
          /\ installed[t] # NoStart => memo[t] = installed[t]
      BY <3>1 DEF TransportsOK, MemoOK, TypeOK
    <3>3. memo[t] # NoStart => Current(t, memo[t])'
      BY <1>1, <2>6, <3>2 DEF Current
    <3>4. QED
      BY <2>7, <3>1, <3>2, <3>3
  <2>11. QED
    BY <2>6, <2>8, <2>9, <2>10 DEF TransportsOK
<1>3. CASE run[s][n].epoch # epoch
  <2> DEFINE rec == [run[s][n] EXCEPT !.pc = "closing"]
  <2>1. rec \in Start /\ rec.pc = "closing" /\ rec.epoch = run[s][n].epoch
        /\ rec.link = run[s][n].link
    BY <1>1 DEF Start
  <2>2. run' = [run EXCEPT ![s][n] = rec] /\ installed' = installed
    BY <1>3 DEF Connects
  <2>3. \A t \in Scopes, m \in Starts :
          run'[t][m] = IF t = s /\ m = n THEN rec ELSE run[t][m]
    BY <2>1, <2>2, RunChange DEF TypeOK
  <2>4. Loose(s, n)
    BY <1>3 DEF Loose, Current
  <2>5. OneStart(s, n, rec)
    BY <1>1, <2>1, <2>2, <2>3 DEF OneStart
  <2>6. QED
    BY <1>1, <2>1, <2>2, <2>3, <2>4, <2>5, LooseKeeps
<1>4. QED
  BY <1>2, <1>3

\* A start that fails clears no memo but its own.
LEMMA ConnectFailsKeeps ==
  ASSUME TypeOK, TransportsOK, NEW s \in Scopes, NEW n \in Starts, ConnectFails(s, n)
  PROVE  TransportsOK'
<1> DEFINE rec == [run[s][n] EXCEPT !.pc = "failed"]
<1>1. /\ run[s][n].pc = "connecting" /\ run[s][n] \in Start
      /\ UNCHANGED <<epoch, task, awaits, started, installed, late, teardown>>
  BY DEF ConnectFails, TypeOK, bringup
<1>2. run[s][n].link => Excepted(s, n)
  BY <1>1 DEF TransportsOK, LinkOK, Through
<1>3. /\ rec \in Start /\ rec.pc = "failed" /\ rec.epoch = run[s][n].epoch
      /\ rec.link = run[s][n].link
  BY <1>1 DEF Start
<1>4. run' = [run EXCEPT ![s][n] = rec]
  BY DEF ConnectFails
<1>5. \A t \in Scopes, m \in Starts :
        run'[t][m] = IF t = s /\ m = n THEN rec ELSE run[t][m]
  BY <1>3, <1>4, RunChange DEF TypeOK
<1>6. \A t \in Scopes : memo'[t] = IF t = s /\ memo[s] = n THEN NoStart ELSE memo[t]
  BY DEF ConnectFails, TypeOK
<1>7. OneStart(s, n, rec)
  BY <1>1, <1>3, <1>5, <1>6 DEF OneStart
<1>8. /\ \A t \in Scopes, m \in Starts :
           (Current(t, m)' <=> Current(t, m)) /\ (Excepted(t, m)' <=> Excepted(t, m))
      /\ \A t \in Scopes : Clean(t)' <=> Clean(t)
      /\ TasksOK' /\ Quiet' /\ Numbered' /\ AwaitsOK'
      /\ Closing' <=> Closing
  BY <1>7, OneStartKeeps
<1>9. CurrentOK'
  <2>1. SUFFICES ASSUME NEW t \in Scopes, NEW m \in Starts, Clean(t), Current(t, m)
                 PROVE  /\ run'[t][m].pc # "closing"
                        /\ run'[t][m].pc # "failed" => memo'[t] = m
                        /\ run'[t][m].pc = "connecting" => installed'[t] = NoStart
                        /\ Through(run'[t][m]) => run'[t][m].link /\ installed'[t] = m
    BY <1>8 DEF CurrentOK, Through
  <2>2. CASE t = s /\ m = n
    BY <1>3, <1>5, <2>2 DEF Through
  <2>3. CASE ~(t = s /\ m = n)
    <3>1. /\ run'[t][m] = run[t][m]
          /\ run[t][m].pc # "closing"
          /\ run[t][m].pc # "failed" => memo[t] = m
          /\ run[t][m].pc = "connecting" => installed[t] = NoStart
          /\ Through(run[t][m]) => run[t][m].link /\ installed[t] = m
      BY <1>5, <2>1, <2>3 DEF TransportsOK, CurrentOK
    <3>2. run[t][m].pc # "failed" => memo'[t] = m
      BY <1>6, <2>3, <3>1
    <3>3. QED
      BY <1>1, <3>1, <3>2
  <2>4. QED
    BY <2>2, <2>3
<1>10. LinkOK'
  BY <1>2, <1>3, <1>5, <1>8 DEF TransportsOK, LinkOK
<1>11. MemoOK'
  <2>1. SUFFICES ASSUME ~Closing, NEW t \in Scopes, Clean(t)
                 PROVE  /\ memo'[t] # NoStart => Current(t, memo[t])'
                        /\ installed[t] # NoStart => memo'[t] = installed[t]
    BY <1>1, <1>8 DEF MemoOK
  <2>2. /\ memo[t] # NoStart => Current(t, memo[t]) /\ memo[t] \in Starts
        /\ installed[t] # NoStart => memo[t] = installed[t]
    BY <2>1 DEF TransportsOK, MemoOK, TypeOK
  <2>3. CASE t = s /\ memo[s] = n
    <3>1. Current(s, n)
      BY <2>2, <2>3 DEF NoStart, Starts
    <3>2. installed[s] = NoStart
      BY <1>1, <2>1, <2>3, <3>1 DEF TransportsOK, CurrentOK
    <3>3. QED
      BY <1>6, <2>3, <3>2
  <2>4. CASE ~(t = s /\ memo[s] = n)
    <3>1. memo'[t] = memo[t]
      BY <1>6, <2>4
    <3>2. memo[t] # NoStart => Current(t, memo[t])'
      BY <1>8, <2>2, <3>1 DEF Current
    <3>3. QED
      BY <2>2, <3>1, <3>2
  <2>5. QED
    BY <2>3, <2>4
<1>12. QED
  BY <1>8, <1>9, <1>10, <1>11 DEF TransportsOK

\* What follows the connection: the roster is subscribed, a superseded
\* transport is gone.
LEMMA DoneKeeps ==
  ASSUME TypeOK, TransportsOK, NEW s \in Scopes, NEW n \in Starts,
         Closed(s, n) \/ Subscribed(s, n) \/ InitSent(s, n)
  PROVE  TransportsOK'
<1> DEFINE rec == [run[s][n] EXCEPT !.pc = "done"]
<1>1. /\ run[s][n].pc \in {"closing", "subscribing", "publishing"} /\ run[s][n] \in Start
      /\ UNCHANGED <<epoch, task, awaits, started, memo, installed, late, teardown>>
  BY DEF Closed, Subscribed, InitSent, TypeOK, bringup
<1>2. rec \in Start /\ rec.pc = "done" /\ rec.link = run[s][n].link
        /\ rec.epoch = run[s][n].epoch
  BY <1>1 DEF Start
<1>3. run' = [run EXCEPT ![s][n] = rec]
  BY DEF Closed, Subscribed, InitSent
<1>4. \A t \in Scopes, m \in Starts :
        run'[t][m] = IF t = s /\ m = n THEN rec ELSE run[t][m]
  BY <1>2, <1>3, RunChange DEF TypeOK
<1>5. OneStart(s, n, rec)
  BY <1>1, <1>2, <1>4 DEF OneStart
<1>6. CASE Loose(s, n)
  BY <1>1, <1>2, <1>5, <1>6, LooseKeeps
<1>7. CASE ~Loose(s, n)
  <2>0. Current(s, n) /\ Clean(s)
    BY <1>7 DEF Loose
  <2>1. /\ \A t \in Scopes, m \in Starts :
             (Current(t, m)' <=> Current(t, m)) /\ (Excepted(t, m)' <=> Excepted(t, m))
        /\ \A t \in Scopes : Clean(t)' <=> Clean(t)
        /\ TasksOK' /\ Quiet' /\ Numbered' /\ AwaitsOK'
        /\ Closing' <=> Closing
    BY <1>5, OneStartKeeps
  <2>2. Through(run[s][n]) /\ run[s][n].link /\ installed[s] = n /\ memo[s] = n
    BY <1>1, <2>0 DEF TransportsOK, CurrentOK, Through
  <2>3. CurrentOK'
    <3>1. SUFFICES ASSUME NEW t \in Scopes, NEW m \in Starts, Clean(t), Current(t, m)
                   PROVE  /\ run'[t][m].pc # "closing"
                          /\ run'[t][m].pc # "failed" => memo'[t] = m
                          /\ run'[t][m].pc = "connecting" => installed'[t] = NoStart
                          /\ Through(run'[t][m]) => run'[t][m].link /\ installed'[t] = m
      BY <2>1 DEF CurrentOK, Through
    <3>2. CASE t = s /\ m = n
      BY <1>1, <1>2, <1>4, <2>2, <3>2
    <3>3. CASE ~(t = s /\ m = n)
      BY <1>1, <1>4, <3>1, <3>3 DEF TransportsOK, CurrentOK
    <3>4. QED
      BY <3>2, <3>3
  <2>4. LinkOK'
    <3>1. SUFFICES ASSUME NEW t \in Scopes, NEW m \in Starts, run'[t][m].link
                   PROVE  Excepted(t, m) \/ (Current(t, m) /\ Through(run'[t][m]))
      BY <2>1 DEF LinkOK, Through
    <3>2. CASE t = s /\ m = n
      BY <1>1, <1>2, <1>4, <2>0, <2>2, <3>2 DEF Through
    <3>3. CASE ~(t = s /\ m = n)
      BY <1>4, <3>1, <3>3 DEF TransportsOK, LinkOK
    <3>4. QED
      BY <3>2, <3>3
  <2>5. MemoOK'
    <3>1. SUFFICES ASSUME ~Closing, NEW t \in Scopes, Clean(t)
                   PROVE  /\ memo[t] # NoStart => Current(t, memo[t])'
                          /\ installed[t] # NoStart => memo[t] = installed[t]
      BY <1>1, <2>1 DEF MemoOK
    <3>2. /\ memo[t] # NoStart => Current(t, memo[t]) /\ memo[t] \in Starts
          /\ installed[t] # NoStart => memo[t] = installed[t]
      BY <3>1 DEF TransportsOK, MemoOK, TypeOK
    <3>3. QED
      BY <1>1, <2>1, <3>2 DEF Current
  <2>6. QED
    BY <2>1, <2>3, <2>4, <2>5 DEF TransportsOK
<1>8. QED
  BY <1>6, <1>7

\* disconnect() leaves every start behind: none belongs to the new epoch, and no
\* link is up but the excepted ones, since every other link was installed.
LEMMA DisconnectKeeps ==
  ASSUME TypeOK, TransportsOK, Disconnect
  PROVE  TransportsOK'
<1>1. /\ epoch < MaxEpoch /\ epoch' = epoch + 1 /\ epoch \in Nat
      /\ epoch \in Epochs /\ epoch + 1 \in Epochs
      /\ teardown' = [teardown EXCEPT ![epoch] = "mqtt"]
      /\ UNCHANGED <<task, awaits, started, memo, installed, late>>
  BY DEF Disconnect, TypeOK, Epochs
<1>2. \A s \in Scopes, n \in Starts :
        /\ run'[s][n].pc = run[s][n].pc
        /\ run'[s][n].epoch = run[s][n].epoch
        /\ run'[s][n].link <=> run[s][n].link /\ installed[s] # n
  <2>1. TAKE s \in Scopes, n \in Starts
  <2>2. run'[s][n] = [run[s][n] EXCEPT !.link = run[s][n].link /\ installed[s] # n]
    BY DEF Disconnect
  <2>3. run[s][n] \in Start
    BY DEF TypeOK
  <2>4. QED
    BY <2>2, <2>3 DEF Start
<1>3. \A s \in Scopes, n \in Starts : run'[s][n].link => Excepted(s, n)
  BY <1>2 DEF TransportsOK, LinkOK, CurrentOK, Clean, Current, Excepted
<1>4. \A s \in Scopes, n \in Starts : run[s][n].epoch \in Nat /\ run[s][n].epoch <= epoch
  BY DEF TransportsOK, Numbered, TypeOK, Start, Epochs
<1>5. \A s \in Scopes, n \in Starts : ~Current(s, n)'
  BY <1>1, <1>2, <1>4 DEF Current
<1>6. Closing' /\ task'[epoch'] = "none"
  BY <1>1 DEF TransportsOK, TasksOK, Closing, TypeOK
<1>7. TasksOK'
  BY <1>1 DEF TransportsOK, TasksOK, Epochs
<1>8. Quiet' /\ CurrentOK' /\ MemoOK' /\ AwaitsOK'
  BY <1>5, <1>6 DEF Quiet, CurrentOK, MemoOK, AwaitsOK
<1>9. Numbered'
  BY <1>1, <1>2, <1>4 DEF TransportsOK, Numbered
<1>10. LinkOK'
  BY <1>1, <1>2, <1>3 DEF LinkOK, Excepted
<1>11. QED
  BY <1>7, <1>8, <1>9, <1>10 DEF TransportsOK

\* The tear-down forgets transports and memos while no start of the current
\* epoch exists in a clean scope, and leaves alone what was started after that.
LEMMA TeardownKeeps ==
  ASSUME TypeOK, TransportsOK, NEW e \in Epochs,
         TransportsClosed(e) \/ StationsClosed(e)
  PROVE  TransportsOK'
<1>1. UNCHANGED <<epoch, task, awaits, run, started, late>>
  BY DEF TransportsClosed, StationsClosed, bringup, mqtt
<1>2. /\ TasksOK' /\ Numbered' /\ LinkOK' /\ AwaitsOK'
      /\ \A s \in Scopes : Clean(s)' <=> Clean(s)
      /\ \A s \in Scopes, n \in Starts : Current(s, n)' <=> Current(s, n)
  BY <1>1 DEF TransportsOK, TasksOK, Numbered, LinkOK, AwaitsOK, Current, Clean, Excepted
<1>3. CASE TransportsClosed(e)
  <2>1. \A s \in Scopes, n \in Starts : Clean(s) => ~Current(s, n)
    BY <1>3 DEF TransportsClosed, TransportsOK, Quiet, Closing
  <2>2. Quiet' /\ CurrentOK'
    BY <1>2, <2>1 DEF Quiet, CurrentOK
  <2>3. MemoOK'
    BY <1>3 DEF TransportsClosed, MemoOK
  <2>4. QED
    BY <1>2, <2>2, <2>3 DEF TransportsOK
<1>4. CASE StationsClosed(e)
  <2>1. UNCHANGED <<memo, installed>>
    BY <1>4 DEF StationsClosed, mqtt
  <2>2. Closing' <=> Closing
    <3>1. teardown[e] = "p2p" /\ teardown' = [teardown EXCEPT ![e] = "done"]
      BY <1>4 DEF StationsClosed
    <3>2. \A f \in Epochs : teardown'[f] = "mqtt" <=> teardown[f] = "mqtt"
      BY <3>1 DEF TypeOK
    <3>3. QED
      BY <3>2 DEF Closing
  <2>3. Quiet' /\ CurrentOK'
    BY <1>1, <1>2, <2>1, <2>2 DEF TransportsOK, Quiet, CurrentOK
  <2>4. MemoOK'
    BY <1>1, <1>2, <2>1, <2>2 DEF TransportsOK, MemoOK, Current
  <2>5. QED
    BY <1>2, <2>3, <2>4 DEF TransportsOK
<1>5. QED
  BY <1>3, <1>4

\* The bring-up of the current epoch starts its scopes; the other steps of an
\* epoch leave transports alone.
LEMMA EpochStepKeeps ==
  ASSUME TypeOK, TransportsOK, NEW e \in Epochs, EpochStep(e)
  PROVE  TransportsOK'
<1>1. task[e] # "none" => e <= epoch
  BY DEF TransportsOK, TasksOK, TypeOK, Epochs
<1>2. CASE Listed(e) /\ e = epoch
  <2>1. /\ Begins(Scopes) /\ Asked(Scopes)
        /\ Scopes \in SUBSET Scopes /\ Cold(Scopes) \subseteq Scopes
        /\ UNCHANGED <<epoch, installed, teardown>>
        /\ task' = [task EXCEPT ![epoch] = "starting"] /\ awaits'[epoch] = memo'
    BY <1>2 DEF Listed, Begins, Begun, Cold, TypeOK
  <2>2. Numbered'
    BY <2>1, BeginNumbers
  <2>3. TasksOK'
    BY <2>1 DEF TransportsOK, TasksOK, TypeOK, Epochs
  <2>4. CASE ~Closing
    <3>1. late' = late
      BY <2>1, <2>4 DEF Asked, TypeOK
    <3>2. /\ Quiet' /\ CurrentOK' /\ LinkOK' /\ MemoOK'
          /\ \A s \in Scopes : Clean(s) => memo'[s] # NoStart /\ Current(s, memo[s])'
      BY <2>1, <2>4, <3>1, BeginKeeps
    <3>3. AwaitsOK'
      BY <2>1, <3>1, <3>2 DEF AwaitsOK, Current, Clean
    <3>4. QED
      BY <2>2, <2>3, <3>2, <3>3 DEF TransportsOK
  <2>5. CASE Closing
    <3>1. /\ Quiet' /\ CurrentOK' /\ LinkOK' /\ MemoOK'
          /\ \A s \in Scopes : ~Clean(s)'
      BY <2>1, <2>5, LateKeeps
    <3>2. AwaitsOK'
      BY <3>1 DEF AwaitsOK
    <3>3. QED
      BY <2>2, <2>3, <3>1, <3>2 DEF TransportsOK
  <2>6. QED
    BY <2>4, <2>5
<1>3. CASE (Listed(e) /\ e # epoch) \/ ListFails(e) \/ Completes(e)
  <2>1. /\ task[e] # "none"
        /\ task' = [task EXCEPT ![e] = "over"]
        /\ UNCHANGED <<epoch, awaits, run, started, memo, installed, late, teardown>>
    BY <1>3 DEF Listed, ListFails, Completes, AllSettled, mqtt
  <2>2. QED
    BY <1>1, <2>1, TaskKeeps
<1>4. CASE PushStep(e) \/ WiredSettles(e) \/ PollEnds(e)
  BY <1>4, ElsewhereKeeps DEF PushStep, PushRegistered, PushConnects, PushFails,
     WiredSettles, PollEnds, bringup, mqtt
<1>5. CASE TransportsClosed(e) \/ StationsClosed(e)
  BY <1>5, TeardownKeeps
<1>6. QED
  BY <1>2, <1>3, <1>4, <1>5 DEF EpochStep, Listing

\* What the host calls.
LEMMA HostStepKeeps ==
  ASSUME TypeOK, TransportsOK, HostStep
  PROVE  TransportsOK'
<1>1. CASE Login
  <2>1. /\ task' = [task EXCEPT ![epoch] = "listing"]
        /\ UNCHANGED <<epoch, awaits, run, started, memo, installed, late, teardown>>
        /\ epoch \in Epochs /\ epoch <= epoch
    BY <1>1 DEF Login, mqtt, TypeOK, Epochs
  <2>2. QED
    BY <2>1, TaskKeeps
<1>2. CASE Disconnect
  BY <1>2, DisconnectKeeps
<1>3. CASE \E ms \in BOOLEAN : SetPollInterval(ms)
  BY <1>3, ElsewhereKeeps DEF SetPollInterval, bringup, mqtt
<1>4. ASSUME NEW s \in Scopes, OnDemand(s)
      PROVE  TransportsOK'
  <2>1. /\ Begins({s}) /\ Asked({s}) /\ {s} \in SUBSET Scopes /\ Cold({s}) \subseteq {s}
        /\ UNCHANGED <<epoch, task, awaits, installed, teardown>>
    BY <1>4 DEF OnDemand, Publish, AwaitFirstRealtimeState, Begins, Begun, Cold, bringup
  <2>2. QED
    BY <2>1, BeginsKeeps
<1>5. QED
  BY <1>1, <1>2, <1>3, <1>4 DEF HostStep

\* The initial state: nothing was started.
LEMMA InitOK == Init => TransportsOK
<1>1. SUFFICES ASSUME Init PROVE TransportsOK
  OBVIOUS
<1>2. \A s \in Scopes, n \in Starts :
        run[s][n].pc = "none" /\ run[s][n].epoch = 0 /\ ~run[s][n].link
  BY <1>1 DEF Init, NoAttempt
<1>3. \A s \in Scopes, n \in Starts : n > started[s]
  BY <1>1 DEF Init, Starts
<1>4. ~Closing /\ epoch = 0 /\ epoch \in Epochs /\ task[epoch] = "none"
  BY <1>1 DEF Init, Closing, Epochs
<1>5. TasksOK /\ Quiet /\ AwaitsOK
  BY <1>1, <1>4 DEF Init, TasksOK, Quiet, AwaitsOK
<1>6. Numbered /\ CurrentOK /\ LinkOK /\ MemoOK
  BY <1>1, <1>2, <1>3, <1>4 DEF Init, Numbered, CurrentOK, LinkOK, MemoOK, Current
<1>7. QED
  BY <1>5, <1>6 DEF TransportsOK

\* The first command of a device that finds no transport: the start that sends
\* it is loose, and it begins at most one.
LEMMA InitFindsNoneKeeps ==
  ASSUME TypeOK, TransportsOK, NEW s \in Scopes, NEW n \in Starts, InitFindsNone(s, n)
  PROVE  TransportsOK'
<1> DEFINE rec == [run[s][n] EXCEPT !.pc = "publishing", !.on = memo'[s]]
<1>1. /\ run[s][n].pc = "subscribing" /\ run[s][n] \in Start /\ installed[s] = NoStart
      /\ UNCHANGED <<epoch, task, awaits, installed, teardown>>
      /\ EnsureMqttStarted({s}) /\ Asked(Cold({s})) /\ started[s] \in Nat
      /\ {s} \in SUBSET Scopes /\ Cold({s}) \in SUBSET Scopes
  BY DEF InitFindsNone, TypeOK, bringup, Cold
<1>2. Loose(s, n)
  BY <1>1 DEF TransportsOK, CurrentOK, Loose, Through, NoStart, Starts
<1>3. n # started[s] + 1
  BY <1>1 DEF TransportsOK, Numbered, Starts
<1>4. Begun({s})[s][n] = run[s][n]
  BY <1>3 DEF Begun
<1>5. \A t \in Scopes, m \in Starts :
        run'[t][m] = IF t = s /\ m = n THEN rec ELSE Begun({s})[t][m]
  BY <1>4 DEF InitFindsNone, Begun
<1>6. rec.pc = "publishing" /\ rec.epoch = run[s][n].epoch /\ rec.link = run[s][n].link
  BY <1>1 DEF Start
<1> HIDE DEF rec
<1>7. GoesOn(s, n)
  BY <1>1, <1>2, <1>5, <1>6 DEF GoesOn
<1>8. Begins({s})
  BY <1>1, <1>3, <1>5, <1>7 DEF Begins, Begun
<1>9. QED
  BY <1>1, <1>8, BeginsKeeps

\* Every step keeps the transports in order.
LEMMA StepOK ==
  ASSUME TypeOK, TransportsOK, [Next]_vars
  PROVE  TransportsOK'
<1>1. TypeOK'
  BY StepType
<1>2. CASE UNCHANGED vars
  BY <1>2, ElsewhereKeeps DEF vars, bringup, mqtt
<1>3. ASSUME NEW s \in Scopes, NEW n \in Starts, StartStep(s, n)
      PROVE  TransportsOK'
  <2>1. CASE InitFindsNone(s, n)
    BY <2>1, InitFindsNoneKeeps
  <2>2. CASE Connects(s, n)
    BY <1>1, <2>2, ConnectsKeeps
  <2>3. CASE ConnectFails(s, n)
    BY <2>3, ConnectFailsKeeps
  <2>4. CASE Closed(s, n) \/ Subscribed(s, n) \/ InitSent(s, n)
    BY <2>4, DoneKeeps
  <2>5. QED
    BY <1>3, <2>1, <2>2, <2>3, <2>4 DEF StartStep, Connecting, Subscribing
<1>4. CASE PollFires
  BY <1>4, ElsewhereKeeps DEF PollFires, bringup, mqtt
<1>5. QED
  BY <1>2, <1>3, <1>4, EpochStepKeeps, HostStepKeeps DEF Next

\* The inductive invariant holds in every behaviour.
LEMMA Invariance == Spec => []IInv
<1>1. Init => IInv
  BY InitType, InitOK DEF IInv
<1>2. IInv /\ [Next]_vars => IInv'
  BY StepType, StepOK DEF IInv
<1>3. QED
  BY <1>1, <1>2, PTL DEF Spec

\* A generation that settles "ready" finds its push client, and its transports
\* in the clean scopes.
LEMMA ReadyStep ==
  ASSUME IInv, [Next]_vars, NEW e \in Epochs, result[e] # "ready", result'[e] = "ready"
  PROVE  /\ pushClient' = e /\ push[e] = "up"
         /\ \A s \in Scopes \ late[e] :
              installed[s] # NoStart /\ run[s][installed[s]].link
<1>1. TypeOK /\ CurrentOK /\ AwaitsOK
  BY DEF IInv, TransportsOK
<1>2. result' # result
  OBVIOUS
<1>3. PICK f \in Epochs : Completes(f) /\ f = epoch /\ "ready" \in Outcomes(f) /\ f = e
  <2>1. ASSUME NEW s \in Scopes, NEW n \in Starts, StartStep(s, n) PROVE FALSE
    BY <1>2, <2>1 DEF StartStep, Connecting, Subscribing, Connects, ConnectFails,
       Closed, Subscribed, InitFindsNone, InitSent, bringup
  <2>2. ~(HostStep \/ PollFires \/ UNCHANGED vars)
    <3>1. ~Disconnect
      BY <1>1 DEF Disconnect, Settle, TypeOK
    <3>2. QED
      BY <1>2, <3>1 DEF HostStep, Login, SetPollInterval, OnDemand, Publish,
         AwaitFirstRealtimeState, PollFires, vars, bringup
  <2>3. PICK f \in Epochs : EpochStep(f)
    BY <2>1, <2>2 DEF Next
  <2>4. ~ListFails(f)
    BY <1>1 DEF ListFails, Settle, TypeOK
  <2>5. Completes(f)
    BY <1>2, <2>3, <2>4 DEF EpochStep, Listing, Listed, PushStep, PushRegistered,
       PushConnects, PushFails, WiredSettles, TransportsClosed, StationsClosed,
       PollEnds, bringup
  <2>6. f = epoch
    BY <1>1, <2>5 DEF Completes, Settle, TypeOK
  <2>7. \E how \in Outcomes(f) : Settle(f, how)
    BY <2>5, <2>6 DEF Completes
  <2>8. f = e /\ "ready" \in Outcomes(f)
    BY <1>1, <2>7 DEF Settle, TypeOK
  <2>9. QED
    BY <2>5, <2>6, <2>8
<1>4. push[e] = "up" /\ \A s \in Scopes : run[s][awaits[e][s]].pc = "done"
  BY <1>3 DEF Outcomes
<1>5. pushClient' = e
  BY <1>3, <1>4 DEF Completes
<1>6. ASSUME NEW s \in Scopes \ late[e]
      PROVE  installed[s] # NoStart /\ run[s][installed[s]].link
  <2>1. Clean(s) /\ task[epoch] = "starting"
    BY <1>3 DEF Clean, Completes, AllSettled
  <2>2. /\ awaits[e][s] # NoStart /\ Current(s, awaits[e][s])
        /\ awaits[e][s] \in Starts
    BY <1>1, <1>3, <2>1 DEF AwaitsOK, TypeOK
  <2>3. run[s][awaits[e][s]].link /\ installed[s] = awaits[e][s]
    BY <1>1, <1>4, <2>1, <2>2 DEF CurrentOK, Through
  <2>4. QED
    BY <2>2, <2>3
<1>7. QED
  BY <1>4, <1>5, <1>6

LEMMA NotStranded == IInv => NoStrandedTransport
<1>1. SUFFICES ASSUME IInv, NEW s \in Scopes, NEW n \in Starts, run[s][n].link, ~Excepted(s, n)
               PROVE  installed[s] = n
  BY DEF NoStrandedTransport, Excepted
<1>2. Current(s, n) /\ Through(run[s][n])
  BY <1>1 DEF IInv, TransportsOK, LinkOK
<1>3. Clean(s)
  BY <1>1, <1>2 DEF Clean, Excepted, Current
<1>4. QED
  BY <1>1, <1>2, <1>3 DEF IInv, TransportsOK, CurrentOK

LEMMA ReadyAction ==
  IInv /\ [Next]_vars =>
    [\A e \in Epochs : result[e] # "ready" /\ result'[e] = "ready" =>
       /\ pushClient' = e /\ push[e] = "up"
       /\ \A s \in Scopes \ late[e] :
            installed[s] # NoStart /\ run[s][installed[s]].link]_vars
BY ReadyStep

\* Theorem.  No connected transport is ever stranded, over any number of
\* disconnects, failures, publishes, lookups and first commands, and whenever a
\* call the host left running gets to them: the ones closeMqttTransports forgets
\* undisconnected are in scopes that were asked for while it awaited.
THEOREM NoneStranded == Spec => []NoStrandedTransport
BY Invariance, NotStranded, PTL

\* Theorem.  "ready" is true: a generation settles so only while push is
\* connected and every scope, but for those, has its transport
\* (startRealtimeGeneration).
THEOREM ReadyTrue == Spec => ReadyIsTrue
BY Invariance, ReadyAction, PTL DEF Spec, ReadyIsTrue
=============================================================================
