-------------------------------- MODULE Links --------------------------------
(***************************************************************************)
(* The parts of the connection and device layers that share no state, each *)
(* on its own instance.  A behaviour is one of one part: `part` says which, *)
(* the part's variables are the slots, and the slots it does not need stay *)
(* Off.  MCLinks adds the device surface, whose tables no proof reaches.     *)
(***************************************************************************)
EXTENDS Integers, Sequences, FiniteSets

CONSTANTS
  Off,          \* nobody, nothing: what is absent in a part
  Callers,      \* concurrent calls
  MaxSessions,  \* bound: sessions of one station
  StationChannels, Own, MaxSources,
  Space, Lookback, Depth, Parts, Repeats, PlainRestart, MaxDatagrams,
  MaxSockets, MaxLoginFailures, MaxIds,
  MaxLogins, MaxBinds,
  Params, ParamValues, Fetchers, Poll, MaxChanges,
  MaxSends,
  MaxMessages,
  MaxDoorMoves, MaxStarts,
  Commands, Locks, KeyTime(_, _), MaxNonce, MaxSeconds, MaxOwnerMoves, Instances, MaxAir,
  PieceKinds, Maps, Nameless, MaxRevision, MaxFrames

ASSUME BoundsAssumption ==
  /\ MaxSessions \in Nat \ {0} /\ MaxSources \in Nat /\ MaxSends \in Nat
  /\ MaxSockets \in Nat /\ MaxIds \in Nat
  /\ MaxLogins \in Nat /\ MaxBinds \in Nat /\ MaxChanges \in Nat

ASSUME PollAssumption == Poll \in Fetchers

\* SEQUENCE_LOOKBACK is half of the numbers, a repeat is never further back than
\* STALE_RETRANSMIT_DEPTH, which is well below it.
ASSUME DatagramAssumption ==
  /\ {Lookback, Depth, Repeats, Parts, MaxDatagrams} \subseteq Nat /\ Parts > 0
  /\ Space = 2 * Lookback /\ Depth < Lookback /\ Repeats <= Depth

\* A station has the channel of its own camera, attached cameras or none.
ASSUME OwnAssumption == Own \in StationChannels

\* Off is no call, no number, no record of the cloud list, no pass of the poll.
ASSUME OffAssumption ==
  /\ Off \notin Callers
  /\ Off \notin Nat
  /\ Off \notin [Params -> ParamValues]
  /\ Off \notin [rec : [Params -> ParamValues] \cup {Off}, whole : BOOLEAN]

\* There is a lock.  The nonce takes a key time no further from its second than
\* it is wide.
ASSUME LockAssumption ==
  /\ Locks # {}
  /\ {MaxNonce, MaxSeconds, MaxOwnerMoves, Instances} \subseteq Nat
  /\ \A t \in 0 .. MaxSeconds, n \in 0 .. MaxNonce : KeyTime(t, n) \in 0 .. t + n

\* Off is no map id and no piece of a map.
ASSUME MapAssumption ==
  /\ MaxRevision \in Nat /\ MaxFrames \in Nat
  /\ Off \notin Maps
  /\ Off \notin [kind : PieceKinds, map : Maps \cup {Off}, rev : 0 .. MaxRevision]

VARIABLES part, s1, s2, s3, s4, s5, s6, s7, s8, s9, s10, s11

slots == <<s1, s2, s3, s4, s5, s6, s7, s8, s9, s10, s11>>

\* The pulls on one station, the recoveries included, with the lemmas about them.
SP == INSTANCE StationPullProofs WITH
  Channels <- StationChannels, Nobody <- Off,
  attached <- s1, cur <- s2, ent <- s3, issued <- s4, silent <- s5,
  src <- s6, made <- s7, cache <- s8, claim <- s9, call <- s10

\* The reassembly of one data type.
DS == INSTANCE DatagramSequencing WITH
  MaxSent <- MaxDatagrams,
  sent <- s1, base <- s2, arrived <- s3, lastSeq <- s4, pending <- s5, handled <- s6

PU == INSTANCE PushClient WITH
  socket <- s1, opened <- s2, loggedIn <- s3, heartbeat <- s4, reconnectTimer <- s5, closing <- s6,
  delay <- s7, failures <- s8, ids <- s9, errors <- s10

TL == INSTANCE TuyaLogin WITH
  Calls <- Callers,
  bound <- s1, login <- s2, begun <- s3, loginOnce <- s4, client <- s5, call <- s6

DG == INSTANCE DeviceRegistry WITH
  Absent <- Off, MaxMoves <- MaxChanges,
  cloud <- s1, moves <- s2, devices <- s3, fetch <- s4, snapshot <- s5, reports <- s6, caps <- s7,
  mirror <- s8, gap <- s9

CC == INSTANCE ControlCommands WITH
  Calls <- Callers, Sends <- MaxSends,
  sess <- s1, cur <- s2, call <- s3, ear <- s4, got <- s5, out <- s6

AV == INSTANCE Availability WITH
  Missing <- Off, MaxSent <- MaxMessages,
  timed <- s1, counted <- s2, sent <- s3, heard <- s4, kept <- s5, told <- s6

EF == INSTANCE EventFanout WITH
  Unknown <- Off, MaxMoves <- MaxDoorMoves,
  door <- s1, moves <- s2, starts <- s3, frames <- s4, pushes <- s5, poll <- s6, base <- s7, channels <- s8,
  noted <- s9, told <- s10, latest <- s11

\* A command of a lock, or of a light or a vacuum, over a broker.
MQ == INSTANCE MqttCommands WITH
  Calls <- Commands, MaxTime <- MaxSeconds, MaxMoves <- MaxOwnerMoves,
  over <- s1, now <- s2, lock <- s3, moves <- s4, since <- s5, call <- s6, conn <- s7, air <- s8, acked <- s9

VS == INSTANCE VacuumMapStore WITH
  Kinds <- PieceKinds, Absent <- Off,
  robot <- s1, sent <- s2, count <- s3, store <- s4, top <- s5

-----------------------------------------------------------------------------
Off11 == s11 = Off
Off10 == s10 = Off /\ Off11
Off7  == s7 = Off /\ s8 = Off /\ s9 = Off /\ Off10
Off6  == s6 = Off /\ Off7

LinksInit ==
  \/ part = "station" /\ SP!Init /\ Off11
  \/ part = "datagrams" /\ DS!Init /\ Off7
  \/ part = "push" /\ PU!Init /\ Off11
  \/ part = "tuya" /\ TL!Init /\ Off7
  \/ part = "registry" /\ DG!Init /\ Off10
  \/ part = "control" /\ CC!Init /\ Off7
  \/ part = "availability" /\ AV!Init /\ Off7
  \/ part = "events" /\ EF!Init
  \/ part = "mqtt" /\ MQ!Init /\ Off10
  \/ part = "map" /\ VS!Init /\ Off6

Only(name) == part = name /\ part' = part

LinksNext ==
  \/ Only("station") /\ SP!Next /\ UNCHANGED s11
  \/ Only("datagrams") /\ DS!Next /\ UNCHANGED <<s7, s8, s9, s10, s11>>
  \/ Only("push") /\ PU!Next /\ UNCHANGED s11
  \/ Only("tuya") /\ TL!Next /\ UNCHANGED <<s7, s8, s9, s10, s11>>
  \/ Only("registry") /\ DG!Next /\ UNCHANGED <<s10, s11>>
  \/ Only("control") /\ CC!Next /\ UNCHANGED <<s7, s8, s9, s10, s11>>
  \/ Only("availability") /\ AV!Next /\ UNCHANGED <<s7, s8, s9, s10, s11>>
  \/ Only("events") /\ EF!Next
  \/ Only("mqtt") /\ MQ!Next /\ UNCHANGED <<s10, s11>>
  \/ Only("map") /\ VS!Next /\ UNCHANGED <<s6, s7, s8, s9, s10, s11>>

LinksSpec == LinksInit /\ [][LinksNext]_<<part, slots>>

-----------------------------------------------------------------------------
(* The properties, each of its own part, with the type of its state.       *)

\* One camera of a HomeBase is served at a time (releaseLingeringSiblings,
\* occupiedSiblingChannel).
OneCameraServed == part = "station" => SP!OneCameraServed

\* No open pull and no running talkback escapes the map that joins the next
\* caller to it and closes it (liveSources, talkbacks).
PullsAreReachable == part = "station" => SP!TypeOK /\ SP!NoOrphanPull /\ SP!TalkbackIsReachable

\* Frames are handed on whole, in their order, and once (P2PSession.onData).
FramesIntact == part = "datagrams" => DS!TypeOK /\ DS!FramesAreWhole /\ DS!FramesOnce

\* close() is final, and until then a client that was opened has a socket or the
\* timer of the next one (PushClient.close, onClose, scheduleReconnect).
PushUpOrClosed == part = "push" => PU!TypeOK /\ PU!ClosedStaysClosed /\ PU!AlwaysComingBack

\* Calls of one binding share one login, which tries at most two passwords
\* and is forgotten when it failed (ensureLoggedIn).
LoginIsShared ==
  part = "tuya" => TL!TypeOK /\ TL!OneLoginPerBind /\ TL!TwoPasswords /\ TL!FailureIsForgotten

\* What is derived from the device list follows it: the capability caches and
\* a host that applies the poll's differences (getDevices, pollChanges).
DerivedFollows == part = "registry" => DG!TypeOK /\ DG!CapsAreCurrent /\ DG!MirrorFollows

\* A command never reports a success nothing was sent for, and leaves no
\* listener on the session (replayLevel2Send, p2pQuery).
CommandsAreHonest == part = "control" => CC!TypeOK /\ CC!NoFalseSuccess /\ CC!NoListenerLeak

\* The newest availability is the one kept and told (applyAvailabilityObservation).
NewestIsKept == part = "availability" => AV!NewestIsKept

\* The host was told last what was reported last, whatever was suppressed
\* (noteState, emitSemantic).
ToldIsLatest == part = "events" => EF!ToldIsLatest

\* An auto-lock write preserves what the lock lately had; an acknowledged
\* command is out whole; its connection is closed (MqttCommandRouter).
LockTruth ==
  part = "mqtt" => MQ!TypeOK /\ MQ!ReadIsRecent /\ MQ!AckedIsWhole /\ MQ!NoOrphanConnection

\* The pieces held belong to one map, each at the newest revision received
\* (VacuumMapStore).
MapIsCoherent == part = "map" => VS!TypeOK /\ VS!OneMap /\ VS!NewestHeld
=============================================================================
