-------------------------- MODULE ControlCommands ---------------------------
(***************************************************************************)
(* The control commands and queries of the P2P router                      *)
(* (src/src/transport/p2p/command-router.ts, dispatchCommand and the       *)
(* senders below it): which session a call resolves, at which encryption   *)
(* level it sends, how often a frame is repeated, and the listener a query *)
(* keeps on the session until it is answered.                              *)
(*                                                                         *)
(* A session may close, and be replaced, between any two frames of a call: *)
(* the call keeps the session object it resolved.  A closed session has no *)
(* level-2 key, so a level-2 send on it reports FALSE; a level-1 send has  *)
(* no result at all.                                                       *)
(***************************************************************************)
EXTENDS Integers, FiniteSets

CONSTANTS
  Calls,        \* concurrent calls
  Sends,        \* DIRECT_CMD_SENDS
  MaxSessions   \* bound: sessions opened to the station in a behaviour

\* What a call was asked to do.
\*   replayed : the level-2 kinds of replayLevel2Send: set-json-raw, set-payload,
\*              p2p-station-scalar, ff09-actuate, ff09-setting-toggle,
\*              set-param "direct-binary", rebootStation
\*   scalar   : set-param "auto"              json    : set-json
\*   payload  : set-payload "auto"            pinned  : set-param "int-string"
\*   intstring: p2p-int-string, sent once
\*   burst    : p2p-privacy-burst             query   : p2pQuery
\*   control  : p2pControlQuery               rtsp    : readReportedRtspUrl
\*   autolock : ff09-autolock                 state   : getAutoLockState
\*   foreign  : aiot-dp and the mqtt-dp kinds, which this router refuses
Kinds   == {"replayed", "scalar", "json", "payload", "pinned", "intstring", "burst", "query",
            "control", "rtsp", "autolock", "state", "foreign"}
Settled == {"idle", "returned", "threw"}

VARIABLES
  sess,    \* [1 .. MaxSessions -> {"none", "open", "keyed", "closed"}]
  cur,     \* the session the manager holds
  call,    \* [Calls -> [pc, kind, on, level, left, sent, step]]
  ear,     \* [Calls -> the session its listener is on, 0 for none]
  got,     \* [Calls -> BOOLEAN]: the reply was heard
  out      \* history: [Calls -> BOOLEAN]: a frame of its present batch left the socket

vars == <<sess, cur, call, ear, got, out>>

Sessions == 1 .. MaxSessions
NoCall   == [pc |-> "idle", kind |-> "foreign", on |-> 0, level |-> 0, left |-> 0,
             sent |-> FALSE, step |-> 0]

Init ==
  /\ sess = [s \in Sessions |-> IF s = 1 THEN "open" ELSE "none"] /\ cur = 1
  /\ call = [c \in Calls |-> NoCall] /\ ear = [c \in Calls |-> 0]
  /\ got = [c \in Calls |-> FALSE] /\ out = [c \in Calls |-> FALSE]

-----------------------------------------------------------------------------
(* The station's session, as the calls meet it.                            *)

KeyArrives ==
  /\ sess[cur] = "open"
  /\ sess' = [sess EXCEPT ![cur] = "keyed"]
  /\ UNCHANGED <<cur, call, ear, got, out>>

Closes ==
  /\ sess[cur] \in {"open", "keyed"}
  /\ sess' = [sess EXCEPT ![cur] = "closed"]
  /\ UNCHANGED <<cur, call, ear, got, out>>

\* A resolution that finds the session closed has the manager open another.
Reopens ==
  /\ sess[cur] = "closed" /\ cur < MaxSessions
  /\ \E c \in Calls : call[c].pc = "resolving"
  /\ cur' = cur + 1 /\ sess' = [sess EXCEPT ![cur + 1] = "open"]
  /\ UNCHANGED <<call, ear, got, out>>

-----------------------------------------------------------------------------
(* A call.                                                                 *)

\* dispatchCommand and the public queries.
Dispatch(c, k) ==
  /\ call[c].pc \in Settled
  /\ call' = [call EXCEPT ![c] = [NoCall EXCEPT !.kind = k,
                                    !.pc = IF k = "foreign" THEN "threw" ELSE "resolving"]]
  /\ got' = [got EXCEPT ![c] = FALSE] /\ out' = [out EXCEPT ![c] = FALSE]
  /\ UNCHANGED <<sess, cur, ear>>

\* Whether the resolution under way waits for the key (waitLevel2: true).  The
\* level of a scalar, json, payload or control call is chosen by its resolution, and the level-2 branch
\* of a scalar or a payload resolves once more, for the key.
NeedsKey(c) ==
  \/ call[c].kind \in {"replayed", "burst", "query", "autolock", "state"}
  \/ call[c].kind \in {"scalar", "payload"} /\ call[c].level = 2

Level(c) == IF sess[cur] = "keyed" THEN 2 ELSE 1

\* One frame of the call reaches the socket of the session it holds.
Leaves(s, level) == sess[s] = "keyed" \/ (sess[s] = "open" /\ level = 1)

Batch(c, level, n) ==
  call' = [call EXCEPT ![c].pc = "sending", ![c].on = cur, ![c].level = level, ![c].left = n]

\* A frame sent once and not repeated, in the step that resolved the session.
Once(c, level, pc) ==
  /\ call' = [call EXCEPT ![c].pc = pc, ![c].on = cur, ![c].level = level]
  /\ out' = [out EXCEPT ![c] = TRUE]

Kind(c)  == call[c].kind
Fresh(c) == call[c].level = 0
Arm(c)   == ear' = [ear EXCEPT ![c] = cur]
Quiet    == UNCHANGED <<ear, out>>

\* replayLevel2Send and its users: sendDirectBinary, sendStationScalar, sendJsonRaw,
\* sendSetPayloadEnvelope without a form, sendFf09Actuate, sendFf09SettingToggle, reboot.
Replays(c) ==
  /\ Kind(c) = "replayed" \/ (Kind(c) \in {"scalar", "payload"} /\ call[c].level = 2)
  /\ Batch(c, 2, Sends) /\ Quiet

PrivacyBurst(c) == Kind(c) = "burst" /\ Batch(c, 2, Sends + 2) /\ Quiet

IntStringCommand(c) ==
  /\ Kind(c) = "pinned" \/ (Kind(c) = "scalar" /\ call[c].level = 1)
  /\ Batch(c, 1, Sends) /\ Quiet

IntString(c) == Kind(c) = "intstring" /\ Once(c, 1, "returned") /\ UNCHANGED ear

\* The level is decided, and the sender of that level resolves for itself.
ScalarLevel(c) ==
  /\ Kind(c) = "scalar" /\ Fresh(c)
  /\ call' = [call EXCEPT ![c].level = Level(c)] /\ Quiet

PayloadLevel(c) ==
  /\ Kind(c) = "payload" /\ Fresh(c)
  /\ \/ Level(c) = 2 /\ call' = [call EXCEPT ![c].level = 2] /\ Quiet
     \/ Level(c) = 1 /\ Once(c, 1, "returned") /\ UNCHANGED ear

ControlPayload(c) == Kind(c) = "json" /\ Once(c, Level(c), "returned") /\ UNCHANGED ear

\* A query arms its listener before it sends anything.
SettingsGet(c) ==
  /\ Kind(c) \in {"autolock", "state"}
  /\ Batch(c, 2, Sends) /\ Arm(c) /\ UNCHANGED out

Query(c) == Kind(c) = "query" /\ Once(c, Level(c), "waiting") /\ Arm(c)

RtspRead(c) == Kind(c) = "rtsp" /\ Once(c, Level(c), "waiting") /\ Arm(c)

\* It listens on the session of one resolution and sends on that of a second.
ControlQuery(c) ==
  /\ Kind(c) = "control"
  /\ \/ /\ call[c].step = 0
        /\ call' = [call EXCEPT ![c].step = 1] /\ Arm(c) /\ UNCHANGED out
     \/ call[c].step = 1 /\ Once(c, Level(c), "waiting") /\ UNCHANGED ear

\* resolveSession answers.
Resolved(c) ==
  /\ call[c].pc = "resolving" /\ sess[cur] \in {"open", "keyed"}
  /\ NeedsKey(c) => sess[cur] = "keyed"
  /\ \/ Replays(c) \/ PrivacyBurst(c) \/ IntStringCommand(c) \/ IntString(c)
     \/ ScalarLevel(c) \/ PayloadLevel(c) \/ ControlPayload(c)
     \/ SettingsGet(c) \/ Query(c) \/ RtspRead(c) \/ ControlQuery(c)
  /\ UNCHANGED <<sess, cur, got>>

MutCleanup(c) == UNCHANGED ear
Cleanup(c)    == ear' = [ear EXCEPT ![c] = 0]

\* resolveSession rejects: no route, no account, no key, or the deadline.  The
\* RTSP read answers undefined whatever went wrong.
ResolveFails(c) ==
  /\ call[c].pc = "resolving"
  /\ call' = [call EXCEPT ![c].pc = IF call[c].kind = "rtsp" THEN "returned" ELSE "threw"]
  /\ Cleanup(c)
  /\ UNCHANGED <<sess, cur, got, out>>

\* One turn of a repeating sender, 200 ms after the last.
SendOne(c) ==
  /\ call[c].pc = "sending" /\ call[c].left > 0
  /\ LET went == Leaves(call[c].on, call[c].level) IN
     /\ call' = [call EXCEPT ![c].left = @ - 1,
                             ![c].sent = @ \/ (went /\ call[c].level = 2)]
     /\ out' = [out EXCEPT ![c] = @ \/ went]
  /\ UNCHANGED <<sess, cur, ear, got>>

\* replayLevel2Send throws when no frame of the batch was accepted; the level-1
\* senders and the burst have nothing to throw about.
MutUnsent(c) == FALSE
Unsent(c)    == call[c].level = 2 /\ call[c].kind # "burst" /\ ~call[c].sent

NeverSent(c) ==
  /\ call[c].pc = "sending" /\ call[c].left = 0 /\ Unsent(c)
  /\ call' = [call EXCEPT ![c].pc = "threw"]
  /\ Cleanup(c)
  /\ UNCHANGED <<sess, cur, got, out>>

Asking(c) == call[c].kind \in {"autolock", "state"} /\ call[c].step = 0

BatchDone(c) ==
  /\ call[c].pc = "sending" /\ call[c].left = 0 /\ ~Unsent(c)
  /\ call' = [call EXCEPT ![c].pc = IF Asking(c) THEN "waiting" ELSE "returned"]
  /\ UNCHANGED <<sess, cur, ear, got, out>>

\* The matching frame reaches the listener.
Hears(c) ==
  /\ ear[c] # 0 /\ sess[ear[c]] \in {"open", "keyed"} /\ out[c]
  /\ got' = [got EXCEPT ![c] = TRUE] /\ Cleanup(c)
  /\ UNCHANGED <<sess, cur, call, out>>

\* The awaiting call continues.  An auto-lock write goes on to send the SET
\* batch on the session it resolved for the GET.
Answered(c) ==
  /\ call[c].pc = "waiting" /\ got[c]
  /\ \/ /\ call[c].kind = "autolock"
        /\ call' = [call EXCEPT ![c].pc = "sending", ![c].left = Sends, ![c].sent = FALSE,
                                ![c].step = 1]
        /\ out' = [out EXCEPT ![c] = FALSE]
     \/ /\ call[c].kind # "autolock"
        /\ call' = [call EXCEPT ![c].pc = "returned"] /\ UNCHANGED out
  /\ UNCHANGED <<sess, cur, ear, got>>

Timeout(c) ==
  /\ call[c].pc = "waiting" /\ ~got[c]
  /\ call' = [call EXCEPT ![c].pc = IF call[c].kind = "rtsp" THEN "returned" ELSE "threw"]
  /\ Cleanup(c)
  /\ UNCHANGED <<sess, cur, got, out>>

Next ==
  \/ KeyArrives \/ Closes \/ Reopens
  \/ \E c \in Calls :
       \/ \E k \in Kinds : Dispatch(c, k)
       \/ Resolved(c) \/ ResolveFails(c) \/ SendOne(c) \/ NeverSent(c) \/ BatchDone(c)
       \/ Hears(c) \/ Answered(c) \/ Timeout(c)

-----------------------------------------------------------------------------
\* The type of the state.
CallState == [pc : Settled \cup {"resolving", "sending", "waiting"}, kind : Kinds,
              on : 0 .. MaxSessions, level : 0 .. 2, left : 0 .. Sends + 2,
              sent : BOOLEAN, step : 0 .. 1]
TypeOK ==
  /\ sess \in [Sessions -> {"none", "open", "keyed", "closed"}] /\ cur \in Sessions
  /\ call \in [Calls -> CallState]
  /\ ear \in [Calls -> 0 .. MaxSessions]
  /\ got \in [Calls -> BOOLEAN] /\ out \in [Calls -> BOOLEAN]

\* A level-2 command that resolves did put a frame on the wire: a session that
\* closed under the whole batch of replayLevel2Send is an error to the caller,
\* the SET of an auto-lock write whose GET had been answered included.
NoFalseSuccess ==
  \A c \in Calls :
    call[c].pc = "returned" /\ call[c].level = 2 /\ call[c].kind # "burst" => out[c]

\* However a query ends (answered, timed out, refused at its second resolution,
\* or its frames never sent), nothing of it stays on the long-lived session.
NoListenerLeak ==
  \A c \in Calls : call[c].pc \in Settled => ear[c] = 0

\* What they rest on: a listener stands only where an answer is still awaited,
\* and a call that has sent, or awaits an answer, has something on the wire.
Listens(c) ==
  \/ call[c].pc = "waiting"
  \/ call[c].pc = "sending" /\ Asking(c)
  \/ call[c].pc = "resolving" /\ call[c].kind = "control" /\ call[c].step = 1
Sound(c) ==
  /\ ear[c] # 0 => ~got[c] /\ Listens(c)
  /\ call[c].pc = "resolving" =>
       /\ ~got[c] /\ ~out[c] /\ ~call[c].sent
       /\ call[c].step = 0 \/ call[c].kind = "control"
       /\ call[c].level = 0 \/ call[c].kind # "rtsp"
  /\ call[c].pc = "sending" /\ call[c].sent => out[c]
  /\ call[c].pc \in {"sending", "waiting"} /\ call[c].kind \in {"autolock", "state"} => call[c].level = 2
  /\ call[c].pc = "waiting" => out[c]
  /\ call[c].pc = "returned" /\ call[c].level = 2 /\ call[c].kind # "burst" => out[c]
=============================================================================
