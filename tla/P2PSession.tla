----------------------------- MODULE P2PSession ------------------------------
(***************************************************************************)
(* One PPCS session (src/src/transport/p2p/p2p-session.ts): the lookup and *)
(* hole-punch handshake, the one-shot level-2 key negotiation with its     *)
(* waiters and its single second ask, the own-session live starts that are *)
(* repeated until the device acknowledges one, and the outbound audio that *)
(* is repeated once.                                                       *)
(*                                                                         *)
(* UDP loses, delays, repeats and reorders: the live starts and the        *)
(* acknowledgements on the wire are sets that a receipt leaves as they     *)
(* are.  A session object is connected once (the router makes a new one    *)
(* for every open), so connect() is one action.                            *)
(***************************************************************************)
EXTENDS Integers, FiniteSets, Functions

CONSTANTS
  Channels,     \* camera channels
  Callers,      \* calls that may wait for the level-2 key
  MaxStarts,    \* bound: live starts sent in a behaviour
  StartSends,   \* sends a start gets before its deadline (3000 ms / 150 ms)
  MaxAudio,     \* bound: audio frames sent in a behaviour
  AudioMaxSends \* AUDIO_MAX_SENDS

VARIABLES
  config,      \* [resolver, attached]: resolveCipherKey given; cameras behind a base
  phase,       \* new, binding, looking, connected, closed
  address,     \* connectAddress is set; it survives a close
  key,         \* a level-2 key is held
  level2,      \* [pending, negotiating, reprompted]
  resolving,   \* resolveCipherKey is awaited
  waiters,     \* level2Waiters: the callers parked in awaitLevel2Key
  seq,         \* live starts sent so far, the next one's number
  started,     \* liveStartedChannels: [Channels -> {"no", "l1", "l2"}]
  unacked,     \* unackedLiveStarts: number -> [channel, sends]
  startTimer,  \* liveStartRetransmitTimer
  wire,        \* starts that reached the network: [seq, channel]
  heard,       \* the starts the device took, each of them acknowledged
  audio,       \* unackedAudio: frame number -> sends
  audioSeq,    \* audio frames sent so far
  audioTimer,  \* audioRetransmitTimer
  audioStalled

negotiation == <<key, level2, resolving, waiters>>
starts      == <<seq, started, unacked, startTimer>>
network     == <<wire, heard>>
sound       == <<audio, audioSeq, audioTimer, audioStalled>>
session     == <<config, phase, address, negotiation, starts, network, sound>>

Seqs == 0 .. MaxStarts - 1

SessionInit ==
  /\ config \in [resolver : BOOLEAN, attached : BOOLEAN]
  /\ phase = "new" /\ address = FALSE
  /\ key = FALSE /\ resolving = FALSE /\ waiters = {}
  /\ level2 = [pending |-> config.resolver, negotiating |-> FALSE, reprompted |-> FALSE]
  /\ seq = 0 /\ started = [c \in Channels |-> "no"] /\ unacked = << >> /\ startTimer = FALSE
  /\ wire = {} /\ heard = {}
  /\ audio = << >> /\ audioSeq = 0 /\ audioTimer = FALSE /\ audioStalled = FALSE

-----------------------------------------------------------------------------
(* Connecting.  The callback of a socket's close comes before any timer or *)
(* datagram of a later turn, so close() is one step; it leaves no socket,  *)
(* and a send without one goes nowhere.                                    *)

Open  == phase # "closed"
Sends == phase = "connected"

Connect ==
  /\ phase = "new"
  /\ phase' = "binding"
  /\ UNCHANGED <<config, address, negotiation, starts, network, sound>>

\* The bind callback: lookups start, the lookup and connect timers are armed.
Bound ==
  /\ phase = "binding"
  /\ phase' = "looking"
  /\ UNCHANGED <<config, address, negotiation, starts, network, sound>>

\* A lookup answer only punches holes; CAM_ID is the answer that connects.
\* It prompts for CMD_GATEWAYINFO and starts the heartbeat.
OnConnected ==
  /\ phase = "looking"
  /\ phase' = "connected" /\ address' = TRUE
  /\ UNCHANGED <<config, negotiation, starts, network, sound>>

\* settleLevel2: no wait outlives the negotiation.
MutSettleLevel2 ==
  /\ level2' = [level2 EXCEPT !.pending = FALSE]
  /\ waiters' = waiters

SettleLevel2 ==
  /\ level2' = [level2 EXCEPT !.pending = FALSE]
  /\ waiters' = {}

\* The host's close(), or the connect timeout's.  liveStartedChannels and
\* the address are left as they are.
Close ==
  /\ Open /\ phase # "new"
  /\ phase' = "closed"
  /\ key' = FALSE /\ SettleLevel2
  /\ audio' = << >> /\ audioTimer' = FALSE /\ audioStalled' = FALSE
  /\ unacked' = << >> /\ startTimer' = FALSE
  /\ UNCHANGED <<config, address, resolving, seq, started, network, audioSeq>>

-----------------------------------------------------------------------------
(* The level-2 key.                                                        *)

\* awaitLevel2Key parks only while waiting can change the answer; every
\* other call answers at once, a session grace that has elapsed included.
AwaitLevel2Key(c) ==
  /\ c \notin waiters
  /\ Open /\ phase # "new" /\ ~key /\ level2.pending
  /\ waiters' = waiters \cup {c}
  /\ UNCHANGED <<config, phase, address, key, level2, resolving, starts, network, sound>>

WaitTimesOut(c) ==
  /\ c \in waiters
  /\ waiters' = waiters \ {c}
  /\ UNCHANGED <<config, phase, address, key, level2, resolving, starts, network, sound>>

\* A caller that got no key, and needs one, asks once more.
RepromptLevel2Key ==
  /\ Open /\ ~key /\ ~level2.reprompted
  /\ config.resolver /\ address
  /\ level2' = [level2 EXCEPT !.reprompted = TRUE, !.pending = TRUE]
  /\ UNCHANGED <<config, phase, address, key, resolving, waiters, starts, network, sound>>

\* handleFrame on the station's CMD_GATEWAYINFO, late or repeated.
GatewayInfo ==
  /\ Sends /\ config.resolver /\ ~key /\ ~level2.negotiating
  /\ level2' = [level2 EXCEPT !.negotiating = TRUE]
  /\ resolving' = TRUE
  /\ UNCHANGED <<config, phase, address, key, waiters, starts, network, sound>>

\* After the await in negotiateLevel2Key: is this still the connection?
MutThisConnection == TRUE
ThisConnection == Open

\* resolveCipherKey answers: with a key, or without one (no ECC key, a
\* derivation that fails, a throw).  Either way the wait is settled.
KeyResolves(found) ==
  /\ resolving
  /\ resolving' = FALSE
  /\ \/ ThisConnection /\ key' = found /\ SettleLevel2
     \/ ~ThisConnection /\ UNCHANGED <<key, level2, waiters>>
  /\ UNCHANGED <<config, phase, address, starts, network, sound>>

-----------------------------------------------------------------------------
(* Live starts of a camera that is its own station.                        *)

Awaiting(c) == \E s \in DOMAIN unacked : unacked[s].channel = c
Want        == IF key THEN "l2" ELSE "l1"
Keep(S)     == Restrict(unacked, DOMAIN unacked \ S)
StartsOf(c) == {s \in DOMAIN unacked : unacked[s].channel = c}

\* sendStartLiveOwnSession: the new start replaces the channel's pending one
\* and is retained before it is sent.
SendStartLiveOwnSession(c) ==
  /\ seq < MaxStarts
  /\ unacked' = [s \in (DOMAIN unacked \ StartsOf(c)) \cup {seq} |->
                   IF s = seq THEN [channel |-> c, sends |-> 1] ELSE unacked[s]]
  /\ seq' = seq + 1
  /\ startTimer' = TRUE
  /\ wire' = IF Sends THEN wire \cup {[seq |-> seq, channel |-> c]} ELSE wire

\* startLiveMedia: the first start, the keepalive and the forced retry.
StartLiveMedia(c, force) ==
  /\ address
  /\ \/ /\ config.attached \/ (force /\ Awaiting(c)) \/ (~force /\ started[c] = Want)
        /\ UNCHANGED <<starts, wire>>
     \/ /\ ~config.attached
        /\ IF force THEN ~Awaiting(c) ELSE started[c] # Want
        /\ SendStartLiveOwnSession(c)
        /\ started' = [started EXCEPT ![c] = Want]
  /\ UNCHANGED <<config, phase, address, negotiation, heard, sound>>

MutTimerNeeded(retained) == FALSE
TimerNeeded(retained)    == retained # << >>

\* stopLiveMedia clears the timer only when no other channel needs it.
StopLiveMedia(c) ==
  /\ started' = [started EXCEPT ![c] = "no"]
  /\ unacked' = Keep(StartsOf(c))
  /\ startTimer' = (startTimer /\ TimerNeeded(unacked'))
  /\ UNCHANGED <<config, phase, address, negotiation, seq, network, sound>>

DeviceHears(w) ==
  /\ w \in wire \ heard
  /\ heard' = heard \cup {w}
  /\ UNCHANGED <<config, phase, address, negotiation, starts, wire, sound>>

\* onAck, DATA channel.  Only a connected socket receives.
OnAck(w) ==
  /\ w \in heard /\ Sends /\ w.seq \in DOMAIN unacked
  /\ unacked' = Keep({w.seq})
  /\ startTimer' = (startTimer /\ TimerNeeded(unacked'))
  /\ UNCHANGED <<config, phase, address, negotiation, seq, started, network, sound>>

\* One sweep: what is due is sent again, what is spent is abandoned, and the
\* channel of an abandoned start no longer counts as started.
MutForget(dead) == started
Forget(dead) == [c \in Channels |->
                  IF dead \cap StartsOf(c) # {} THEN "no" ELSE started[c]]

MutSpent(s) == FALSE   \* the deadline measured from the last send
Spent(s)    == unacked[s].sends >= StartSends

SweepStarts(due) ==
  LET dead  == {s \in due : Spent(s)}
      again == due \ dead
  IN /\ startTimer /\ due \subseteq DOMAIN unacked
     /\ unacked' = [s \in DOMAIN unacked \ dead |->
                      IF s \in again THEN [unacked[s] EXCEPT !.sends = IF @ < StartSends THEN @ + 1 ELSE @]
                      ELSE unacked[s]]
     /\ started' = Forget(dead)
     /\ startTimer' = TimerNeeded(unacked')
     /\ wire' = IF Sends THEN wire \cup {[seq |-> s, channel |-> unacked[s].channel] : s \in again}
                ELSE wire
     /\ UNCHANGED <<config, phase, address, negotiation, seq, heard, sound>>

-----------------------------------------------------------------------------
(* Outbound audio: one channel, ordered, every frame sent at most twice.   *)

SendAudioFrame ==
  /\ address /\ audioSeq < MaxAudio
  /\ audio' = [n \in DOMAIN audio \cup {audioSeq} |-> IF n = audioSeq THEN 1 ELSE audio[n]]
  /\ audioSeq' = audioSeq + 1
  /\ audioTimer' = TRUE
  /\ UNCHANGED <<config, phase, address, negotiation, starts, network, audioStalled>>

\* A frame the device never took is a gap; a stall is one event.
SweepAudio(due) ==
  LET dead == {n \in due : audio[n] >= AudioMaxSends}
  IN /\ audioTimer /\ due \subseteq DOMAIN audio
     /\ audio' = [n \in DOMAIN audio \ dead |-> IF n \in due THEN audio[n] + 1 ELSE audio[n]]
     /\ audioTimer' = (audio' # << >>)
     /\ audioStalled' = (audioStalled \/ dead # {})
     /\ UNCHANGED <<config, phase, address, negotiation, starts, network, audioSeq>>

\* onAck, video channel: the ticker is left to stop by itself.
OnAudioAck(n) ==
  /\ Sends /\ n < audioSeq
  /\ audio' = Restrict(audio, DOMAIN audio \ {n})
  /\ audioStalled' = FALSE
  /\ UNCHANGED <<config, phase, address, negotiation, starts, network, audioSeq, audioTimer>>

-----------------------------------------------------------------------------
\* What the session does of itself, and what the device and the callers of
\* the key ask of it; the live streams above it drive the starts.
SessionStep ==
  \/ Connect \/ Bound \/ OnConnected \/ Close
  \/ \E c \in Callers : AwaitLevel2Key(c) \/ WaitTimesOut(c)
  \/ RepromptLevel2Key \/ GatewayInfo
  \/ \E found \in BOOLEAN : KeyResolves(found)
  \/ \E w \in wire : DeviceHears(w) \/ OnAck(w)
  \/ \E due \in SUBSET DOMAIN unacked : SweepStarts(due)
  \/ SendAudioFrame
  \/ \E due \in SUBSET DOMAIN audio : SweepAudio(due)
  \/ \E n \in 0 .. audioSeq - 1 : OnAudioAck(n)

-----------------------------------------------------------------------------
\* The type of the session's state.
SessionTypeOK ==
  /\ config \in [resolver : BOOLEAN, attached : BOOLEAN]
  /\ phase \in {"new", "binding", "looking", "connected", "closed"}
  /\ address \in BOOLEAN /\ key \in BOOLEAN /\ resolving \in BOOLEAN
  /\ level2 \in [pending : BOOLEAN, negotiating : BOOLEAN, reprompted : BOOLEAN]
  /\ waiters \subseteq Callers
  /\ seq \in 0 .. MaxStarts /\ started \in [Channels -> {"no", "l1", "l2"}]
  /\ DOMAIN unacked \subseteq Seqs
  /\ \A s \in DOMAIN unacked : unacked[s] \in [channel : Channels, sends : 1 .. StartSends]
  /\ wire \subseteq [seq : Seqs, channel : Channels] /\ heard \subseteq wire
  /\ DOMAIN audio \subseteq 0 .. MaxAudio - 1
  /\ \A n \in DOMAIN audio : audio[n] \in 1 .. AudioMaxSends
  /\ audioSeq \in 0 .. MaxAudio
  /\ startTimer \in BOOLEAN /\ audioTimer \in BOOLEAN /\ audioStalled \in BOOLEAN

\* No call stays parked for a key once the negotiation has settled or the
\* session is closed: awaitLevel2Key wakes every waiter in the same step.
NoWaiterForgotten ==
  waiters # {} => level2.pending /\ ~key /\ Open

\* A key resolved across an await is only ever the key of a connection that
\* is still up: one that arrives after close() is thrown away.
KeyIsOfThisConnection == key => phase = "connected"

\* Everything retained for a repeat has a ticker that repeats or abandons it,
\* whichever channel was stopped or acknowledged in between.
RetainedIsSwept ==
  /\ unacked # << >> => startTimer
  /\ audio # << >> => audioTimer

\* A channel that counts as started, so that keepalives only nudge it, is one
\* whose start is still being repeated or has reached the device.
StartedIsHeard ==
  phase = "connected" =>
    \A c \in Channels : started[c] # "no" =>
      Awaiting(c) \/ \E w \in heard : w.channel = c
=============================================================================
