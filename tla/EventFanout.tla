----------------------------- MODULE EventFanout -----------------------------
(***************************************************************************)
(* One state told over three transports (emitSemantic, noteState,          *)
(* onP2PFrame, the push handler and pollOnce of src/client/eufy-mega.ts,   *)
(* with the events of capabilities/contact.ts).  A door moves: its station *)
(* volunteers a frame, the cloud sends a push and changes the record the   *)
(* next poll reads.  Each of them announces contactState; a frame or a     *)
(* push that repeats what was announced last is not announced again, a     *)
(* poll always is.  The memory of that goes when the host disconnects.     *)
(***************************************************************************)
EXTENDS Integers, Sequences

CONSTANTS
  Unknown,    \* no value: nothing announced, nothing reported, no baseline
  MaxMoves,   \* bound: how often the door moves
  MaxStarts   \* bound: how often the host logs in again

VARIABLES
  door,       \* 1 open, 0 closed; the cloud record has the same
  moves,      \* movements so far
  starts,     \* logins after the first
  frames,     \* what the station volunteered over the session, in order
  pushes,     \* pushes on their way, in order
  poll,       \* the poll: [pc, value]
  base,       \* the value the last poll saw
  channels,   \* which channels are open: all, or fewer while disconnect() closes them
  noted,      \* lastStateAnnounced of this device
  told,       \* what the host was told last, since it last called disconnect()
  latest      \* what the last report since then said

vars == <<door, moves, starts, frames, pushes, poll, base, channels, noted, told, latest>>

Channels == {"mqtt", "p2p", "push"}
NoPoll == [pc |-> "none", value |-> Unknown]

Init ==
  /\ door \in {0, 1} /\ moves = 0 /\ starts = 0
  /\ frames = <<>> /\ pushes = <<>>
  /\ poll = NoPoll /\ base = Unknown
  /\ channels = Channels
  /\ noted = Unknown /\ told = Unknown /\ latest = Unknown

-----------------------------------------------------------------------------
\* The door moves: the station's frame may be lost, and the push may come
\* without the value.
DoorMoves ==
  /\ moves < MaxMoves /\ moves' = moves + 1
  /\ door' = 1 - door
  /\ \/ "p2p" \in channels /\ frames' = Append(frames, door')
     \/ UNCHANGED frames
  /\ \E v \in {door', Unknown} : pushes' = Append(pushes, v)
  /\ UNCHANGED <<starts, poll, base, channels, noted, told, latest>>

-----------------------------------------------------------------------------
(* emitSemantic with noteState: the value is noted whoever brings it.      *)

MutNoted(v, edge) == IF edge THEN v ELSE noted
Noted(v, edge)    == v

Announce(v, edge) ==
  /\ told' = IF edge /\ noted = v THEN told ELSE v
  /\ noted' = Noted(v, edge)
  /\ latest' = v

FrameArrives ==
  /\ "p2p" \in channels /\ frames # <<>>
  /\ frames' = Tail(frames)
  /\ Announce(Head(frames), TRUE)
  /\ UNCHANGED <<door, moves, starts, pushes, poll, base, channels>>

\* A push without the value says nothing about the state: it is passed on as
\* it is, and neither repeats nor replaces what was noted.
PushArrives ==
  /\ "push" \in channels /\ pushes # <<>>
  /\ pushes' = Tail(pushes)
  /\ IF Head(pushes) = Unknown THEN UNCHANGED <<noted, told, latest>>
     ELSE Announce(Head(pushes), TRUE)
  /\ UNCHANGED <<door, moves, starts, frames, poll, base, channels>>

\* The poll asks, is answered with the record as it is then, and goes through
\* the differences later; a disconnect meanwhile does not stop it.
PollAsks ==
  /\ poll.pc = "none" /\ channels = Channels
  /\ poll' = [poll EXCEPT !.pc = "asked"]
  /\ UNCHANGED <<door, moves, starts, frames, pushes, base, channels, noted, told, latest>>

PollAnswered ==
  /\ poll.pc = "asked"
  /\ poll' = [pc |-> "answered", value |-> door]
  /\ UNCHANGED <<door, moves, starts, frames, pushes, base, channels, noted, told, latest>>

PollGoesThrough ==
  /\ poll.pc = "answered"
  /\ poll' = NoPoll /\ base' = poll.value
  /\ IF base \in {Unknown, poll.value} THEN UNCHANGED <<noted, told, latest>>
     ELSE Announce(poll.value, FALSE)
  /\ UNCHANGED <<door, moves, starts, frames, pushes, channels>>

-----------------------------------------------------------------------------
(* disconnect(): the memory goes first, then the channels close one after  *)
(* another: what a session or the push socket still delivers meanwhile is  *)
(* announced and noted, and the note outlives them.  The host starts over. *)

MutForgotten == noted
Forgotten    == Unknown

Disconnect ==
  /\ channels = Channels /\ starts < MaxStarts
  /\ noted' = Forgotten
  /\ told' = Unknown /\ latest' = Unknown
  /\ channels' = {"p2p", "push"}
  /\ UNCHANGED <<door, moves, starts, frames, pushes, poll, base>>

P2PCloses ==
  /\ channels = {"p2p", "push"}
  /\ channels' = {"push"} /\ frames' = <<>>
  /\ UNCHANGED <<door, moves, starts, pushes, poll, base, noted, told, latest>>

PushCloses ==
  /\ channels = {"push"}
  /\ channels' = {}
  /\ UNCHANGED <<door, moves, starts, frames, pushes, poll, base, noted, told, latest>>

LogsInAgain ==
  /\ channels = {}
  /\ channels' = Channels /\ starts' = starts + 1
  /\ UNCHANGED <<door, moves, frames, pushes, poll, base, noted, told, latest>>

Next ==
  \/ DoorMoves \/ FrameArrives \/ PushArrives
  \/ PollAsks \/ PollAnswered \/ PollGoesThrough
  \/ Disconnect \/ P2PCloses \/ PushCloses \/ LogsInAgain

-----------------------------------------------------------------------------
\* What the host was told last is what the last report said, whichever of the
\* transports brought it: a report is held back only when it repeats the
\* latest announcement, also after a poll that announced an older state and
\* after a disconnect (noteState: "a genuine open->close->open burst ...
\* passes intact").
ToldIsLatest == latest # Unknown => told = latest
=============================================================================
