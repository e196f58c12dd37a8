---------------------------- MODULE MqttCommands -----------------------------
(***************************************************************************)
(* The commands of src/src/transport/mqtt/command-router.ts with           *)
(* SecureMqtt under it: a one-shot broker connection per lock command,     *)
(* publishes of light and vacuum data points over the persistent one, and  *)
(* the read-modify-write of a lock's settings (transport/ff09.ts), which   *)
(* the P2P router shares: GET, wait for the reply with the GET's key time, *)
(* SET what the reply said with the auto-lock fields changed.              *)
(*                                                                         *)
(* `kept` is what a SET copies from the reply: the passthrough fields and, *)
(* when the caller names none, the delay.  The owner changes it in the app *)
(* at any time.  A key time is a second with a nonce or-ed into it, so GETs*)
(* of neighbouring seconds can share one.                                  *)
(***************************************************************************)
EXTENDS Integers, FiniteSets

CONSTANTS
  Locks,      \* locks of one station (P2P) or one account (MQTT)
  Calls,      \* concurrent commands
  MaxNonce,   \* the nonce is drawn from 0 .. MaxNonce (0 .. 99 in the code)
  KeyTime(_, _),  \* the key time of a second and a nonce: the one or-ed into the other
  MaxTime,    \* bound: seconds that pass
  MaxMoves,   \* bound: changes by the owner
  Instances,  \* candidate broker instances, DNS's and the seed list's
  MaxAir      \* bound: messages on the way

Kept    == {0, 1}
Ops     == {"autolock", "state", "actuate", "dp", "preset"}
Settled == {"idle", "returned", "threw"}

VARIABLES
  over,    \* the transport that claims the locks: "p2p" or "mqtt"
  now,     \* seconds
  lock,    \* [Locks -> Kept]
  moves,   \* changes by the owner so far
  since,   \* [Locks -> when the value it has not was last held; -1 for never]
  call,    \* [Calls -> [pc, op, lock, key, got, from, frames, left]]
  conn,    \* [Calls -> {"none", "probe", "open"}]: its one-shot connection
  air,     \* messages on the way: GET, reply and SET records
  acked    \* [Calls -> BOOLEAN]: commandAck said acked

vars == <<over, now, lock, moves, since, call, conn, air, acked>>

NoCall(l) == [pc |-> "idle", op |-> "dp", lock |-> l, key |-> 0, got |-> 0, from |-> l, frames |-> 0,
              left |-> 0]
ALock     == CHOOSE l \in Locks : TRUE

Msg(m, l, k, v) == [m |-> m, lock |-> l, key |-> k, kept |-> v]

Init ==
  /\ over \in {"p2p", "mqtt"} /\ now = 0 /\ moves = 0
  /\ lock = [l \in Locks |-> 0] /\ since = [l \in Locks |-> -1]
  /\ call = [c \in Calls |-> NoCall(ALock)]
  /\ conn = [c \in Calls |-> "none"] /\ air = {} /\ acked = [c \in Calls |-> FALSE]

-----------------------------------------------------------------------------
(* The owner, the clock, the devices, the network.                         *)

Tick ==
  /\ now < MaxTime
  /\ now' = now + 1
  /\ UNCHANGED <<over, lock, moves, since, call, conn, air, acked>>

Becomes(l, v) ==
  /\ lock' = [lock EXCEPT ![l] = v]
  /\ since' = IF v = lock[l] THEN since ELSE [since EXCEPT ![l] = now]

OwnerChanges(l) ==
  /\ moves < MaxMoves /\ moves' = moves + 1
  /\ Becomes(l, 1 - lock[l])
  /\ UNCHANGED <<over, now, call, conn, air, acked>>

\* The lock answers a GET under the GET's key time, or applies a SET.
Arrives(m) ==
  /\ m \in air
  /\ \/ /\ m.m = "get"
        /\ air' = (air \ {m}) \cup {Msg("reply", m.lock, m.key, lock[m.lock])}
        /\ UNCHANGED <<lock, since>>
     \/ /\ m.m = "set" /\ air' = air \ {m}
        /\ Becomes(m.lock, m.kept)
  /\ UNCHANGED <<over, now, moves, call, conn, acked>>

Lost(m) ==
  /\ m \in air /\ air' = air \ {m}
  /\ UNCHANGED <<over, now, lock, moves, since, call, conn, acked>>

-----------------------------------------------------------------------------
(* A command.                                                              *)

Goes(c, pc) == call' = [call EXCEPT ![c].pc = pc]

\* The call settles: of what it knew only what was published still matters.
Ends(c, pc) ==
  call' = [call EXCEPT ![c] = [NoCall(ALock) EXCEPT !.pc = pc, !.op = call[c].op,
                                                      !.frames = call[c].frames]]

\* finally { await mqtt.disconnect() }, on every way out.
MutDisconnected(c) == IF call[c].pc = "subscribing" THEN conn ELSE [conn EXCEPT ![c] = "none"]
Disconnected(c)    == [conn EXCEPT ![c] = "none"]

\* The lock kinds connect (ensureSecurityMqttFor) or, over P2P, hold the
\* station's session already; the data-point kinds publish right away.
Begin(c, op, l) ==
  /\ call[c].pc \in Settled
  /\ op \in {"dp", "preset", "actuate"} => over = "mqtt"
  /\ call' = [call EXCEPT ![c] = [NoCall(l) EXCEPT !.op = op,
       !.left = IF over = "mqtt" /\ op \in {"autolock", "state", "actuate"} THEN Instances ELSE 0,
       !.pc = IF op \in {"dp", "preset"} THEN "publishing"
              ELSE IF over = "mqtt" THEN "probing" ELSE "asking"]]
  /\ acked' = [acked EXCEPT ![c] = FALSE]
  /\ UNCHANGED <<over, now, lock, moves, since, conn, air>>

\* discoverReachableInstance: one candidate after another, each with a
\* subscribe-only connection of its own, until one grants the topic.
Probe(c) ==
  /\ call[c].pc = "probing" /\ conn[c] = "none" /\ call[c].left > 0
  /\ conn' = [conn EXCEPT ![c] = "probe"]
  /\ UNCHANGED <<over, now, lock, moves, since, call, air, acked>>

\* Granted, denied, an error or its timeout: whichever is first ends the probe.
ProbeSettles(c) ==
  /\ conn[c] = "probe"
  /\ conn' = [conn EXCEPT ![c] = "none"]
  /\ \/ call' = [call EXCEPT ![c].pc = "connecting", ![c].left = 0]
     \/ call' = [call EXCEPT ![c].left = @ - 1]
  /\ UNCHANGED <<over, now, lock, moves, since, air, acked>>

\* No credentials, or no instance that grants the topic.
NoInstance(c) ==
  /\ call[c].pc = "probing" /\ conn[c] = "none" /\ call[c].left \in {0, Instances}
  /\ Ends(c, "threw")
  /\ UNCHANGED <<over, now, lock, moves, since, conn, air, acked>>

\* connect() rejects: the client it made is ended before the rejection.
ConnectFails(c) ==
  /\ call[c].pc = "connecting"
  /\ Ends(c, "threw")
  /\ UNCHANGED <<over, now, lock, moves, since, conn, air, acked>>

Connects(c) ==
  /\ call[c].pc = "connecting"
  /\ conn' = [conn EXCEPT ![c] = "open"] /\ Goes(c, "subscribing")
  /\ UNCHANGED <<over, now, lock, moves, since, air, acked>>

Subscribed(c) ==
  /\ call[c].pc = "subscribing"
  /\ Goes(c, IF call[c].op = "actuate" THEN "setting" ELSE "asking")
  /\ UNCHANGED <<over, now, lock, moves, since, conn, air, acked>>

\* Every topic denied, a publish that rejects, a reply that does not come, a
\* reply that does not decrypt: the call throws, and disconnects.
Throws(c) ==
  /\ call[c].pc \in {"subscribing", "asking", "asked", "setting"}
  /\ Ends(c, "threw") /\ conn' = Disconnected(c)
  /\ UNCHANGED <<over, now, lock, moves, since, air, acked>>

\* fetchFf09SettingsGetReply: the listener is armed, the query published.
Ask(c) ==
  /\ call[c].pc = "asking" /\ Cardinality(air) < MaxAir
  /\ \E nonce \in 0 .. MaxNonce :
       /\ call' = [call EXCEPT ![c].pc = "asked", ![c].key = KeyTime(now, nonce)]
       /\ air' = air \cup {Msg("get", call[c].lock, KeyTime(now, nonce), 0)}
  /\ UNCHANGED <<over, now, lock, moves, since, conn, acked>>

MutMatches(c, m) == TRUE
Matches(c, m)    == m.key = call[c].key

\* Who takes a reply for its own: over P2P every call waiting on the station's
\* session, over MQTT those subscribed to the lock's own topic.
Hears(c, m) ==
  /\ call[c].pc = "asked" /\ Matches(c, m)
  /\ over = "p2p" \/ call[c].lock = m.lock

\* The reply reaches everybody; the broker may deliver it again.
Delivered(m) ==
  /\ m \in air /\ m.m = "reply"
  /\ air' = air \/ air' = air \ {m}
  /\ call' = [c \in Calls |-> IF Hears(c, m)
                THEN [call[c] EXCEPT !.pc = "answered", !.got = m.kept, !.from = m.lock]
                ELSE call[c]]
  /\ UNCHANGED <<over, now, lock, moves, since, conn, acked>>

\* A frame of another lock was sealed with another IV: its fields are not found.
Opens(c) == call[c].from = call[c].lock

Undecodable(c) ==
  /\ call[c].pc = "answered" /\ ~Opens(c)
  /\ Ends(c, "threw") /\ conn' = Disconnected(c)
  /\ UNCHANGED <<over, now, lock, moves, since, air, acked>>

Reads(c) ==
  /\ call[c].pc = "answered" /\ Opens(c)
  /\ \/ /\ call[c].op = "state" /\ Ends(c, "returned") /\ conn' = Disconnected(c)
     \/ /\ call[c].op = "autolock" /\ Goes(c, "setting") /\ UNCHANGED conn
  /\ UNCHANGED <<over, now, lock, moves, since, air, acked>>

\* The SET (or the actuation) is published, its acknowledgement awaited.
Set(c) ==
  /\ call[c].pc = "setting" /\ Cardinality(air) < MaxAir
  /\ Goes(c, "acking")
  /\ air' = IF call[c].op = "actuate" THEN air
            ELSE air \cup {Msg("set", call[c].lock, call[c].key, call[c].got)}
  /\ UNCHANGED <<over, now, lock, moves, since, conn, acked>>

\* A message of the lock's topic, or the timeout, which is no error.
AckWaitEnds(c) ==
  /\ call[c].pc = "acking"
  /\ Ends(c, "returned") /\ conn' = Disconnected(c)
  /\ \E b \in BOOLEAN : acked' = [acked EXCEPT ![c] = over = "mqtt" /\ b]
  /\ UNCHANGED <<over, now, lock, moves, since, air>>

\* publishDpFrame over the persistent transport; a preset has a companion
\* frame when the catalogue entry names a brightness.
Wanted(c) == IF call[c].op = "preset" THEN 2 ELSE 1

Publishes(c) ==
  /\ call[c].pc = "publishing" /\ call[c].frames < Wanted(c)
  /\ call' = [call EXCEPT ![c].frames = @ + 1]
  /\ UNCHANGED <<over, now, lock, moves, since, conn, air, acked>>

MutPublished(c) == call[c].frames > 0
Published(c)    == call[c].frames = Wanted(c)

Confirms(c) ==
  /\ call[c].pc = "publishing" /\ Published(c)
  /\ Ends(c, "returned") /\ acked' = [acked EXCEPT ![c] = TRUE]
  /\ UNCHANGED <<over, now, lock, moves, since, conn, air>>

\* A dependency is not wired, no account id, no catalogue entry, or the
\* persistent transport refuses the frame.
PublishFails(c) ==
  /\ call[c].pc = "publishing" /\ call[c].frames < Wanted(c)
  /\ Ends(c, "threw")
  /\ UNCHANGED <<over, now, lock, moves, since, conn, air, acked>>

Next ==
  \/ Tick
  \/ \E l \in Locks : OwnerChanges(l)
  \/ \E m \in air : Arrives(m) \/ Lost(m) \/ Delivered(m)
  \/ \E c \in Calls :
       \/ \E op \in Ops, l \in Locks : Begin(c, op, l)
       \/ Probe(c) \/ ProbeSettles(c) \/ NoInstance(c) \/ ConnectFails(c) \/ Connects(c) \/ Subscribed(c) \/ Throws(c) \/ Ask(c)
       \/ Undecodable(c) \/ Reads(c) \/ Set(c) \/ AckWaitEnds(c)
       \/ Publishes(c) \/ Confirms(c) \/ PublishFails(c)

-----------------------------------------------------------------------------
Messages ==
  [m : {"get", "reply", "set"}, lock : Locks, key : 0 .. MaxTime + MaxNonce, kept : Kept]

\* The type of the state.
TypeOK ==
  /\ over \in {"p2p", "mqtt"} /\ now \in 0 .. MaxTime /\ moves \in 0 .. MaxMoves
  /\ lock \in [Locks -> Kept] /\ since \in [Locks -> -1 .. MaxTime]
  /\ call \in [Calls -> [pc : Settled \cup {"probing", "connecting", "subscribing", "asking", "asked",
                               "answered", "setting", "acking", "publishing"},
                         op : Ops, lock : Locks, key : 0 .. MaxTime + MaxNonce, got : Kept,
                         from : Locks, frames : 0 .. 2, left : 0 .. Instances]]
  /\ conn \in [Calls -> {"none", "probe", "open"}] /\ acked \in [Calls -> BOOLEAN]
  /\ air \subseteq Messages

\* A connection opened for one command does not outlive it, however it ends.
NoOrphanConnection ==
  \A c \in Calls : call[c].pc \in Settled => conn[c] = "none"

LastHeld(l, v) == IF lock[l] = v THEN now ELSE since[l]

\* What an auto-lock write is about to preserve, and what a state read answers,
\* are the lock's own, and not older than the nonce is wide: nothing a reply
\* to an earlier GET said before that is written back over the owner's change.
ReadIsRecent ==
  \A c \in Calls :
    \/ call[c].pc = "answered" /\ Opens(c)
    \/ call[c].pc = "setting" /\ call[c].op = "autolock"
    => LastHeld(call[c].lock, call[c].got) >= call[c].key - MaxNonce

\* An acknowledged data-point command has all its frames out: a preset whose
\* companion frame failed is not reported as applied.
AckedIsWhole ==
  \A c \in Calls :
    acked[c] /\ call[c].op \in {"dp", "preset"} => call[c].frames = Wanted(c)
=============================================================================
