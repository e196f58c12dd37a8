------------------------- MODULE DatagramSequencing --------------------------
(***************************************************************************)
(* Reassembly of the DATA datagrams of one data type                       *)
(* (P2PSession.onData, src/src/transport/p2p/p2p-session.ts).              *)
(*                                                                         *)
(* The device cuts its frames into datagrams numbered modulo Space; only   *)
(* the first of a frame carries a header.  The network loses, repeats and  *)
(* reorders them, and the device may restart its numbering on a connection *)
(* that is up.  A datagram is named here by its place in everything the    *)
(* device ever sent, which the receiver never sees.                        *)
(***************************************************************************)
EXTENDS Integers, Sequences

CONSTANTS
  Space,      \* 2^16 in the code
  Lookback,   \* SEQUENCE_LOOKBACK, half of Space
  Depth,      \* STALE_RETRANSMIT_DEPTH
  Parts,      \* datagrams per frame
  Repeats,    \* how far back the device repeats; below Depth (120 measured)
  PlainRestart, \* restarts are far from the number they replace
  MaxSent     \* bound: datagrams sent in a behaviour

VARIABLES
  sent,      \* datagrams the device has numbered so far
  base,      \* where its present numbering started
  arrived,   \* the newest datagram that arrived
  lastSeq,   \* lastSeqByType, or NoSeq
  pending,   \* pendingByDataType: the datagrams of the half-assembled frame
  handled    \* the datagrams of the last frame given to handleFrame

vars == <<sent, base, arrived, lastSeq, pending, handled>>

NoSeq     == 0 - 1
Number(n) == (n - base) % Space
Part(n)   == n % Parts

Init ==
  /\ sent = 0 /\ base = 0 /\ arrived = 0 - 1
  /\ lastSeq = NoSeq /\ pending = << >> /\ handled = << >>

-----------------------------------------------------------------------------
(* The receiver.                                                           *)

Advance(n)   == IF lastSeq = NoSeq THEN 1 ELSE (Number(n) - lastSeq + Space) % Space
Restarted(n) == Advance(n) > Lookback /\ Space - Advance(n) > Depth
MutStale(n)  == Advance(n) = 0
Stale(n)     == Advance(n) = 0 \/ (Advance(n) > Lookback /\ ~Restarted(n))
MutBroken(n) == Restarted(n)
Broken(n)    == Advance(n) > 1 \/ Restarted(n)

\* What is pending once a hole or a restart has made the rest unusable.
Carried(n) == IF Broken(n) THEN << >> ELSE pending

\* The body with this datagram: a carried frame goes on whatever the bytes
\* are, without one only a header can begin a frame.
Body(n) == IF Carried(n) # << >> THEN Append(Carried(n), n)
           ELSE IF Part(n) = 0 THEN <<n>> ELSE << >>

OnData(n) ==
  /\ arrived' = IF n > arrived THEN n ELSE arrived
  /\ \/ Stale(n) /\ UNCHANGED <<lastSeq, pending, handled>>
     \/ /\ ~Stale(n)
        /\ lastSeq' = Number(n)
        /\ IF Len(Body(n)) = Parts
           THEN pending' = << >> /\ handled' = Body(n)
           ELSE pending' = Body(n) /\ handled' = handled
  /\ UNCHANGED <<sent, base>>

-----------------------------------------------------------------------------
(* The device and the network.                                             *)

\* The device never runs a whole numbering ahead of what arrives.
DeviceSends ==
  /\ sent < MaxSent
  /\ sent - arrived < Space - Depth
  /\ sent' = sent + 1
  /\ UNCHANGED <<base, arrived, lastSeq, pending, handled>>

\* The device begins a fresh stream and numbers it from the start again, in
\* the middle of a frame perhaps.  PlainRestart leaves out the restarts whose
\* first arrival the receiver reads as a repeat or as the very next number.
DeviceRestarts ==
  /\ sent > base
  /\ PlainRestart => lastSeq > Depth
  /\ sent' = sent + Parts - Part(sent) /\ base' = sent'
  /\ sent' <= MaxSent
  /\ UNCHANGED <<arrived, lastSeq, pending, handled>>

Plain(n) == arrived < base /\ lastSeq # NoSeq =>
              lastSeq - Number(n) > Depth /\ Advance(n) # 1

Arrives(n) ==
  /\ n >= base /\ n < sent /\ n > arrived - Repeats
  /\ PlainRestart => Plain(n)
  /\ OnData(n)

Next == DeviceSends \/ DeviceRestarts \/ \E n \in 0 .. MaxSent - 1 : Arrives(n)

Spec == Init /\ [][Next]_vars

-----------------------------------------------------------------------------
\* The type of the state.
TypeOK ==
  /\ sent \in 0 .. MaxSent /\ base \in 0 .. sent /\ arrived \in -1 .. sent - 1
  /\ lastSeq \in -1 .. Space - 1
  /\ Len(pending) < Parts /\ Len(handled) \in {0, Parts}

\* Every frame handed on is one frame of the device, all of it and in its
\* order, whatever was lost, repeated, reordered or numbered anew.
FramesAreWhole ==
  handled # << >> =>
    /\ Part(handled[1]) = 0
    /\ \A i \in 1 .. Parts : handled[i] = handled[1] + i - 1

\* No frame is handed on twice, and none after a later one: what is being
\* reassembled is always newer than what was handed on, so a repeated datagram
\* never begins its frame again.
FramesOnce == pending # << >> /\ handled # << >> => pending[1] > handled[1]
=============================================================================
