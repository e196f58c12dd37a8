----------------------------- MODULE LiveStream ------------------------------
(***************************************************************************)
(* The live streams over one session                                       *)
(* (src/src/transport/p2p/live-stream.ts): the keepalive that re-issues    *)
(* the start, its settling on an attached camera once the station serves   *)
(* that camera, and the stall watch that re-asserts it when the station    *)
(* went to a sibling.  A stream never hears of its session's close: only   *)
(* its own stop() ends it.                                                 *)
(***************************************************************************)
EXTENDS P2PSession

VARIABLES
  listening,  \* the channels whose stream is started
  ka,         \* the channels whose keepalive timer runs
  stall,      \* the channels whose stall watch is armed
  wanted,     \* the channels their owner wants re-asserted
  serving     \* the camera a HomeBase serves, or Nobody's

CONSTANT NoCamera

streams == <<listening, ka, stall, wanted>>
vars    == <<session, streams, serving>>

Init ==
  /\ SessionInit
  /\ listening = {} /\ ka = {} /\ stall = {} /\ wanted = {}
  /\ serving = NoCamera

\* startLiveMedia on an attached camera is a whole start, sent only at
\* level 2; the base then serves this camera, unless the datagram is lost.
SendStart(c, force) ==
  /\ StartLiveMedia(c, force)
  /\ \/ serving' = serving
     \/ config.attached /\ key /\ Sends /\ serving' = c

Start(c) ==
  /\ c \notin listening
  /\ SendStart(c, FALSE)
  /\ listening' = listening \cup {c} /\ ka' = ka \cup {c} /\ stall' = stall
  /\ wanted' = wanted \cup {c}

KeepAlive(c) ==
  /\ c \in ka
  /\ SendStart(c, FALSE)
  /\ UNCHANGED streams

\* nudge(): the warm-up retry of the source above, forced or not.
Nudge(c, force) ==
  /\ c \in listening
  /\ SendStart(c, force)
  /\ UNCHANGED streams

Stop(c) ==
  /\ c \in listening
  /\ StopLiveMedia(c)
  /\ listening' = listening \ {c} /\ ka' = ka \ {c} /\ stall' = stall \ {c}
  /\ wanted' = wanted \ {c}
  /\ serving' \in (IF serving = c THEN {serving, NoCamera} ELSE {serving})

\* onFrame: acceptsMedia lets only frames tagged with this camera's channel
\* through, and settleKeepalive turns the restart into a stall watch.
OwnFrame(c) ==
  /\ config.attached /\ Sends /\ serving = c /\ c \in listening
  /\ stall' = stall \cup {c} /\ ka' = ka \ {c}
  /\ UNCHANGED <<session, listening, wanted, serving>>

\* reassertWanted() as the owner answers it from who is attached.
OwnerChanges(c) ==
  /\ c \in listening
  /\ wanted' \in {wanted \cup {c}, wanted \ {c}}
  /\ wanted' # wanted
  /\ UNCHANGED <<session, listening, ka, stall, serving>>

\* The stall watch when nobody wants the channel re-asserted.
MutUnwanted(c) == stall' = stall \ {c} /\ UNCHANGED <<session, ka, serving>>
Unwanted(c) == stall' = stall /\ UNCHANGED <<session, ka, serving>>

\* The timer asks whether the keepalive runs, which it never does by then.
StallFires(c) ==
  /\ c \in stall \ ka
  /\ \/ c \notin wanted /\ Unwanted(c)
     \/ /\ c \in wanted
        /\ SendStart(c, FALSE)
        /\ stall' = stall \ {c} /\ ka' = ka \cup {c}
  /\ UNCHANGED <<listening, wanted>>

Next ==
  \/ SessionStep /\ UNCHANGED <<streams, serving>>
  \/ \E c \in Channels :
       \/ Start(c) \/ KeepAlive(c) \/ Stop(c)
       \/ \E force \in BOOLEAN : Nudge(c, force)
       \/ OwnFrame(c) \/ OwnerChanges(c) \/ StallFires(c)

\* The retransmission timer fires.
Sweeps   == unacked # << >> /\ SweepStarts(DOMAIN unacked) /\ UNCHANGED <<streams, serving>>
Fairness == WF_vars(Sweeps)

Spec == Init /\ [][Next]_vars /\ Fairness

-----------------------------------------------------------------------------
\* The type of the state.
TypeOK ==
  /\ SessionTypeOK
  /\ listening \subseteq Channels /\ ka \subseteq listening /\ stall \subseteq listening
  /\ wanted \subseteq listening /\ serving \in Channels \cup {NoCamera}

\* A stream that is listening always has the timer that would bring its
\* camera back: its keepalive, or on an attached camera the stall watch.
ListeningIsWatched ==
  /\ listening \subseteq ka \cup stall
  /\ ~config.attached => listening \subseteq ka

\* Every live start that is retained is acknowledged, abandoned or replaced:
\* none is repeated for ever.
Repeated(s)   == s \in DOMAIN unacked
StartsResolve == \A s \in Seqs : Repeated(s) ~> ~Repeated(s)
=============================================================================
