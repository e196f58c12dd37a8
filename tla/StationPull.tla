----------------------------- MODULE StationPull -----------------------------
(***************************************************************************)
(* How the P2P command router (src/src/transport/p2p/command-router.ts)    *)
(* hands out live pulls on one station: resolveSession() with its silent-  *)
(* path rebuild, the cache of shared sources with its sibling rules, the   *)
(* talkback claim, prewarm, and the two recoveries a source asks for       *)
(* (onLiveStartFailed, replaceUnreachableSession).                         *)
(*                                                                         *)
(* The entry of the session manager is SessionEntry's; a source is reduced *)
(* to what the router reads of it.  A caller's step is everything between  *)
(* two awaits; the two background recoveries run as callers of their own.  *)
(***************************************************************************)
EXTENDS SessionEntry, FiniteSets

CONSTANTS
  Channels,     \* the camera channels of a HomeBase, and Own
  Own,          \* the only channel of a station that is its own camera
  Callers,      \* concurrent calls, the background ones included
  Nobody,       \* no caller
  MaxSessions,  \* bound: entries created in a behaviour
  MaxSources    \* bound: sources created in a behaviour

Ids  == 1 .. MaxSessions
Srcs == 1 .. MaxSources
None == 0

VARIABLES
  attached,   \* homeBaseAttached: several cameras behind one HomeBase
  cur,        \* the entry the manager holds for the station, or None
  ent,        \* [Ids -> Entry]
  issued,     \* entries created so far
  silent,     \* the sessions whose path stopped answering
  src,        \* [Srcs -> Source]
  made,       \* sources created so far
  cache,      \* liveSources: [Channels -> Srcs \cup {None}]
  claim,      \* talkbacks: [Channels -> Callers \cup {Nobody}]
  call        \* [Callers -> Call]

manager == <<cur, ent, issued>>
pulls   == <<src, made, cache>>
vars    == <<attached, manager, silent, pulls, claim, call>>

Source == [ch       : Channels,
           state    : {"idle", "warming", "live", "lingering", "stopped"},
           disposed : BOOLEAN,
           held     : Ids \cup {None},   \* the HeldSession cell
           rides    : Ids \cup {None},   \* the session its stream was built on
           shown    : BOOLEAN,           \* a keyframe arrived since it warmed
           asked    : BOOLEAN]           \* asked for another session

\* A call and what it awaits: the open it started or joined, the close of a
\* session, its connection, or its own next step with a source in hand.
Call == [kind    : {"view", "talk", "talking", "prewarm", "replace", "drop"},
         pc      : {"idle", "opening", "joining", "opened", "closing",
                    "waiting", "holding", "watching"},
         ch      : Channels,
         ses     : Ids \cup {None},
         src     : Srcs \cup {None},
         rebuilt : BOOLEAN]

Idle == [kind |-> "view", pc |-> "idle", ch |-> Own, ses |-> None,
         src |-> None, rebuilt |-> FALSE]

\* Invariant.  The state keeps its shape.
TypeOK ==
  /\ attached \in BOOLEAN
  /\ cur \in Ids \cup {None} /\ issued \in 0 .. MaxSessions
  /\ ent \in [Ids -> Entry] /\ silent \subseteq Ids
  /\ src \in [Srcs -> Source] /\ made \in 0 .. MaxSources
  /\ cache \in [Channels -> Srcs \cup {None}]
  /\ claim \in [Channels -> Callers \cup {Nobody}]
  /\ call \in [Callers -> Call]

Init ==
  /\ attached \in BOOLEAN
  /\ cur = None /\ issued = 0 /\ silent = {}
  /\ ent = [e \in Ids |-> NewEntry]
  /\ src = [s \in Srcs |-> [ch |-> Own, state |-> "idle", disposed |-> FALSE,
              held |-> None, rides |-> None, shown |-> FALSE, asked |-> FALSE]]
  /\ made = 0
  /\ cache = [k \in Channels |-> None]
  /\ claim = [k \in Channels |-> Nobody]
  /\ call = [c \in Callers |-> Idle]

Cameras == IF attached THEN Channels \ {Own} ELSE {Own}

----------------------------------------------------------------------------
(* The manager, the sources and the claims, as the router's steps use them.*)

Watching(s) == {c \in Callers : call[c].pc = "watching" /\ call[c].src = s}
Cached      == {cache[k] : k \in Channels} \ {None}
Streams(s)  == src[s].state \in {"warming", "live", "lingering"}

\* poweredFor(): a HomeBase is on mains.  A camera on mains behaves as one on
\* battery whose idle window never elapses.
battery == ~attached

\* n releases of the station's entry: the last reason arms the idle window.
ReleasedTimes(en, n) ==
  LET left == IF en.retained > n THEN en.retained - n ELSE 0
  IN  [en EXCEPT !.retained = left,
                 !.idle = IF en.retained > 0 /\ left = 0 THEN battery ELSE @]

Release(n) == ent' = IF cur = None \/ n = 0 THEN ent
                     ELSE [ent EXCEPT ![cur] = ReleasedTimes(@, n)]

\* Mutant: a dropped source is forgotten, not disposed.
MutDisposed(S) ==
  src' = src

\* teardown() leaves a source that another attach() may warm again; one that
\* dispose() has run on is not read any more.
Stopped(s)  == [src[s] EXCEPT !.state = "stopped", !.rides = None,
                              !.shown = FALSE, !.asked = FALSE]
Disposal(s) == [Stopped(s) EXCEPT !.disposed = TRUE, !.held = None]

\* dispose() of the sources S.
Disposed(S) == src' = [s \in Srcs |-> IF s \in S THEN Disposal(s) ELSE src[s]]

Uncached(S) == cache' = [k \in Channels |-> IF cache[k] \in S THEN None ELSE cache[k]]

\* How many of the sources S still count as a user of the session.
Users(S) == Cardinality({s \in S : Watching(s) # {}})

\* The consumers of S are told "stop" and leave; a talkback stops with its
\* media, and gives up the claim.
Left(S)      == {c \in Callers : call[c].pc = "watching" /\ call[c].src \in S}
Unclaimed(C) == claim' = [k \in Channels |-> IF claim[k] \in C THEN Nobody ELSE claim[k]]
Leave(C)     == call' = [c \in Callers |-> IF c \in C THEN Idle ELSE call[c]]

\* dropLiveSource() of S, as the call c goes on as r.
DropThen(S, c, r) ==
  /\ Disposed(S) /\ Uncached(S)
  /\ Release(Users(S))
  /\ Unclaimed(Left(S))
  /\ call' = [x \in Callers |-> IF x = c THEN r
                                ELSE IF x \in Left(S) THEN Idle ELSE call[x]]

\* A discarded entry: its count is read by nobody any more.
Forgotten(en) == [Discarded(en) EXCEPT !.retained = 0]

\* tearDownStation(): the entry goes first, so the sources' releases find
\* none; everything that was riding the session is dropped.
TearDown(e, en) ==
  /\ cur' = None
  /\ ent' = [ent EXCEPT ![e] = Forgotten(en)]
  /\ Disposed(Cached) /\ cache' = [k \in Channels |-> None]
  /\ claim' = [k \in Channels |-> Nobody]
  /\ Leave(Left(Cached))
  /\ silent' = silent \ {e}
  /\ UNCHANGED <<issued, made>>

\* manager.close(): the entry is discarded at once, its session is closing.
CloseStation ==
  /\ cur' = None
  /\ ent' = IF cur = None THEN ent
            ELSE [ent EXCEPT ![cur] = CloseSession(Forgotten(@))]

----------------------------------------------------------------------------
(* openStation() and resolveSession().                                     *)

Slot    == IF cur # None THEN cur ELSE issued + 1
HasRoom == cur # None \/ issued < MaxSessions

\* A session is returned as it is; an open in flight is joined; a cold
\* station is opened.  en is the entry after what the caller just did to it.
OpenStation(c, r, en) ==
  LET e == Slot IN
  /\ HasRoom
  /\ cur' = e /\ issued' = IF cur = None THEN issued + 1 ELSE issued
  /\ IF en.opening # "none"
     THEN ent' = [ent EXCEPT ![e] = en] /\ call' = [call EXCEPT ![c] = [r EXCEPT !.pc = "joining", !.ses = e]]
     ELSE IF en.session # "none"
     THEN ent' = [ent EXCEPT ![e] = en] /\ call' = [call EXCEPT ![c] = [r EXCEPT !.pc = "opened", !.ses = None]]
     ELSE /\ ent' = [ent EXCEPT ![e] = [en EXCEPT !.opening = "binding"]]
          /\ call' = [call EXCEPT ![c] = [r EXCEPT !.pc = "opening", !.ses = e]]

\* hold(): the expiring holds of an entry stand together, as the last of them.
Hold(en) == IF en.holds > 0 THEN en ELSE Held(en)

\* manager.get() finds a session, whatever its state.
HasSession == cur # None /\ ent[cur].session # "none"

AwaitsClose(c) == call[c].ses # None /\ ent[call[c].ses].session = "closing"

\* A media call, a talkback or a pre-warm begins.  The pre-warm holds the
\* station before it opens it.
Begin(c, kind, k) ==
  /\ call[c].pc = "idle"
  /\ LET r == [Idle EXCEPT !.kind = kind, !.ch = k] IN
       \/ kind = "prewarm" /\ OpenStation(c, r, Hold(ent[Slot]))
       \/ kind # "prewarm" /\ OpenStation(c, r, ent[Slot])
  /\ UNCHANGED <<attached, silent, pulls, claim>>

\* The factory's promise settles.  A failure reaches everybody who waits; a
\* superseded open fails its owner alone.
OpenSettles(e, ok) ==
  LET waits(c)  == call[c].pc \in {"opening", "joining"} /\ call[c].ses = e
      fails(c)  == waits(c) /\ (~ok \/ (call[c].pc = "opening" /\ cur # e)) IN
  /\ ent[e].opening = "binding"
  /\ ent' = [ent EXCEPT ![e].opening = "none",
                        ![e].session = IF ok THEN (IF cur = e THEN "dialing" ELSE "closed") ELSE @]
  /\ call' = [c \in Callers |-> IF fails(c) THEN Idle
                                ELSE IF waits(c) THEN [call[c] EXCEPT !.pc = "opened", !.ses = None]
                                ELSE call[c]]
  /\ Unclaimed({c \in Callers : fails(c)})
  /\ UNCHANGED <<attached, cur, issued, silent, pulls>>

\* The call throws; a talkback's claim is released on the way out.
Throw(c) ==
  /\ Leave({c}) /\ Unclaimed({c})
  /\ UNCHANGED <<attached, manager, silent, pulls>>

\* resolveSession() after the open: a silent path is closed and resolved once
\* more, any other session is held for the command keep-alive.
Resolve(c) ==
  /\ call[c].pc = "opened" /\ call[c].kind # "prewarm"
  /\ HasSession
  /\ \/ /\ cur \in silent /\ ~call[c].rebuilt
        /\ CloseStation
        /\ call' = [call EXCEPT ![c].pc = "closing", ![c].ses = cur, ![c].rebuilt = TRUE]
     \/ /\ cur \notin silent \/ call[c].rebuilt
        /\ ent' = [ent EXCEPT ![cur] = Hold(@)] /\ cur' = cur
        /\ call' = [call EXCEPT ![c].pc = "waiting", ![c].ses = cur, ![c].rebuilt = FALSE]
  /\ UNCHANGED <<attached, issued, silent, pulls, claim>>

\* A pre-warm is done; a session that went during the open is an error.
ResolveEnds(c) ==
  /\ call[c].pc = "opened"
  /\ ~(call[c].kind # "prewarm" /\ HasSession)
  /\ Throw(c)

\* The close a call awaited is done: the session is opened anew.
Reopen(c) ==
  /\ call[c].pc = "closing" /\ call[c].kind # "drop"
  /\ ~AwaitsClose(c)
  /\ OpenStation(c, call[c], ent[Slot])
  /\ UNCHANGED <<attached, silent, pulls, claim>>

\* Not connected in time, a key refused to an attached camera, or an abort.  It
\* is also how a control command ends: it asked for the session and no pull.
GiveUp(c) ==
  /\ call[c].pc = "waiting"
  /\ Throw(c)

Ready(c) == call[c].pc = "waiting" /\ ent[call[c].ses].session = "up"

----------------------------------------------------------------------------
(* sharedLiveSourceFor(), and the consumers.                               *)

MutNotTalking(c) == TRUE    \* mutant: the map is asked only after the warm-up

NotTalking(c) == claim[call[c].ch] = Nobody

\* openTalkback(): refused where the channel is talking; else claimed before
\* anything is awaited, and the shared source is asked for.
TalkbackClaims(c) ==
  /\ Ready(c) /\ call[c].kind = "talk"
  /\ NotTalking(c)
  /\ claim' = [claim EXCEPT ![call[c].ch] = c]
  /\ OpenStation(c, [call[c] EXCEPT !.kind = "talking", !.rebuilt = FALSE], ent[Slot])
  /\ UNCHANGED <<attached, silent, pulls>>

TalkbackRefused(c) ==
  /\ Ready(c) /\ call[c].kind = "talk" /\ ~NotTalking(c)
  /\ Throw(c)

\* The call with a source in hand; its session is not read again.
Holding(c, s) == [call[c] EXCEPT !.pc = "holding", !.src = s, !.ses = None,
                                 !.rebuilt = FALSE]

Wants(c) == Ready(c) /\ call[c].kind \in {"view", "talking"}

\* What the acquisition drops before it looks: a stopped source of its own,
\* and siblings nothing is attached to.
Stale(k) == {s \in {cache[k]} \ {None} : src[s].state = "stopped"}
Siblings(k) == {cache[j] : j \in Channels \ {k}} \ {None}

MutLingering(k) == {}    \* mutant: a sibling's linger goes on

Lingering(k) == {s \in Siblings(k) : Watching(s) = {}}

MutOccupied(k) == FALSE    \* mutant: nobody asks who is being served

\* occupiedSiblingChannel(): a sibling that can still deliver to somebody.
Occupied(k) == \E s \in Siblings(k) : src[s].state # "stopped" /\ Watching(s) # {}

\* StationBusyError, thrown after the drops.
AcquireRefused(c) ==
  LET k == call[c].ch IN
  /\ Wants(c) /\ attached /\ Occupied(k)
  /\ DropThen(Stale(k) \cup Lingering(k), c, Idle)
  /\ UNCHANGED <<attached, cur, issued, silent, made>>

\* The cached source is handed over as it is.
AcquireJoins(c) ==
  LET k == call[c].ch IN
  /\ Wants(c) /\ ~(attached /\ Occupied(k))
  /\ cache[k] # None /\ Stale(k) = {}
  /\ DropThen(Lingering(k), c, Holding(c, cache[k]))
  /\ UNCHANGED <<attached, cur, issued, silent, made>>

\* A source is built over the session that was resolved.
AcquireBuilds(c) ==
  LET k == call[c].ch
      S == Stale(k) \cup Lingering(k)
      n == made + 1 IN
  /\ Wants(c) /\ ~(attached /\ Occupied(k))
  /\ cache[k] = None \/ Stale(k) # {}
  /\ made < MaxSources
  /\ made' = n
  /\ src' = [s \in Srcs |->
       IF s = n THEN [src[n] EXCEPT !.ch = k, !.held = call[c].ses]
       ELSE IF s \in S THEN Disposal(s)
       ELSE src[s]]
  /\ cache' = [j \in Channels |-> IF j = k THEN n
                                  ELSE IF cache[j] \in S THEN None ELSE cache[j]]
  /\ Release(Users(S))
  /\ Unclaimed(Left(S))
  /\ call' = [x \in Callers |->
       IF x = c THEN Holding(c, n)
       ELSE IF x \in Left(S) THEN Idle ELSE call[x]]
  /\ UNCHANGED <<attached, cur, issued, silent>>

\* attach(): the first consumer counts as a user of whatever entry the serial
\* names now, and warms a stream over the held session.
Attach(c) ==
  LET s == call[c].src IN
  /\ call[c].pc = "holding" /\ ~src[s].disposed
  /\ call[c].kind = "talking" => claim[call[c].ch] = c
  /\ call' = [call EXCEPT ![c].pc = "watching"]
  /\ IF Watching(s) = {}
     THEN /\ HasRoom
          /\ cur' = Slot /\ issued' = IF cur = None THEN issued + 1 ELSE issued
          /\ ent' = [ent EXCEPT ![Slot] = Retained(@)]
     ELSE UNCHANGED manager
  /\ src' = [src EXCEPT ![s] =
       IF Streams(s) THEN [@ EXCEPT !.state = IF src[s].state # "lingering" THEN src[s].state
                                              ELSE IF src[s].shown THEN "live" ELSE "warming"]
       ELSE [@ EXCEPT !.state = "warming", !.rides = src[s].held,
                      !.shown = FALSE, !.asked = FALSE]]
  /\ UNCHANGED <<attached, silent, made, cache, claim>>

\* attach() on a disposed source throws, and so does a talkback that was
\* closed while its media session was warming.
AttachThrows(c) ==
  /\ call[c].pc = "holding"
  /\ src[call[c].src].disposed \/ (call[c].kind = "talking" /\ claim[call[c].ch] # c)
  /\ Throw(c)

\* detach(): the last consumer releases the session user, and the pull lingers.
Detach(c) ==
  LET s == call[c].src IN
  /\ call[c].pc = "watching"
  /\ Leave({c}) /\ Unclaimed({c})
  /\ IF Watching(s) = {c}
     THEN Release(1) /\ src' = [src EXCEPT ![s].state = "lingering"]
     ELSE UNCHANGED <<ent, src>>
  /\ UNCHANGED <<attached, cur, issued, silent, made, cache>>

----------------------------------------------------------------------------
(* What a source reports, and what the router does about it.               *)

Delivers(s) == src[s].rides # None /\ ent[src[s].rides].session = "up"

FirstKeyframe(s) ==
  /\ src[s].state = "warming" /\ Delivers(s)
  /\ src' = [src EXCEPT ![s].state = "live", ![s].shown = TRUE]
  /\ UNCHANGED <<attached, manager, silent, made, cache, claim, call>>

\* A pull that showed a picture stops: linger, budget, upstream end.
PullStops(s) ==
  /\ Streams(s) /\ src[s].shown
  /\ src' = [src EXCEPT ![s] = Stopped(s)]
  /\ UNCHANGED <<attached, manager, silent, made, cache, claim, call>>

\* onLiveStartFailed() of a camera on a HomeBase: only the source is dropped,
\* whichever source the key names.
StartFailsAttached(s) ==
  LET S == {cache[src[s].ch]} \ {None} IN
  /\ attached /\ Streams(s) /\ ~src[s].shown
  /\ src' = [x \in Srcs |-> IF x \in S THEN Disposal(x)
                            ELSE IF x = s THEN Stopped(x)
                            ELSE src[x]]
  /\ Uncached(S) /\ Release(Users(S)) /\ Unclaimed(Left(S)) /\ Leave(Left(S))
  /\ UNCHANGED <<attached, cur, issued, silent, made>>

\* Of a station that is its own camera: the session is closed, and the source
\* the key names is dropped once that close is done, in the background (c).
StartFailsOwn(s, c) ==
  /\ ~attached /\ Streams(s) /\ ~src[s].shown
  /\ call[c].pc = "idle"
  /\ src' = [src EXCEPT ![s] = Stopped(s)]
  /\ CloseStation
  /\ call' = [call EXCEPT ![c] = [Idle EXCEPT !.kind = "drop", !.pc = "closing", !.ses = cur]]
  /\ UNCHANGED <<attached, issued, silent, made, cache, claim>>

DropFinally(c) ==
  /\ call[c].pc = "closing" /\ call[c].kind = "drop"
  /\ ~AwaitsClose(c)
  /\ DropThen({cache[Own]} \ {None}, c, Idle)
  /\ UNCHANGED <<attached, cur, issued, silent, made>>

\* onSessionUnreachable(): the session of a station that is its own camera is
\* closed, and resolved anew in the background (c).  An attached camera's is
\* left alone, which changes nothing.
Unacknowledged(s, c) ==
  /\ ~attached /\ src[s].state = "warming" /\ ~src[s].asked
  /\ call[c].pc = "idle"
  /\ src' = [src EXCEPT ![s].asked = TRUE]
  /\ CloseStation
  /\ call' = [call EXCEPT ![c] = [Idle EXCEPT !.kind = "replace", !.pc = "closing",
                                              !.ses = cur, !.src = s]]
  /\ UNCHANGED <<attached, issued, silent, made, cache, claim>>

\* The replacement connected: the cell of the source that asked takes the new
\* session, and the source the KEY names is warmed again if it still waits.
Replaced(c) ==
  LET k == cache[call[c].ch]
      held == [src EXCEPT ![call[c].src].held = call[c].ses] IN
  IF k = None THEN src
  ELSE IF ~held[k].disposed /\ held[k].asked /\ held[k].state = "warming"
  THEN [held EXCEPT ![k].rides = held[k].held] ELSE held

ReplacementReady(c) ==
  /\ Ready(c) /\ call[c].kind = "replace"
  /\ src' = Replaced(c)
  /\ Leave({c})
  /\ UNCHANGED <<attached, manager, silent, made, cache, claim>>

----------------------------------------------------------------------------
(* The sessions and the manager's timers.                                  *)

Connects(e) ==
  /\ ent[e].session = "dialing"
  /\ ent' = [ent EXCEPT ![e].session = "up"]
  /\ UNCHANGED <<attached, cur, issued, silent, pulls, claim, call>>

PathGoesSilent(e) ==
  /\ cur = e /\ ent[e].session = "up"
  /\ silent' = silent \cup {e}
  /\ UNCHANGED <<attached, manager, pulls, claim, call>>

\* The session closes by itself: a connect timeout, a socket gone.
SessionFails(e) ==
  /\ Alive(ent[e])
  /\ ent' = [ent EXCEPT ![e] = CloseSession(@)]
  /\ UNCHANGED <<attached, cur, issued, silent, pulls, claim, call>>

\* "close" is emitted: the station is torn down only where this is the
\* session it is registered with.
SocketCloses(e) ==
  LET en == [ent[e] EXCEPT !.session = "closed"] IN
  /\ ent[e].session = "closing"
  /\ \/ cur = e /\ TearDown(e, en)
     \/ /\ cur # e /\ ent' = [ent EXCEPT ![e] = en]
        /\ UNCHANGED <<cur, issued, silent, pulls, claim, call>>
  /\ UNCHANGED attached

HoldExpires ==
  /\ cur # None /\ ent[cur].holds > 0
  /\ ent' = [ent EXCEPT ![cur] = ReleasedTimes(HoldFired(@), 1)]
  /\ UNCHANGED <<attached, cur, issued, silent, pulls, claim, call>>

\* onIdle() -> autoClose() -> tearDownStation().
IdleFires ==
  /\ cur # None /\ ent[cur].idle /\ ent[cur].retained = 0
  /\ IF ent[cur].session = "none"
     THEN /\ CloseStation /\ UNCHANGED <<issued, silent, pulls, claim, call>>
     ELSE TearDown(cur, CloseSession(ent[cur]))
  /\ UNCHANGED attached

\* closeAll(): talkbacks, sources, then the sessions.
CloseAll ==
  /\ cur # None
  /\ TearDown(cur, CloseSession(ent[cur]))
  /\ UNCHANGED attached

----------------------------------------------------------------------------
\* Between acquiring a source and attaching to it a call only gives way to
\* other continuations that are due already: no timer, datagram or host comes
\* in between.
Quiet == \A c \in Callers : call[c].pc # "holding"

HostStep(c) ==
  \/ \E kind \in {"view", "talk"} : \E k \in Cameras : Begin(c, kind, k)
  \/ Begin(c, "prewarm", Own)
  \/ GiveUp(c) \/ Detach(c)

CallerStep(c) ==
  \/ Resolve(c) \/ ResolveEnds(c) \/ Reopen(c)
  \/ TalkbackClaims(c) \/ TalkbackRefused(c)
  \/ AcquireRefused(c) \/ AcquireJoins(c) \/ AcquireBuilds(c)
  \/ Attach(c) \/ AttachThrows(c)
  \/ DropFinally(c) \/ ReplacementReady(c)

SourceStep(s) ==
  \/ FirstKeyframe(s) \/ PullStops(s) \/ StartFailsAttached(s)
  \/ \E c \in Callers : StartFailsOwn(s, c) \/ Unacknowledged(s, c)

SessionStep(e) ==
  \/ \E ok \in BOOLEAN : OpenSettles(e, ok)
  \/ Connects(e) \/ PathGoesSilent(e) \/ SessionFails(e) \/ SocketCloses(e)

Next ==
  \/ \E c \in Callers : CallerStep(c)
  \/ /\ Quiet
     /\ \/ \E c \in Callers : HostStep(c)
        \/ \E s \in 1 .. made : SourceStep(s)
        \/ \E e \in 1 .. issued : SessionStep(e)
        \/ HoldExpires \/ IdleFires \/ CloseAll

Spec == Init /\ [][Next]_vars

----------------------------------------------------------------------------
(* What makes the router correct.                                          *)

\* Invariant.  A HomeBase serves one camera at a time: no two channels are
\* being watched over open pulls, however the callers interleave between
\* acquiring a source and attaching to it (releaseLingeringSiblings,
\* occupiedSiblingChannel, and attach() on a dropped source).
OneCameraServed ==
  attached =>
    \A s, t \in 1 .. made :
      Streams(s) /\ Streams(t) /\ Watching(s) # {} /\ Watching(t) # {}
        => src[s].ch = src[t].ch

\* Invariant.  No pull is lost: a source that streams is the one its key
\* names, so that the next caller joins it and closeAll() ends it.
NoOrphanPull ==
  \A s \in 1 .. made : Streams(s) => cache[src[s].ch] = s

\* Invariant.  One talkback per camera: whoever talks holds the claim of its
\* channel, so no second one paces onto the same audio sequence and closeAll()
\* reaches it (openTalkback claims before it awaits, and asks again after).
TalkbackIsReachable ==
  \A c \in Callers :
    call[c].kind = "talking" /\ call[c].pc = "watching" => claim[call[c].ch] = c

\* Invariant, what command-router.ts:686 says of a pull: "an attached stream
\* counts as a user of the station's P2P session".  A source that somebody
\* watches over the registered session is counted on its entry, beside the
\* holds that expire.
StreamingIsCounted ==
  \A s \in 1 .. made :
    Watching(s) # {} /\ src[s].state = "live" /\ src[s].rides = cur
      => HasViewer(ent[cur])
=============================================================================
