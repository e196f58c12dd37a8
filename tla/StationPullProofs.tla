-------------------------- MODULE StationPullProofs --------------------------
(***************************************************************************)
(* Lemmas about StationPull, for every number of channels, callers,        *)
(* sessions and sources: one camera of a HomeBase is served at a time, and *)
(* no pull and no talkback escapes the maps that reach it.  LinksProofs    *)
(* states them as theorems of the station's part.                          *)
(*                                                                         *)
(* Two facts carry the argument.  A source that is not disposed is the one *)
(* its key names, so whoever acquires another channel finds it and either  *)
(* drops it or is refused.  And between acquiring a source and attaching   *)
(* to it nothing but other calls runs (Quiet), so that a source in hand is *)
(* either disposed, and its attach throws, or still what the call found.   *)
(***************************************************************************)
EXTENDS StationPull, FiniteSetTheorems, TLAPS

Parameters ==
  /\ MaxSessions \in Nat /\ MaxSources \in Nat
  /\ Own \in Channels /\ Nobody \notin Callers

\* TypeOK in three parts: the station's sessions, its pulls, its calls.
SessionsTyped ==
  /\ attached \in BOOLEAN
  /\ cur \in Ids \cup {None} /\ issued \in 0 .. MaxSessions
  /\ ent \in [Ids -> Entry] /\ silent \subseteq Ids
PullsTyped ==
  /\ src \in [Srcs -> Source] /\ made \in 0 .. MaxSources
  /\ cache \in [Channels -> Srcs \cup {None}]
CallsTyped ==
  /\ claim \in [Channels -> Callers \cup {Nobody}]
  /\ call \in [Callers -> Call]

LEMMA TypeParts == TypeOK <=> SessionsTyped /\ PullsTyped /\ CallsTyped
BY DEF TypeOK, SessionsTyped, PullsTyped, CallsTyped

----------------------------------------------------------------------------
(* What the operators return.                                              *)

\* Lemma.  What the manager does to an entry is an entry (SessionEntry).
LEMMA EntryTypes ==
  ASSUME NEW en \in Entry
  PROVE  /\ Retained(en) \in Entry /\ Held(en) \in Entry /\ Hold(en) \in Entry
         /\ CloseSession(en) \in Entry /\ Forgotten(en) \in Entry
         /\ en.holds > 0 => HoldFired(en) \in Entry
         /\ \A x \in SessionStates : [en EXCEPT !.session = x] \in Entry
         /\ \A x \in OpeningStates : [en EXCEPT !.opening = x] \in Entry
         /\ \A x \in SessionStates : [en EXCEPT !.opening = "none", !.session = x] \in Entry
<1>1. Retained(en) \in Entry
  <2>1. en.retained + 1 \in Nat
    BY DEF Entry
  <2>2. Retained(en) = [en EXCEPT !.retained = en.retained + 1, !.idle = FALSE]
    BY DEF Entry, Retained
  <2>3. QED
    BY <2>1, <2>2 DEF Entry
<1>2. Held(en) \in Entry
  BY <1>1 DEF Entry, Held
<1>3. Hold(en) \in Entry
  BY <1>2 DEF Hold
<1>4. CloseSession(en) \in Entry
  BY DEF Entry, CloseSession, SessionStates
<1>5. Forgotten(en) \in Entry
  BY DEF Entry, Forgotten, Discarded
<1>6. en.holds > 0 => HoldFired(en) \in Entry
  BY DEF Entry, HoldFired
<1>7. \A x \in SessionStates : [en EXCEPT !.session = x] \in Entry
  BY DEF Entry
<1>8. \A x \in OpeningStates : [en EXCEPT !.opening = x] \in Entry
  BY DEF Entry
<1>9. ASSUME NEW x \in SessionStates PROVE [en EXCEPT !.opening = "none", !.session = x] \in Entry
  BY DEF Entry, OpeningStates
<1>10. QED
  BY <1>1, <1>2, <1>3, <1>4, <1>5, <1>6, <1>7, <1>8, <1>9

\* Lemma.  A release never counts below zero (release()).
LEMMA ReleaseTypes ==
  ASSUME SessionsTyped, NEW n \in Nat
  PROVE  /\ \A en \in Entry : ReleasedTimes(en, n) \in Entry
         /\ Release(n) => ent' \in [Ids -> Entry]
<1>1. ASSUME NEW en \in Entry PROVE ReleasedTimes(en, n) \in Entry
  <2> DEFINE left == IF en.retained > n THEN en.retained - n ELSE 0
             idle == IF en.retained > 0 /\ left = 0 THEN battery ELSE en.idle
  <2>1. left \in Nat
    BY DEF Entry
  <2>2. idle \in BOOLEAN
    BY DEF SessionsTyped, battery, Entry
  <2>3. ReleasedTimes(en, n) = [en EXCEPT !.retained = left, !.idle = idle]
    BY DEF ReleasedTimes, Entry
  <2>4. QED
    BY <2>1, <2>2, <2>3 DEF Entry
<1>2. ASSUME Release(n) PROVE ent' \in [Ids -> Entry]
  <2>1. CASE cur = None \/ n = 0
    BY <1>2, <2>1 DEF Release, SessionsTyped
  <2>2. CASE cur # None /\ n # 0
    <3>1. cur \in Ids /\ ent[cur] \in Entry
      BY <2>2 DEF SessionsTyped
    <3>2. ReleasedTimes(ent[cur], n) \in Entry
      BY <1>1, <3>1
    <3>3. QED
      BY <1>2, <2>2, <3>1, <3>2 DEF Release, SessionsTyped
  <2>3. QED
    BY <2>1, <2>2
<1>3. QED
  BY <1>1, <1>2

\* Lemma.  A call that is over, and one that goes on, is a call.
LEMMA CallTypes ==
  ASSUME Parameters
  PROVE  /\ Idle \in Call /\ Idle.pc = "idle"
         /\ \A r \in Call, e \in Ids \cup {None} :
              /\ [r EXCEPT !.pc = "joining", !.ses = e] \in Call
              /\ [r EXCEPT !.pc = "opening", !.ses = e] \in Call
              /\ [r EXCEPT !.pc = "opened", !.ses = e] \in Call
         /\ \A k \in Channels, kd \in {"view", "talk", "prewarm"} : [Idle EXCEPT !.kind = kd, !.ch = k] \in Call
<1>1. Idle \in Call /\ Idle.pc = "idle"
  BY DEF Parameters, Idle, Call
<1>2. ASSUME NEW r \in Call, NEW e \in Ids \cup {None}
      PROVE  /\ [r EXCEPT !.pc = "joining", !.ses = e] \in Call
             /\ [r EXCEPT !.pc = "opening", !.ses = e] \in Call
             /\ [r EXCEPT !.pc = "opened", !.ses = e] \in Call
  BY <1>2 DEF Call
<1>3. ASSUME NEW k \in Channels, NEW kd \in {"view", "talk", "prewarm"}
      PROVE  [Idle EXCEPT !.kind = kd, !.ch = k] \in Call
  BY <1>1, <1>3 DEF Call
<1>4. QED
  BY <1>1, <1>2, <1>3

\* Lemma.  A recovery that runs as a call of its own is a call.
LEMMA RecoveryTypes ==
  ASSUME Parameters, NEW e \in Ids \cup {None}, NEW s \in Srcs \cup {None}
  PROVE  /\ [Idle EXCEPT !.kind = "drop", !.pc = "closing", !.ses = e] \in Call
         /\ [Idle EXCEPT !.kind = "drop", !.pc = "closing", !.ses = e].pc = "closing"
         /\ [Idle EXCEPT !.kind = "replace", !.pc = "closing", !.ses = e, !.src = s] \in Call
         /\ [Idle EXCEPT !.kind = "replace", !.pc = "closing", !.ses = e, !.src = s].pc = "closing"
<1>1. Idle \in Call
  BY CallTypes
<1>2. PICK i \in Call : i = Idle
  BY <1>1
<1>3. /\ [i EXCEPT !.kind = "drop", !.pc = "closing", !.ses = e] \in Call
      /\ [i EXCEPT !.kind = "drop", !.pc = "closing", !.ses = e].pc = "closing"
  BY DEF Call
<1>4. /\ [i EXCEPT !.kind = "replace", !.pc = "closing", !.ses = e, !.src = s] \in Call
      /\ [i EXCEPT !.kind = "replace", !.pc = "closing", !.ses = e, !.src = s].pc = "closing"
  BY DEF Call
<1>5. QED
  BY <1>2, <1>3, <1>4

\* Lemma.  A source that stopped, or was disposed, is a source.
LEMMA SourceTypes ==
  ASSUME PullsTyped, NEW s \in Srcs
  PROVE  /\ src[s] \in Source /\ Stopped(s) \in Source /\ Disposal(s) \in Source
         /\ Stopped(s).ch = src[s].ch /\ Stopped(s).disposed = src[s].disposed /\ Stopped(s).state = "stopped"
         /\ Disposal(s).ch = src[s].ch /\ Disposal(s).disposed /\ Disposal(s).state = "stopped"
<1>1. src[s] \in Source
  BY DEF PullsTyped
<1>2. /\ Stopped(s) \in Source /\ Stopped(s).ch = src[s].ch /\ Stopped(s).disposed = src[s].disposed
      /\ Stopped(s).state = "stopped"
  BY <1>1 DEF Stopped, Source
<1>3. QED
  BY <1>1, <1>2 DEF Disposal, Source

\* Lemma.  The users of a set of sources are as many as some number.
LEMMA UsersTypes ==
  ASSUME Parameters, NEW S \in SUBSET Srcs
  PROVE  Users(S) \in Nat
<1>1. IsFiniteSet(Srcs)
  BY FS_Interval DEF Parameters, Srcs
<1>2. IsFiniteSet({s \in S : Watching(s) # {}})
  BY <1>1, FS_Subset
<1>3. QED
  BY <1>2, FS_CardinalityType DEF Users

\* Lemma.  The entry a call is given is one of those there may be (entry()).
LEMMA SlotTypes ==
  ASSUME Parameters, SessionsTyped, HasRoom
  PROVE  Slot \in Ids /\ ent[Slot] \in Entry /\ (IF cur = None THEN issued + 1 ELSE issued) \in 0 .. MaxSessions
<1>1. Slot \in Ids
  BY DEF Parameters, SessionsTyped, HasRoom, Slot, Ids, None
<1>2. (IF cur = None THEN issued + 1 ELSE issued) \in 0 .. MaxSessions
  BY DEF Parameters, SessionsTyped, HasRoom
<1>3. QED
  BY <1>1, <1>2 DEF SessionsTyped

----------------------------------------------------------------------------
(* What the compound steps leave typed.                                    *)

\* Lemma.  openStation() gives the call another thing to wait for, and nothing
\* else to any call.
LEMMA OpenTypes ==
  ASSUME Parameters, SessionsTyped, CallsTyped, NEW c \in Callers, NEW r \in Call, NEW en \in Entry,
         OpenStation(c, r, en), UNCHANGED <<attached, silent>>
  PROVE  /\ SessionsTyped' /\ call' \in [Callers -> Call]
         /\ \E q \in Call : q.pc \in {"opening", "joining", "opened"} /\ call' = [call EXCEPT ![c] = q]
<1>0. Slot \in Ids /\ ent[Slot] \in Entry /\ issued' \in 0 .. MaxSessions /\ cur' = Slot
  BY SlotTypes DEF OpenStation
<1>1. ent' \in [Ids -> Entry]
  <2>1. \E n \in Entry : ent' = [ent EXCEPT ![Slot] = n]
    BY EntryTypes DEF OpenStation, OpeningStates
  <2>2. QED
    BY <1>0, <2>1 DEF SessionsTyped
<1>2. PICK q \in Call : q.pc \in {"opening", "joining", "opened"} /\ call' = [call EXCEPT ![c] = q]
  <2>1. \A e \in Ids \cup {None} :
          /\ [r EXCEPT !.pc = "joining", !.ses = e].pc = "joining"
          /\ [r EXCEPT !.pc = "opening", !.ses = e].pc = "opening"
          /\ [r EXCEPT !.pc = "opened", !.ses = e].pc = "opened"
    BY DEF Call
  <2>2. CASE en.opening # "none"
    BY <1>0, <2>1, <2>2, CallTypes DEF OpenStation
  <2>3. CASE en.opening = "none" /\ en.session # "none"
    BY <1>0, <2>1, <2>3, CallTypes DEF OpenStation
  <2>4. CASE en.opening = "none" /\ en.session = "none"
    BY <1>0, <2>1, <2>4, CallTypes DEF OpenStation
  <2>5. QED
    BY <2>2, <2>3, <2>4
<1>3. SessionsTyped'
  BY <1>0, <1>1 DEF SessionsTyped
<1>4. QED
  BY <1>2, <1>3 DEF CallsTyped

\* Lemma.  Calls that leave, and claims given up, keep their types.
LEMMA LeaveTypes ==
  ASSUME Parameters, CallsTyped, NEW C \in SUBSET Callers
  PROVE  /\ Leave(C) => call' \in [Callers -> Call]
         /\ Unclaimed(C) => claim' \in [Channels -> Callers \cup {Nobody}]
BY CallTypes DEF CallsTyped, Leave, Unclaimed

\* Lemma.  manager.close() of the station.
LEMMA CloseStationTypes ==
  ASSUME SessionsTyped, CloseStation
  PROVE  cur' = None /\ ent' \in [Ids -> Entry]
<1>1. CASE cur = None
  BY <1>1 DEF CloseStation, SessionsTyped
<1>2. CASE cur # None
  <2>1. cur \in Ids /\ ent[cur] \in Entry
    BY <1>2 DEF SessionsTyped
  <2>2. CloseSession(Forgotten(ent[cur])) \in Entry
    BY <2>1, EntryTypes
  <2>3. QED
    BY <1>2, <2>1, <2>2 DEF CloseStation, SessionsTyped
<1>3. QED
  BY <1>1, <1>2

\* Lemma.  The sources S are disposed and their keys forgotten.
LEMMA DisposeTypes ==
  ASSUME PullsTyped, NEW S \in SUBSET Srcs
  PROVE  /\ Disposed(S) => src' \in [Srcs -> Source]
         /\ Uncached(S) => cache' \in [Channels -> Srcs \cup {None}]
<1>1. Disposed(S) => src' \in [Srcs -> Source]
  BY SourceTypes DEF Disposed
<1>2. Uncached(S) => cache' \in [Channels -> Srcs \cup {None}]
  BY DEF PullsTyped, Uncached
<1>3. QED
  BY <1>1, <1>2

\* Lemma.  The sources of the map are sources.
LEMMA CachedTypes ==
  ASSUME PullsTyped
  PROVE  /\ Cached \in SUBSET Srcs
         /\ \A k \in Channels : /\ {cache[k]} \ {None} \in SUBSET Srcs
                                /\ Stale(k) \cup Lingering(k) \in SUBSET Srcs /\ Lingering(k) \in SUBSET Srcs
BY DEF PullsTyped, Cached, Stale, Lingering, Siblings

\* Lemma.  dropLiveSource() of S.
LEMMA DropTypes ==
  ASSUME Parameters, TypeOK, NEW S \in SUBSET Srcs, NEW c \in Callers, NEW r \in Call,
         DropThen(S, c, r), UNCHANGED <<attached, cur, issued, silent, made>>
  PROVE  TypeOK'
<1>0. SessionsTyped /\ PullsTyped /\ CallsTyped
  BY TypeParts
<1>1. SessionsTyped'
  <2>1. ent' \in [Ids -> Entry]
    BY <1>0, UsersTypes, ReleaseTypes DEF DropThen
  <2>2. QED
    BY <1>0, <2>1 DEF SessionsTyped
<1>2. PullsTyped'
  BY <1>0, DisposeTypes DEF DropThen, PullsTyped
<1>3. CallsTyped'
  <2>1. Left(S) \in SUBSET Callers
    BY DEF Left
  <2>2. claim' \in [Channels -> Callers \cup {Nobody}]
    BY <1>0, <2>1, LeaveTypes DEF DropThen
  <2>3. call' \in [Callers -> Call]
    BY <1>0, CallTypes DEF DropThen, CallsTyped
  <2>4. QED
    BY <2>2, <2>3 DEF CallsTyped
<1>4. QED
  BY <1>1, <1>2, <1>3 DEF TypeOK, SessionsTyped, PullsTyped, CallsTyped

\* Lemma.  tearDownStation().
LEMMA TearDownTypes ==
  ASSUME Parameters, TypeOK, NEW e \in Ids, NEW en \in Entry, TearDown(e, en), UNCHANGED attached
  PROVE  TypeOK'
<1>0. SessionsTyped /\ PullsTyped /\ CallsTyped
  BY TypeParts
<1>1. SessionsTyped'
  <2>1. Forgotten(en) \in Entry
    BY EntryTypes
  <2>2. QED
    BY <1>0, <2>1 DEF TearDown, SessionsTyped
<1>2. PullsTyped'
  <2>1. Cached \in SUBSET Srcs
    BY <1>0, CachedTypes
  <2>2. src' \in [Srcs -> Source]
    BY <1>0, <2>1, DisposeTypes DEF TearDown
  <2>3. QED
    BY <1>0, <2>2 DEF TearDown, PullsTyped
<1>3. CallsTyped'
  <2>1. Left(Cached) \in SUBSET Callers
    BY DEF Left
  <2>2. call' \in [Callers -> Call]
    BY <1>0, <2>1, LeaveTypes DEF TearDown
  <2>3. QED
    BY <2>2 DEF TearDown, CallsTyped
<1>4. QED
  BY <1>1, <1>2, <1>3 DEF TypeOK, SessionsTyped, PullsTyped, CallsTyped

----------------------------------------------------------------------------
(* The inductive invariant.                                                *)

\* A call holds a source that was made: a watched one is not disposed, and one
\* that is about to be attached to is disposed or still streams, or is new.
HandsOnSources ==
  \A c \in Callers : call[c].pc \in {"holding", "watching"} =>
    /\ call[c].src \in 1 .. made
    /\ call[c].pc = "watching" => ~src[call[c].src].disposed
    /\ call[c].pc = "holding" => src[call[c].src].disposed \/ src[call[c].src].state # "stopped"

\* A source is the one its key names until it is disposed.
KeysNameSources ==
  /\ \A s \in 1 .. made : ~src[s].disposed => cache[src[s].ch] = s
  /\ \A s \in Srcs : Streams(s) => s \in 1 .. made /\ ~src[s].disposed
  /\ \A k \in Channels : cache[k] # None => cache[k] \in 1 .. made /\ src[cache[k]].ch = k
  /\ \A s \in Srcs : s \notin 1 .. made => src[s].state = "idle"

\* A pull that somebody watches, or is about to.
Serving(s) == Streams(s) /\ Watching(s) # {}
Engaged(s) ==
  /\ ~src[s].disposed
  /\ Serving(s) \/ \E c \in Callers : call[c].pc = "holding" /\ call[c].src = s

OneChannel == attached => \A s, t \in 1 .. made : Engaged(s) /\ Engaged(t) => src[s].ch = src[t].ch

Reaches == HandsOnSources /\ KeysNameSources /\ OneChannel /\ TalkbackIsReachable
PullInv == TypeOK /\ Reaches

\* Lemma.  What the invariant is for: one camera at a time, no pull out of reach.
LEMMA PullInvImplies ==
  ASSUME Parameters, PullInv
  PROVE  OneCameraServed /\ NoOrphanPull /\ TalkbackIsReachable
<1>0. 1 .. made \in SUBSET Srcs
  BY DEF PullInv, TypeOK, Srcs, Parameters
<1>1. NoOrphanPull
  BY <1>0 DEF PullInv, Reaches, KeysNameSources, NoOrphanPull
<1>2. OneCameraServed
  BY <1>0 DEF PullInv, Reaches, KeysNameSources, OneChannel, Engaged, Serving, OneCameraServed
<1>3. QED
  BY <1>1, <1>2 DEF PullInv, Reaches

\* Lemma.  Whatever the map names was made.
LEMMA CachedMade ==
  ASSUME PullInv
  PROVE  Cached \in SUBSET (1 .. made)
BY DEF PullInv, Reaches, KeysNameSources, Cached

\* Lemma.  A step that drops some sources S with their watchers, and begins no
\* pull and puts no source into a hand, keeps everything reachable.
LEMMA ShrinkStep ==
  ASSUME Parameters, PullInv, TypeOK', NEW S \in SUBSET (1 .. made), UNCHANGED <<attached, made>>,
         \A s \in Srcs : /\ src'[s].ch = src[s].ch
                         /\ src'[s].disposed = (src[s].disposed \/ s \in S)
                         /\ Streams(s)' => s \notin S /\ (Streams(s) \/ (Watching(s) # {} /\ Watching(s)' = {}))
                         /\ src'[s].state = "stopped" => s \in S \/ src[s].state = "stopped" \/ Quiet
                         /\ s \notin 1 .. made => src'[s].state = src[s].state,
         \A k \in Channels : cache'[k] = IF cache[k] \in S THEN None ELSE cache[k],
         \A c \in Callers : call'[c].pc \in {"holding", "watching"} =>
                              /\ call'[c] = call[c]
                              /\ call[c].pc = "watching" => call[c].src \notin S,
         \A c \in Callers : call'[c].pc = "watching" /\ claim[call[c].ch] = c => claim'[call[c].ch] = c
  PROVE  Reaches'
<1>0. /\ made \in Nat /\ 1 .. made \in SUBSET Srcs /\ None \notin Srcs
      /\ \A s \in Srcs : src[s] \in Source /\ src'[s] \in Source
      /\ \A c \in Callers : call[c] \in Call /\ call'[c] \in Call
  BY DEF PullInv, TypeOK, Srcs, Parameters, None
<1>1. HandsOnSources'
  <2> SUFFICES ASSUME NEW c \in Callers, call'[c].pc \in {"holding", "watching"}
               PROVE  /\ call'[c].src \in 1 .. made'
                      /\ call'[c].pc = "watching" => ~src'[call'[c].src].disposed
                      /\ call'[c].pc = "holding" => src'[call'[c].src].disposed \/ src'[call'[c].src].state # "stopped"
    BY DEF HandsOnSources
  <2>1. call'[c] = call[c] /\ (call[c].pc = "watching" => call[c].src \notin S)
    OBVIOUS
  <2>2. /\ call[c].src \in 1 .. made
        /\ call[c].pc = "watching" => ~src[call[c].src].disposed
        /\ call[c].pc = "holding" => src[call[c].src].disposed \/ src[call[c].src].state # "stopped"
    BY <2>1 DEF PullInv, Reaches, HandsOnSources
  <2>3. call[c].src \in Srcs
    BY <2>2, <1>0
  <2>4. call[c].pc = "holding" => ~Quiet
    BY DEF Quiet
  <2>5. QED
    BY <2>1, <2>2, <2>3, <2>4
<1>2. KeysNameSources'
  <2>1. ASSUME NEW s \in 1 .. made', ~src'[s].disposed PROVE cache'[src'[s].ch] = s
    <3>1. s \in Srcs /\ s \in 1 .. made
      BY <1>0
    <3>2. ~src[s].disposed /\ s \notin S /\ src'[s].ch = src[s].ch
      BY <2>1, <3>1
    <3>3. cache[src[s].ch] = s /\ src[s].ch \in Channels
      BY <1>0, <3>1, <3>2 DEF PullInv, Reaches, KeysNameSources, Source
    <3>4. QED
      BY <3>2, <3>3
  <2>2. ASSUME NEW s \in Srcs, Streams(s)' PROVE s \in 1 .. made' /\ ~src'[s].disposed
    <3>1. s \notin S /\ (Streams(s) \/ Watching(s) # {})
      BY <2>2
    <3>2. s \in 1 .. made /\ ~src[s].disposed
      BY <3>1 DEF PullInv, Reaches, KeysNameSources, HandsOnSources, Watching
    <3>3. QED
      BY <3>1, <3>2
  <2>3. ASSUME NEW k \in Channels, cache'[k] # None PROVE cache'[k] \in 1 .. made' /\ src'[cache'[k]].ch = k
    <3>1. cache'[k] = cache[k]
      BY <2>3
    <3>2. cache[k] \in 1 .. made /\ src[cache[k]].ch = k
      BY <2>3, <3>1 DEF PullInv, Reaches, KeysNameSources
    <3>3. QED
      BY <1>0, <3>1, <3>2
  <2>4. ASSUME NEW s \in Srcs, s \notin 1 .. made' PROVE src'[s].state = "idle"
    BY <2>4 DEF PullInv, Reaches, KeysNameSources
  <2>5. QED
    BY <2>1, <2>2, <2>3, <2>4 DEF KeysNameSources
<1>3. OneChannel'
  <2>1. ASSUME NEW s \in 1 .. made, Engaged(s)' PROVE Engaged(s)
    <3>1. s \in Srcs
      BY <1>0
    <3>2. ~src[s].disposed
      BY <2>1, <3>1 DEF Engaged
    <3>3. ASSUME Serving(s)' PROVE Serving(s)
      <4>1. Watching(s)' \subseteq Watching(s)
        BY DEF Watching
      <4>2. QED
        BY <3>1, <3>3, <4>1 DEF Serving
    <3>4. ASSUME NEW c \in Callers, call'[c].pc = "holding", call'[c].src = s
          PROVE  call[c].pc = "holding" /\ call[c].src = s
      BY <3>4
    <3>5. QED
      BY <2>1, <3>2, <3>3, <3>4 DEF Engaged
  <2>2. QED
    BY <1>0, <2>1 DEF PullInv, Reaches, OneChannel
<1>4. TalkbackIsReachable'
  BY DEF PullInv, Reaches, TalkbackIsReachable
<1>5. QED
  BY <1>1, <1>2, <1>3, <1>4 DEF Reaches

\* Lemma.  A step of the calls and sessions alone, which puts no source into a
\* hand and takes no claim from one that talks.
LEMMA CallsAlone ==
  ASSUME Parameters, PullInv, TypeOK', UNCHANGED <<attached, pulls>>,
         \A c \in Callers : call'[c].pc \in {"holding", "watching"} => call'[c] = call[c],
         \A c \in Callers : call'[c].pc = "watching" /\ claim[call[c].ch] = c => claim'[call[c].ch] = c
  PROVE  PullInv'
<1>1. {} \in SUBSET (1 .. made)
  OBVIOUS
<1>2. \A s \in Srcs : src'[s].disposed \in BOOLEAN /\ (Streams(s)' => Streams(s))
  BY DEF TypeOK, Source, pulls, Streams
<1>3. \A s \in Srcs : src'[s].ch = src[s].ch /\ src'[s].disposed = (src[s].disposed \/ s \in {})
  BY <1>2 DEF pulls
<1>4. UNCHANGED <<attached, made, src, cache>>
  BY DEF pulls
<1>5. Reaches'
  BY <1>1, <1>2, <1>3, <1>4, ShrinkStep
<1>6. QED
  BY <1>5 DEF PullInv

\* Lemma.  One call goes on without a source in hand, and claims nothing that
\* another has.
LEMMA OneCallAlone ==
  ASSUME Parameters, PullInv, TypeOK', UNCHANGED <<attached, pulls, claim>>,
         NEW c \in Callers, NEW q \in Call, q.pc \notin {"holding", "watching"},
         call' = [call EXCEPT ![c] = q]
  PROVE  PullInv'
<1>1. \A x \in Callers : call'[x] = IF x = c THEN q ELSE call[x]
  BY DEF PullInv, TypeOK
<1>2. QED
  BY <1>1, CallsAlone

\* Lemma.  A call that throws, or leaves, gives its claim up with itself.
LEMMA ThrowStep ==
  ASSUME Parameters, PullInv, NEW c \in Callers, Throw(c)
  PROVE  PullInv'
<1>0. SessionsTyped /\ PullsTyped /\ CallsTyped
  BY TypeParts DEF PullInv
<1>1. TypeOK'
  <2>1. call' \in [Callers -> Call] /\ claim' \in [Channels -> Callers \cup {Nobody}]
    BY <1>0, LeaveTypes DEF Throw
  <2>2. QED
    BY <1>0, <2>1 DEF Throw, manager, pulls, TypeOK, SessionsTyped, PullsTyped
<1>2. \A x \in Callers : call'[x] = IF x = c THEN Idle ELSE call[x]
  BY DEF Throw, Leave
<1>3. \A x \in Callers : call[x].ch \in Channels
  BY <1>0 DEF CallsTyped, Call
<1>4. \A x \in Callers : x # c /\ claim[call[x].ch] = x => claim'[call[x].ch] = x
  BY <1>3 DEF Throw, Unclaimed
<1>5. Idle.pc = "idle"
  BY CallTypes
<1>6. UNCHANGED <<attached, pulls>>
  BY DEF Throw
<1>7. QED
  BY <1>1, <1>2, <1>4, <1>5, <1>6, CallsAlone

\* Lemma.  dropLiveSource() of S, as a call that watches nothing goes on.
LEMMA DropStep ==
  ASSUME Parameters, PullInv, NEW S \in SUBSET Cached, NEW c \in Callers, call[c].pc # "watching",
         NEW r \in Call, r.pc \notin {"holding", "watching"},
         DropThen(S, c, r), UNCHANGED <<attached, cur, issued, silent, made>>
  PROVE  PullInv'
<1>0. SessionsTyped /\ PullsTyped /\ CallsTyped
  BY TypeParts DEF PullInv
<1>a. S \in SUBSET (1 .. made) /\ S \in SUBSET Srcs
  BY <1>0, CachedTypes, CachedMade
<1>1. TypeOK'
  BY <1>a, DropTypes DEF PullInv
<1>2. \A s \in Srcs : /\ src'[s].ch = src[s].ch
                      /\ src'[s].disposed = (src[s].disposed \/ s \in S)
                      /\ Streams(s)' => s \notin S /\ Streams(s)
                      /\ src'[s].state = "stopped" => s \in S \/ src[s].state = "stopped"
                      /\ s \notin 1 .. made => src'[s].state = src[s].state
  <2> TAKE s \in Srcs
  <2>1. src'[s] = IF s \in S THEN Disposal(s) ELSE src[s]
    BY DEF DropThen, Disposed
  <2>2. CASE s \in S
    BY <1>0, <1>a, <2>1, <2>2, SourceTypes DEF Streams
  <2>3. CASE s \notin S
    BY <1>0, <2>1, <2>3, SourceTypes DEF Streams, Source
  <2>4. QED
    BY <2>2, <2>3
<1>3. \A k \in Channels : cache'[k] = IF cache[k] \in S THEN None ELSE cache[k]
  BY DEF DropThen, Uncached
<1>4. \A x \in Callers : call'[x] = IF x = c THEN r ELSE IF x \in Left(S) THEN Idle ELSE call[x]
  BY DEF DropThen
<1>5. \A x \in Callers : call'[x].pc \in {"holding", "watching"} =>
                           /\ x # c /\ x \notin Left(S) /\ call'[x] = call[x]
                           /\ call[x].pc = "watching" => call[x].src \notin S
  BY <1>4, CallTypes DEF Left
<1>6. \A x \in Callers : call[x].ch \in Channels
  BY <1>0 DEF CallsTyped, Call
<1>7. \A x \in Callers : x \notin Left(S) /\ claim[call[x].ch] = x => claim'[call[x].ch] = x
  BY <1>6 DEF DropThen, Unclaimed
<1>8. Reaches'
  BY <1>a, <1>1, <1>2, <1>3, <1>5, <1>7, ShrinkStep
<1>9. QED
  BY <1>1, <1>8 DEF PullInv

\* Lemma.  tearDownStation() leaves nobody watching and nothing claimed.
LEMMA TearDownStep ==
  ASSUME Parameters, PullInv, NEW e \in Ids, NEW en \in Entry, TearDown(e, en), UNCHANGED attached
  PROVE  PullInv'
<1>0. SessionsTyped /\ PullsTyped /\ CallsTyped
  BY TypeParts DEF PullInv
<1>1. TypeOK'
  BY TearDownTypes DEF PullInv
<1>2. Cached \in SUBSET (1 .. made)
  BY CachedMade
<1>3. \A s \in Srcs : /\ src'[s].ch = src[s].ch
                      /\ src'[s].disposed = (src[s].disposed \/ s \in Cached)
                      /\ Streams(s)' => s \notin Cached /\ Streams(s)
                      /\ src'[s].state = "stopped" => s \in Cached \/ src[s].state = "stopped"
                      /\ s \notin 1 .. made => src'[s].state = src[s].state
  <2> TAKE s \in Srcs
  <2>1. src'[s] = IF s \in Cached THEN Disposal(s) ELSE src[s]
    BY DEF TearDown, Disposed
  <2>2. CASE s \in Cached
    BY <1>0, <1>2, <2>1, <2>2, SourceTypes DEF Streams
  <2>3. CASE s \notin Cached
    BY <1>0, <2>1, <2>3, SourceTypes DEF Streams, Source
  <2>4. QED
    BY <2>2, <2>3
<1>4. \A k \in Channels : cache'[k] = IF cache[k] \in Cached THEN None ELSE cache[k]
  BY <1>0 DEF TearDown, Cached, PullsTyped
<1>5. \A x \in Callers : call'[x] = IF x \in Left(Cached) THEN Idle ELSE call[x]
  BY DEF TearDown, Leave
<1>6. \A x \in Callers : call'[x].pc \in {"holding", "watching"} =>
                           /\ call'[x] = call[x]
                           /\ call[x].pc = "watching" => call[x].src \notin Cached
  BY <1>5, CallTypes DEF Left
<1>7. \A x \in Callers : call'[x].pc # "watching"
  <2> SUFFICES ASSUME NEW x \in Callers, call'[x].pc = "watching" PROVE FALSE
    OBVIOUS
  <2>1. call[x].pc = "watching" /\ call[x].src \notin Cached
    BY <1>6
  <2>2. call[x].src \in 1 .. made /\ ~src[call[x].src].disposed
    BY <2>1 DEF PullInv, Reaches, HandsOnSources
  <2>3. cache[src[call[x].src].ch] = call[x].src
    BY <2>2 DEF PullInv, Reaches, KeysNameSources
  <2>4. 1 .. made \in SUBSET Srcs /\ None \notin Srcs
    BY <1>0 DEF PullsTyped, Srcs, None, Parameters
  <2>5. src[call[x].src].ch \in Channels
    BY <1>0, <2>2, <2>4 DEF PullsTyped, Source
  <2>6. QED
    BY <2>1, <2>2, <2>3, <2>4, <2>5 DEF Cached
<1>8. UNCHANGED made
  BY DEF TearDown
<1>9. Reaches'
  BY <1>1, <1>2, <1>3, <1>4, <1>6, <1>7, <1>8, ShrinkStep
<1>10. QED
  BY <1>1, <1>9 DEF PullInv

----------------------------------------------------------------------------
(* The steps of the sessions and the manager.                              *)

\* Lemma.  Only the entries change, and the silent sessions.
LEMMA EntriesAlone ==
  ASSUME Parameters, PullInv, ent' \in [Ids -> Entry], cur' \in Ids \cup {None}, silent' \subseteq Ids,
         UNCHANGED <<attached, issued, pulls, claim, call>>
  PROVE  PullInv'
<1>1. TypeOK'
  BY DEF PullInv, TypeOK, pulls
<1>2. QED
  BY <1>1, CallsAlone

\* Lemma.  A session connects, goes silent, fails or closes, under whatever the
\* calls and pulls are doing (SessionStep).
LEMMA SessionKeeps ==
  ASSUME Parameters, PullInv, NEW e \in 1 .. issued, SessionStep(e)
  PROVE  PullInv'
<1>0. /\ SessionsTyped /\ PullsTyped /\ CallsTyped
  BY TypeParts DEF PullInv
<1>a. e \in Ids /\ ent[e] \in Entry
  BY <1>0 DEF SessionsTyped, Ids, Parameters
<1>b. {"up", "closed", "dialing"} \in SUBSET SessionStates
  BY DEF SessionStates
<1>1. CASE Connects(e)
  <2>1. ent' \in [Ids -> Entry]
    BY <1>0, <1>1, <1>a, <1>b, EntryTypes DEF Connects, SessionsTyped
  <2>2. QED
    BY <1>0, <1>1, <2>1, EntriesAlone DEF Connects, SessionsTyped
<1>2. CASE PathGoesSilent(e)
  BY <1>0, <1>2, <1>a, EntriesAlone DEF PathGoesSilent, SessionsTyped, manager
<1>3. CASE SessionFails(e)
  <2>1. ent' \in [Ids -> Entry]
    BY <1>0, <1>3, <1>a, EntryTypes DEF SessionFails, SessionsTyped
  <2>2. QED
    BY <1>0, <1>3, <2>1, EntriesAlone DEF SessionFails, SessionsTyped
<1>4. CASE SocketCloses(e)
  <2>1. [ent[e] EXCEPT !.session = "closed"] \in Entry
    BY <1>a, <1>b, EntryTypes
  <2>2. CASE cur = e /\ TearDown(e, [ent[e] EXCEPT !.session = "closed"])
    BY <1>4, <1>a, <2>1, <2>2, TearDownStep DEF SocketCloses
  <2>3. CASE cur # e /\ ent' = [ent EXCEPT ![e] = [ent[e] EXCEPT !.session = "closed"]]
             /\ UNCHANGED <<cur, issued, silent, pulls, claim, call>>
    <3>1. ent' \in [Ids -> Entry]
      BY <1>0, <1>a, <2>1, <2>3 DEF SessionsTyped
    <3>2. QED
      BY <1>0, <1>4, <2>3, <3>1, EntriesAlone DEF SocketCloses, SessionsTyped
  <2>4. QED
    BY <1>4, <2>2, <2>3 DEF SocketCloses
<1>5. ASSUME NEW ok \in BOOLEAN, OpenSettles(e, ok) PROVE PullInv'
  <2> DEFINE waits(c) == call[c].pc \in {"opening", "joining"} /\ call[c].ses = e
             fails(c) == waits(c) /\ (~ok \/ (call[c].pc = "opening" /\ cur # e))
             F == {c \in Callers : fails(c)}
  <2>1. UNCHANGED <<attached, cur, issued, silent, pulls>>
    BY <1>5 DEF OpenSettles
  <2>2. \A c \in Callers : call'[c] = IF fails(c) THEN Idle
                                      ELSE IF waits(c) THEN [call[c] EXCEPT !.pc = "opened", !.ses = None]
                                      ELSE call[c]
    BY <1>5 DEF OpenSettles
  <2>3. \A c \in Callers : call[c] \in Call /\ call[c].ch \in Channels
    BY <1>0 DEF CallsTyped, Call
  <2>4. \A c \in Callers : call'[c] \in Call
    <3>1. \A c \in Callers : [call[c] EXCEPT !.pc = "opened", !.ses = None] \in Call
      BY <2>3, CallTypes
    <3>2. QED
      BY <2>2, <2>3, <3>1, CallTypes
  <2>5. call' \in [Callers -> Call]
    BY <1>5, <2>4 DEF OpenSettles
  <2>6. claim' \in [Channels -> Callers \cup {Nobody}]
    BY <1>0, <1>5, LeaveTypes DEF OpenSettles
  <2>7. ent' \in [Ids -> Entry]
    <3> DEFINE x == IF ok THEN (IF cur = e THEN "dialing" ELSE "closed") ELSE ent[e].session
    <3>1. x \in SessionStates
      BY <1>a, <1>b DEF Entry
    <3>2. [ent[e] EXCEPT !.opening = "none", !.session = x] \in Entry
      BY <1>a, <3>1, EntryTypes
    <3>3. ent' = [ent EXCEPT ![e] = [ent[e] EXCEPT !.opening = "none", !.session = x]]
      BY <1>0, <1>5, <1>a DEF OpenSettles, SessionsTyped, Entry
    <3>4. QED
      BY <1>0, <1>a, <3>2, <3>3 DEF SessionsTyped
  <2>8. TypeOK'
    BY <1>0, <2>1, <2>5, <2>6, <2>7 DEF TypeOK, SessionsTyped, PullsTyped, pulls
  <2>9. \A c \in Callers : call'[c].pc \in {"holding", "watching"} => call'[c] = call[c] /\ c \notin F
    <3>1. \A c \in Callers : [call[c] EXCEPT !.pc = "opened", !.ses = None].pc = "opened"
      BY <2>3 DEF Call
    <3>2. QED
      BY <2>2, <3>1, CallTypes
  <2>10. \A c \in Callers : c \notin F /\ claim[call[c].ch] = c => claim'[call[c].ch] = c
    BY <1>5, <2>3 DEF OpenSettles, Unclaimed
  <2>11. QED
    BY <2>1, <2>8, <2>9, <2>10, CallsAlone
<1>6. QED
  BY <1>1, <1>2, <1>3, <1>4, <1>5 DEF SessionStep

\* Lemma.  The timers of the manager, and the shutdown.
LEMMA ManagerKeeps ==
  ASSUME Parameters, PullInv, HoldExpires \/ IdleFires \/ CloseAll
  PROVE  PullInv'
<1>0. SessionsTyped /\ PullsTyped /\ CallsTyped
  BY TypeParts DEF PullInv
<1>a. cur # None => cur \in Ids /\ ent[cur] \in Entry
  BY <1>0 DEF SessionsTyped
<1>1. CASE HoldExpires
  <2>1. ReleasedTimes(HoldFired(ent[cur]), 1) \in Entry
    BY <1>0, <1>1, <1>a, EntryTypes, ReleaseTypes DEF HoldExpires
  <2>2. ent' \in [Ids -> Entry]
    BY <1>0, <1>1, <1>a, <2>1 DEF HoldExpires, SessionsTyped
  <2>3. QED
    BY <1>0, <1>1, <2>2, EntriesAlone DEF HoldExpires, SessionsTyped
<1>2. CASE IdleFires
  <2>1. CASE ent[cur].session = "none"
    BY <1>0, <1>2, <2>1, CloseStationTypes, EntriesAlone DEF IdleFires, SessionsTyped
  <2>2. CASE ent[cur].session # "none"
    BY <1>2, <1>a, <2>2, EntryTypes, TearDownStep DEF IdleFires
  <2>3. QED
    BY <2>1, <2>2
<1>3. CASE CloseAll
  BY <1>3, <1>a, EntryTypes, TearDownStep DEF CloseAll
<1>4. QED
  BY <1>1, <1>2, <1>3

----------------------------------------------------------------------------
(* The steps of a call.                                                    *)

\* Lemma.  A call begins, resolves its session and opens another, with no
\* source in hand (resolveSession).
LEMMA ResolveKeeps ==
  ASSUME Parameters, PullInv, NEW c \in Callers,
         \/ \E kind \in {"view", "talk"} : \E k \in Cameras : Begin(c, kind, k)
         \/ Begin(c, "prewarm", Own)
         \/ Resolve(c) \/ Reopen(c)
  PROVE  PullInv'
<1>0. SessionsTyped /\ PullsTyped /\ CallsTyped /\ call[c] \in Call /\ Own \in Channels
  BY TypeParts DEF PullInv, CallsTyped, Parameters
<1>1. ASSUME NEW r \in Call, NEW en \in Entry, OpenStation(c, r, en), UNCHANGED <<attached, silent, pulls, claim>>
      PROVE  PullInv'
  <2>1. /\ SessionsTyped' /\ call' \in [Callers -> Call]
        /\ \E q \in Call : q.pc \in {"opening", "joining", "opened"} /\ call' = [call EXCEPT ![c] = q]
    BY <1>0, <1>1, OpenTypes
  <2>2. TypeOK'
    BY <1>0, <1>1, <2>1 DEF TypeOK, SessionsTyped, PullsTyped, CallsTyped, pulls
  <2>3. QED
    BY <1>1, <2>1, <2>2, OneCallAlone
<1>2. ASSUME HasRoom PROVE ent[Slot] \in Entry /\ Hold(ent[Slot]) \in Entry
  BY <1>0, <1>2, SlotTypes, EntryTypes
<1>3. ASSUME NEW kind \in {"view", "talk", "prewarm"}, NEW k \in Channels, Begin(c, kind, k)
      PROVE  PullInv'
  <2>1. [Idle EXCEPT !.kind = kind, !.ch = k] \in Call
    BY CallTypes
  <2>2. HasRoom
    BY <1>3 DEF Begin, OpenStation
  <2>3. QED
    BY <1>1, <1>2, <1>3, <2>1, <2>2 DEF Begin
<1>4. CASE Reopen(c)
  <2>1. HasRoom
    BY <1>4 DEF Reopen, OpenStation
  <2>2. QED
    BY <1>0, <1>1, <1>2, <1>4, <2>1 DEF Reopen
<1>5. CASE Resolve(c)
  <2>0. cur \in Ids /\ ent[cur] \in Entry
    BY <1>0, <1>5 DEF Resolve, HasSession, SessionsTyped
  <2>1. CASE CloseStation /\ call' = [call EXCEPT ![c].pc = "closing", ![c].ses = cur, ![c].rebuilt = TRUE]
    <3> DEFINE q == [call[c] EXCEPT !.pc = "closing", !.ses = cur, !.rebuilt = TRUE]
    <3>1. q \in Call /\ q.pc = "closing"
      BY <1>0, <2>0 DEF Call
    <3>2. call' = [call EXCEPT ![c] = q]
      BY <2>1, <1>0 DEF CallsTyped
    <3> HIDE DEF q
    <3>3. cur' = None /\ ent' \in [Ids -> Entry]
      BY <1>0, <2>1, CloseStationTypes
    <3>4. UNCHANGED <<attached, issued, silent, pulls, claim>>
      BY <1>5 DEF Resolve
    <3>5. TypeOK'
      BY <1>0, <3>1, <3>2, <3>3, <3>4 DEF TypeOK, SessionsTyped, PullsTyped, CallsTyped, pulls
    <3>6. QED
      BY <3>1, <3>2, <3>4, <3>5, OneCallAlone
  <2>2. CASE /\ ent' = [ent EXCEPT ![cur] = Hold(ent[cur])] /\ cur' = cur
             /\ call' = [call EXCEPT ![c].pc = "waiting", ![c].ses = cur, ![c].rebuilt = FALSE]
    <3> DEFINE q == [call[c] EXCEPT !.pc = "waiting", !.ses = cur, !.rebuilt = FALSE]
    <3>1. q \in Call /\ q.pc = "waiting"
      BY <1>0, <2>0 DEF Call
    <3>2. call' = [call EXCEPT ![c] = q]
      BY <2>2, <1>0 DEF CallsTyped
    <3> HIDE DEF q
    <3>3. cur' = cur /\ ent' \in [Ids -> Entry]
      BY <1>0, <2>0, <2>2, EntryTypes DEF SessionsTyped
    <3>4. UNCHANGED <<attached, issued, silent, pulls, claim>>
      BY <1>5 DEF Resolve
    <3>5. TypeOK'
      BY <1>0, <3>1, <3>2, <3>3, <3>4 DEF TypeOK, SessionsTyped, PullsTyped, CallsTyped, pulls
    <3>6. QED
      BY <3>1, <3>2, <3>4, <3>5, OneCallAlone
  <2>3. QED
    BY <1>5, <2>1, <2>2 DEF Resolve
<1>6. QED
  BY <1>0, <1>3, <1>4, <1>5 DEF Cameras

\* Lemma.  A talkback claims its channel where nobody talks, before it awaits.
LEMMA ClaimKeeps ==
  ASSUME Parameters, PullInv, NEW c \in Callers, TalkbackClaims(c)
  PROVE  PullInv'
<1>0. SessionsTyped /\ PullsTyped /\ CallsTyped /\ \A x \in Callers : call[x] \in Call /\ call[x].ch \in Channels
  BY TypeParts DEF PullInv, CallsTyped, Call
<1>1. [call[c] EXCEPT !.kind = "talking", !.rebuilt = FALSE] \in Call
  BY <1>0 DEF Call
<1>2. ent[Slot] \in Entry
  BY <1>0, SlotTypes DEF TalkbackClaims, OpenStation
<1>3. UNCHANGED <<attached, silent, pulls>>
  BY DEF TalkbackClaims
<1>4. PICK q \in Call : /\ SessionsTyped' /\ call' \in [Callers -> Call]
                        /\ q.pc \in {"opening", "joining", "opened"} /\ call' = [call EXCEPT ![c] = q]
  BY <1>0, <1>1, <1>2, <1>3, OpenTypes DEF TalkbackClaims
<1>5. claim' = [claim EXCEPT ![call[c].ch] = c] /\ claim[call[c].ch] = Nobody
  BY DEF TalkbackClaims, NotTalking
<1>6. TypeOK'
  BY <1>0, <1>3, <1>4, <1>5 DEF TypeOK, SessionsTyped, PullsTyped, CallsTyped, pulls
<1>7. \A x \in Callers : call'[x] = IF x = c THEN q ELSE call[x]
  BY <1>0, <1>4 DEF CallsTyped
<1>8. \A x \in Callers : claim[call[x].ch] = x => claim'[call[x].ch] = x
  BY <1>0, <1>5 DEF Parameters, CallsTyped
<1>9. QED
  BY <1>3, <1>4, <1>6, <1>7, <1>8, CallsAlone

\* Lemma.  A consumer leaves; the last one lets the pull linger (detach).
LEMMA DetachKeeps ==
  ASSUME Parameters, PullInv, NEW c \in Callers, Detach(c)
  PROVE  PullInv'
<1>0. SessionsTyped /\ PullsTyped /\ CallsTyped /\ \A x \in Callers : call[x].ch \in Channels
  BY TypeParts DEF PullInv, CallsTyped, Call
<1>a. call[c].pc = "watching" /\ call[c].src \in 1 .. made
  BY DEF PullInv, Reaches, HandsOnSources, Detach
<1>b. PICK s \in 1 .. made : s = call[c].src
  BY <1>a
<1>1. s \in 1 .. made /\ s \in Srcs /\ src[s] \in Source
  BY <1>0, <1>b DEF PullsTyped, Srcs, Parameters
<1>2. UNCHANGED <<attached, cur, issued, silent, made, cache>>
  BY DEF Detach
<1>3. call' \in [Callers -> Call] /\ claim' \in [Channels -> Callers \cup {Nobody}]
  BY <1>0, LeaveTypes DEF Detach
<1>4. \A x \in Callers : call'[x] = IF x = c THEN Idle ELSE call[x]
  BY DEF Detach, Leave
<1>5. \A x \in Callers : x # c /\ claim[call[x].ch] = x => claim'[call[x].ch] = x
  BY <1>0 DEF Detach, Unclaimed
<1>6. /\ ent' \in [Ids -> Entry] /\ src' \in [Srcs -> Source]
      /\ \A t \in Srcs : /\ src'[t].ch = src[t].ch /\ src'[t].disposed = src[t].disposed
                         /\ src'[t].state = src[t].state \/ (t = s /\ Watching(s) = {c} /\ src'[t].state = "lingering")
  <2>1. CASE Watching(s) = {c}
    <3>1. ent' \in [Ids -> Entry]
      BY <1>0, <1>b, <2>1, ReleaseTypes DEF Detach
    <3>2. src' = [src EXCEPT ![s].state = "lingering"]
      BY <1>b, <2>1 DEF Detach
    <3>3. PICK n \in Source : n = [src[s] EXCEPT !.state = "lingering"]
      BY <1>1 DEF Source
    <3>4. n.ch = src[s].ch /\ n.disposed = src[s].disposed /\ n.state = "lingering"
      BY <1>1, <3>3 DEF Source
    <3>5. src' = [src EXCEPT ![s] = n]
      BY <3>2, <3>3
    <3>6. QED
      BY <1>0, <1>1, <2>1, <3>1, <3>4, <3>5 DEF PullsTyped
  <2>2. CASE Watching(s) # {c}
    BY <1>0, <1>b, <2>2 DEF Detach, SessionsTyped, PullsTyped
  <2>3. QED
    BY <2>1, <2>2
<1>7. TypeOK'
  BY <1>0, <1>2, <1>3, <1>6 DEF TypeOK, SessionsTyped, PullsTyped
<1>8. \A t \in Srcs : Streams(t)' => Streams(t) \/ (Watching(t) # {} /\ Watching(t)' = {})
  <2> SUFFICES ASSUME NEW t \in Srcs, Streams(t)', ~Streams(t) PROVE Watching(t) # {} /\ Watching(t)' = {}
    OBVIOUS
  <2>1. t = s /\ Watching(s) = {c}
    BY <1>6 DEF Streams
  <2>2. Watching(s)' = {}
    BY <1>4, <2>1, CallTypes DEF Watching
  <2>3. QED
    BY <2>1, <2>2
<1>9. \A x \in Callers : call'[x].pc \in {"holding", "watching"} => x # c /\ call'[x] = call[x]
  BY <1>4, CallTypes
<1>10. {} \in SUBSET (1 .. made)
  OBVIOUS
<1>11. \A t \in Srcs : src'[t].disposed \in BOOLEAN /\ src[t].disposed \in BOOLEAN
  BY <1>0, <1>6 DEF PullsTyped, Source
<1>12. \A t \in Srcs : /\ src'[t].ch = src[t].ch
                       /\ src'[t].disposed = (src[t].disposed \/ t \in {})
                       /\ src'[t].state = "stopped" => src[t].state = "stopped"
                       /\ t \notin 1 .. made => src'[t].state = src[t].state
  BY <1>1, <1>6, <1>11
<1>13. Reaches'
  BY <1>2, <1>5, <1>7, <1>8, <1>9, <1>10, <1>12, ShrinkStep
<1>14. QED
  BY <1>7, <1>13 DEF PullInv

\* Lemma.  One source of those made moves without starting to stream, and no
\* call acquires anything (the events of a pull, under Quiet where it stops).
LEMMA OneSource ==
  ASSUME Parameters, PullInv, TypeOK', NEW s \in 1 .. made, NEW n \in Source,
         src' = [src EXCEPT ![s] = n], n.ch = src[s].ch, n.disposed = src[s].disposed,
         n.state \in {"warming", "live", "lingering"} => Streams(s),
         n.state = "stopped" => src[s].state = "stopped" \/ Quiet,
         UNCHANGED <<attached, made, cache, claim>>,
         \A c \in Callers : call'[c].pc \in {"holding", "watching"} => call'[c] = call[c]
  PROVE  PullInv'
<1>1. s \in Srcs /\ {} \in SUBSET (1 .. made)
  BY DEF PullInv, TypeOK, Srcs, Parameters
<1>2. \A t \in Srcs : src'[t] = IF t = s THEN n ELSE src[t]
  BY <1>1 DEF PullInv, TypeOK
<1>3. \A t \in Srcs : src[t].disposed \in BOOLEAN
  BY DEF PullInv, TypeOK, Source
<1>4. \A t \in Srcs : /\ src'[t].ch = src[t].ch
                      /\ src'[t].disposed = (src[t].disposed \/ t \in {})
                      /\ Streams(t)' => Streams(t)
                      /\ src'[t].state = "stopped" => src[t].state = "stopped" \/ Quiet
                      /\ t \notin 1 .. made => src'[t].state = src[t].state
  BY <1>2, <1>3 DEF Streams
<1>5. Reaches'
  BY <1>1, <1>4, ShrinkStep
<1>6. QED
  BY <1>5 DEF PullInv

\* Lemma.  The first keyframe, the stop of a pull, and the two recoveries a
\* source asks for (onLiveStartFailed, onSessionUnreachable).
LEMMA SourceKeeps ==
  ASSUME Parameters, PullInv, Quiet, NEW s \in 1 .. made, SourceStep(s)
  PROVE  PullInv'
<1>0. SessionsTyped /\ PullsTyped /\ CallsTyped
  BY TypeParts DEF PullInv
<1>a. s \in Srcs /\ src[s] \in Source
  BY <1>0 DEF PullsTyped, Srcs, Parameters
<1>b. /\ Stopped(s) \in Source /\ Stopped(s).ch = src[s].ch /\ Stopped(s).disposed = src[s].disposed
      /\ Stopped(s).state = "stopped"
  BY <1>0, <1>a, SourceTypes
<1>1. CASE FirstKeyframe(s)
  <2>1. PICK n \in Source : n = [src[s] EXCEPT !.state = "live", !.shown = TRUE]
    BY <1>a DEF Source
  <2>2. n.ch = src[s].ch /\ n.disposed = src[s].disposed /\ n.state = "live"
    BY <1>a, <2>1 DEF Source
  <2>3. src' = [src EXCEPT ![s] = n] /\ Streams(s)
    BY <1>0, <1>1, <1>a, <2>1 DEF FirstKeyframe, Streams, PullsTyped
  <2>4. UNCHANGED <<attached, cur, ent, issued, silent, made, cache, claim, call>>
    BY <1>1 DEF FirstKeyframe, manager
  <2>5. TypeOK'
    BY <1>0, <1>a, <2>3, <2>4 DEF TypeOK, SessionsTyped, PullsTyped, CallsTyped
  <2>6. QED
    BY <2>2, <2>3, <2>4, <2>5, OneSource
<1>2. CASE PullStops(s)
  <2>1. src' = [src EXCEPT ![s] = Stopped(s)] /\ UNCHANGED <<attached, cur, ent, issued, silent, made, cache, claim, call>>
    BY <1>2 DEF PullStops, manager
  <2>2. TypeOK'
    BY <1>0, <1>a, <1>b, <2>1 DEF TypeOK, SessionsTyped, PullsTyped, CallsTyped
  <2>3. QED
    BY <1>b, <2>1, <2>2, OneSource
<1>3. ASSUME NEW c \in Callers, StartFailsOwn(s, c) PROVE PullInv'
  <2> DEFINE q == [Idle EXCEPT !.kind = "drop", !.pc = "closing", !.ses = cur]
  <2>1. q \in Call /\ q.pc = "closing"
    <3>1. cur \in Ids \cup {None}
      BY <1>0 DEF SessionsTyped
    <3>2. QED
      BY <3>1, RecoveryTypes
  <2>2. call' = [call EXCEPT ![c] = q] /\ src' = [src EXCEPT ![s] = Stopped(s)] /\ CloseStation
        /\ UNCHANGED <<attached, issued, silent, made, cache, claim>>
    BY <1>3 DEF StartFailsOwn
  <2> HIDE DEF q
  <2>3. TypeOK'
    BY <1>0, <1>a, <1>b, <2>1, <2>2, CloseStationTypes DEF TypeOK, SessionsTyped, PullsTyped, CallsTyped
  <2>4. \A x \in Callers : call'[x].pc \in {"holding", "watching"} => call'[x] = call[x]
    BY <1>0, <2>1, <2>2 DEF CallsTyped
  <2>5. QED
    BY <1>b, <2>2, <2>3, <2>4, OneSource
<1>4. ASSUME NEW c \in Callers, Unacknowledged(s, c) PROVE PullInv'
  <2> DEFINE q == [Idle EXCEPT !.kind = "replace", !.pc = "closing", !.ses = cur, !.src = s]
  <2>1. q \in Call /\ q.pc = "closing"
    <3>1. cur \in Ids \cup {None} /\ s \in Srcs \cup {None}
      BY <1>0, <1>a DEF SessionsTyped
    <3>2. QED
      BY <3>1, RecoveryTypes
  <2>2. PICK n \in Source : n = [src[s] EXCEPT !.asked = TRUE]
    BY <1>a DEF Source
  <2>3. n.ch = src[s].ch /\ n.disposed = src[s].disposed /\ n.state = src[s].state
    BY <1>a, <2>2 DEF Source
  <2>4. call' = [call EXCEPT ![c] = q] /\ src' = [src EXCEPT ![s] = n] /\ CloseStation
        /\ UNCHANGED <<attached, issued, silent, made, cache, claim>>
    BY <1>4, <2>2 DEF Unacknowledged
  <2> HIDE DEF q
  <2>5. TypeOK'
    BY <1>0, <1>a, <2>1, <2>4, CloseStationTypes DEF TypeOK, SessionsTyped, PullsTyped, CallsTyped
  <2>6. \A x \in Callers : call'[x].pc \in {"holding", "watching"} => call'[x] = call[x]
    BY <1>0, <2>1, <2>4 DEF CallsTyped
  <2>7. QED
    BY <2>3, <2>4, <2>5, <2>6, OneSource DEF Streams
<1>5. CASE StartFailsAttached(s)
  <2> DEFINE S == {cache[src[s].ch]} \ {None}
  <2>0. src[s].ch \in Channels
    BY <1>a DEF Source
  <2>1. S \in SUBSET Srcs /\ S \in SUBSET Cached /\ S \in SUBSET (1 .. made)
    BY <1>0, <2>0, CachedTypes, CachedMade DEF Cached
  <2>2. /\ src' = [x \in Srcs |-> IF x \in S THEN Disposal(x) ELSE IF x = s THEN Stopped(x) ELSE src[x]]
        /\ Uncached(S) /\ Release(Users(S)) /\ Unclaimed(Left(S)) /\ Leave(Left(S))
        /\ UNCHANGED <<attached, cur, issued, silent, made>>
    BY <1>5 DEF StartFailsAttached
  <2> HIDE DEF S
  <2>3. Left(S) \in SUBSET Callers
    BY DEF Left
  <2>4. TypeOK'
    <3>1. src' \in [Srcs -> Source]
      BY <1>0, <2>2, SourceTypes
    <3>2. cache' \in [Channels -> Srcs \cup {None}]
      BY <1>0, <2>1, <2>2, DisposeTypes
    <3>3. ent' \in [Ids -> Entry]
      BY <1>0, <2>1, <2>2, UsersTypes, ReleaseTypes
    <3>4. call' \in [Callers -> Call] /\ claim' \in [Channels -> Callers \cup {Nobody}]
      BY <1>0, <2>2, <2>3, LeaveTypes
    <3>5. QED
      BY <1>0, <2>2, <3>1, <3>2, <3>3, <3>4 DEF TypeOK, SessionsTyped, PullsTyped
  <2>5. \A t \in Srcs : /\ src'[t].ch = src[t].ch
                        /\ src'[t].disposed = (src[t].disposed \/ t \in S)
                        /\ Streams(t)' => t \notin S /\ Streams(t)
                        /\ t \notin 1 .. made => src'[t].state = src[t].state
    <3> TAKE t \in Srcs
    <3>1. src'[t] = IF t \in S THEN Disposal(t) ELSE IF t = s THEN Stopped(t) ELSE src[t]
      BY <2>2
    <3>2. CASE t \in S
      BY <1>0, <2>1, <3>1, <3>2, SourceTypes DEF Streams
    <3>3. CASE t \notin S /\ t = s
      BY <1>0, <1>a, <3>1, <3>3, SourceTypes DEF Streams, Source
    <3>4. CASE t \notin S /\ t # s
      BY <1>0, <3>1, <3>4, SourceTypes DEF Streams, Source
    <3>5. QED
      BY <3>2, <3>3, <3>4
  <2>6. \A k \in Channels : cache'[k] = IF cache[k] \in S THEN None ELSE cache[k]
    BY <2>2 DEF Uncached
  <2>7. \A x \in Callers : call'[x] = IF x \in Left(S) THEN Idle ELSE call[x]
    BY <2>2 DEF Leave
  <2>8. \A x \in Callers : call'[x].pc \in {"holding", "watching"} =>
                             /\ x \notin Left(S) /\ call'[x] = call[x]
                             /\ call[x].pc = "watching" => call[x].src \notin S
    BY <2>7, CallTypes DEF Left
  <2>9. \A x \in Callers : call[x].ch \in Channels
    BY <1>0 DEF CallsTyped, Call
  <2>10. \A x \in Callers : x \notin Left(S) /\ claim[call[x].ch] = x => claim'[call[x].ch] = x
    BY <2>2, <2>9 DEF Unclaimed
  <2>11. Reaches'
    BY <2>1, <2>2, <2>4, <2>5, <2>6, <2>8, <2>10, ShrinkStep
  <2>12. QED
    BY <2>4, <2>11 DEF PullInv
<1>6. QED
  BY <1>1, <1>2, <1>3, <1>4, <1>5 DEF SourceStep

----------------------------------------------------------------------------
(* Acquiring a source and attaching to it.                                 *)

\* Lemma.  The call c leaves its acquisition with the source n of its channel,
\* found or built, where no sibling is being served; what lingers elsewhere is
\* dropped, so nothing else is engaged (sharedLiveSourceFor).
LEMMA AcquireStep ==
  ASSUME Parameters, PullInv, TypeOK', NEW c \in Callers, call[c].pc = "waiting",
         NEW k \in Channels, k = call[c].ch, ~(attached /\ Occupied(k)),
         NEW S \in SUBSET (1 .. made), Lingering(k) \subseteq S,
         NEW n \in 1 .. made', n \notin S, 1 .. made' = 1 .. made \cup {n},
         n \in 1 .. made => src'[n] = src[n],
         src'[n].ch = k, src'[n].state # "stopped", src'[n].state = src[n].state,
         cache[k] \in S \cup {None, n},
         \A s \in Srcs \ {n} : src'[s] = IF s \in S THEN Disposal(s) ELSE src[s],
         \A j \in Channels : cache'[j] = IF j = k THEN n ELSE IF cache[j] \in S THEN None ELSE cache[j],
         \A x \in Callers : call'[x] = IF x = c THEN Holding(c, n)
                                       ELSE IF x \in Left(S) THEN Idle ELSE call[x],
         Unclaimed(Left(S)), UNCHANGED attached
  PROVE  PullInv'
<1>0. SessionsTyped /\ PullsTyped /\ CallsTyped
  BY TypeParts DEF PullInv
<1>a. /\ 1 .. made \in SUBSET Srcs /\ 1 .. made' \in SUBSET Srcs /\ None \notin Srcs
      /\ \A s \in Srcs : src[s] \in Source
      /\ \A x \in Callers : call[x] \in Call /\ call[x].ch \in Channels
  BY <1>0 DEF PullsTyped, CallsTyped, Call, Srcs, None, Parameters, TypeOK
<1>b. \A s \in S : src'[s].disposed /\ src'[s].state = "stopped"
  BY <1>0, <1>a, SourceTypes
<1>c. Holding(c, n).pc = "holding" /\ Holding(c, n).src = n
  BY <1>a DEF Holding, Call
<1>d. \A x \in Callers : call'[x].pc \in {"holding", "watching"} =>
        \/ x = c /\ call'[x].pc = "holding" /\ call'[x].src = n
        \/ /\ x # c /\ x \notin Left(S) /\ call'[x] = call[x]
           /\ call[x].pc = "watching" => call[x].src \notin S
  BY <1>c, CallTypes DEF Left
<1>1. HandsOnSources'
  <2> SUFFICES ASSUME NEW x \in Callers, call'[x].pc \in {"holding", "watching"}
               PROVE  /\ call'[x].src \in 1 .. made'
                      /\ call'[x].pc = "watching" => ~src'[call'[x].src].disposed
                      /\ call'[x].pc = "holding" => src'[call'[x].src].disposed \/ src'[call'[x].src].state # "stopped"
    BY DEF HandsOnSources
  <2>1. CASE x = c
    BY <1>d, <2>1
  <2>2. CASE x # c
    <3>1. call'[x] = call[x] /\ (call[x].pc = "watching" => call[x].src \notin S)
      BY <1>d, <2>2
    <3>2. /\ call[x].src \in 1 .. made
          /\ call[x].pc = "watching" => ~src[call[x].src].disposed
          /\ call[x].pc = "holding" => src[call[x].src].disposed \/ src[call[x].src].state # "stopped"
      BY <3>1 DEF PullInv, Reaches, HandsOnSources
    <3>3. PICK y \in 1 .. made : y = call[x].src
      BY <3>2
    <3>4. CASE y \in S
      BY <1>b, <3>1, <3>2, <3>3, <3>4
    <3>5. CASE y \notin S
      <4>1. src'[y] = src[y]
        BY <1>a, <3>5
      <4>2. QED
        BY <3>1, <3>2, <3>3, <4>1
    <3>6. QED
      BY <3>4, <3>5
  <2>3. QED
    BY <2>1, <2>2
<1>2. ASSUME NEW s \in 1 .. made', s # n, ~src'[s].disposed
      PROVE  /\ s \in 1 .. made /\ s \notin S /\ src'[s] = src[s] /\ ~src[s].disposed
             /\ cache[src[s].ch] = s /\ src[s].ch \in Channels /\ src[s].ch # k
  <2>1. s \in 1 .. made /\ s \in Srcs
    BY <1>2, <1>a
  <2>2. s \notin S
    BY <1>2, <1>b
  <2>3. src'[s] = src[s]
    BY <1>2, <2>1, <2>2
  <2>4. cache[src[s].ch] = s /\ src[s].ch \in Channels
    BY <1>2, <1>a, <2>1, <2>3 DEF PullInv, Reaches, KeysNameSources, Source
  <2>5. QED
    BY <1>2, <1>a, <2>1, <2>2, <2>3, <2>4
<1>3. ASSUME NEW s \in Srcs, s # n, Streams(s)' PROVE s \notin S /\ src'[s] = src[s] /\ Streams(s)
  BY <1>3, <1>b DEF Streams
<1>4. KeysNameSources'
  <2>1. ASSUME NEW s \in 1 .. made', ~src'[s].disposed PROVE cache'[src'[s].ch] = s
    <3>1. CASE s = n
      BY <3>1
    <3>2. CASE s # n
      <4>1. /\ s \in 1 .. made /\ s \notin S /\ src'[s] = src[s]
            /\ cache[src[s].ch] = s /\ src[s].ch \in Channels /\ src[s].ch # k
        BY <1>2, <2>1, <3>2
      <4>2. QED
        BY <4>1
    <3>3. QED
      BY <3>1, <3>2
  <2>2. ASSUME NEW s \in Srcs, Streams(s)' PROVE s \in 1 .. made' /\ ~src'[s].disposed
    <3>1. CASE s = n
      <4>1. Streams(n)
        BY <1>a, <2>2, <3>1 DEF Streams
      <4>2. n \in 1 .. made /\ ~src[n].disposed
        BY <1>a, <4>1 DEF PullInv, Reaches, KeysNameSources
      <4>3. QED
        BY <3>1, <4>2
    <3>2. CASE s # n
      BY <1>3, <2>2, <3>2 DEF PullInv, Reaches, KeysNameSources
    <3>3. QED
      BY <3>1, <3>2
  <2>3. ASSUME NEW j \in Channels, cache'[j] # None PROVE cache'[j] \in 1 .. made' /\ src'[cache'[j]].ch = j
    <3>1. CASE j = k
      BY <3>1
    <3>2. CASE j # k
      <4>1. cache'[j] = cache[j] /\ cache[j] \notin S
        BY <2>3, <3>2
      <4>2. cache[j] \in 1 .. made /\ src[cache[j]].ch = j
        BY <2>3, <4>1 DEF PullInv, Reaches, KeysNameSources
      <4>3. src'[cache[j]] = src[cache[j]]
        BY <1>a, <4>1, <4>2
      <4>4. QED
        BY <4>1, <4>2, <4>3
    <3>3. QED
      BY <3>1, <3>2
  <2>4. ASSUME NEW s \in Srcs, s \notin 1 .. made' PROVE src'[s].state = "idle"
    <3>1. s # n /\ s \notin S /\ s \notin 1 .. made
      BY <2>4
    <3>2. src[s].state = "idle" /\ src'[s] = src[s]
      BY <3>1 DEF PullInv, Reaches, KeysNameSources
    <3>3. QED
      BY <3>2
  <2>5. QED
    BY <2>1, <2>2, <2>3, <2>4 DEF KeysNameSources
<1>5. ASSUME attached, NEW s \in 1 .. made', Engaged(s)' PROVE src'[s].ch = k
  <2> SUFFICES ASSUME s # n, src'[s].ch # k PROVE FALSE
    OBVIOUS
  <2>0. ~src'[s].disposed
    BY <1>5 DEF Engaged
  <2>1. /\ s \in 1 .. made /\ s \notin S /\ src'[s] = src[s] /\ ~src[s].disposed
        /\ cache[src[s].ch] = s /\ src[s].ch \in Channels /\ src[s].ch # k
    BY <1>2, <2>0
  <2>2. s \in Siblings(k)
    BY <1>a, <2>1 DEF Siblings
  <2>3. Watching(s) # {}
    BY <2>1, <2>2 DEF Lingering
  <2>4. src[s].state = "stopped"
    BY <1>5, <2>2, <2>3 DEF Occupied
  <2>5. ~Streams(s)'
    BY <2>1, <2>4 DEF Streams
  <2>6. PICK x \in Callers : call'[x].pc = "holding" /\ call'[x].src = s
    BY <1>5, <2>5 DEF Engaged, Serving
  <2>7. call[x].pc = "holding" /\ call[x].src = s
    BY <1>d, <2>6
  <2>8. QED
    BY <2>1, <2>4, <2>7 DEF PullInv, Reaches, HandsOnSources
<1>6. OneChannel'
  BY <1>5 DEF OneChannel
<1>7. TalkbackIsReachable'
  <2> SUFFICES ASSUME NEW x \in Callers, call'[x].kind = "talking", call'[x].pc = "watching"
               PROVE  claim'[call'[x].ch] = x
    BY DEF TalkbackIsReachable
  <2>1. x \notin Left(S) /\ call'[x] = call[x]
    BY <1>d
  <2>2. claim[call[x].ch] = x
    BY <2>1 DEF PullInv, Reaches, TalkbackIsReachable
  <2>3. QED
    BY <1>a, <2>1, <2>2 DEF Unclaimed
<1>8. QED
  BY <1>1, <1>4, <1>6, <1>7 DEF PullInv, Reaches

\* Lemma.  The cached source is handed over, or a new one is built over the
\* session that was resolved, or the station is busy (sharedLiveSourceFor).
LEMMA AcquireKeeps ==
  ASSUME Parameters, PullInv, NEW c \in Callers, AcquireRefused(c) \/ AcquireJoins(c) \/ AcquireBuilds(c)
  PROVE  PullInv'
<1>0. SessionsTyped /\ PullsTyped /\ CallsTyped
  BY TypeParts DEF PullInv
<1>1. PICK h \in Channels : h = call[c].ch
  BY <1>0 DEF CallsTyped, Call
<1>a. call[c].pc = "waiting" /\ call[c] \in Call /\ call[c].ses \in Ids \cup {None}
  BY <1>0 DEF AcquireRefused, AcquireJoins, AcquireBuilds, Wants, Ready, CallsTyped, Call
<1>2. PICK D \in SUBSET Cached : D = Stale(h) \cup Lingering(h)
  BY <1>0 DEF Stale, Lingering, Siblings, Cached
<1>b. D \in SUBSET Srcs /\ D \in SUBSET (1 .. made) /\ 1 .. made \in SUBSET Srcs
  BY <1>0, <1>2, CachedTypes, CachedMade DEF PullsTyped, Srcs, Parameters
<1>c. \A n \in Srcs : Holding(c, n) \in Call
  BY <1>a DEF Holding, Call
<1>3. CASE AcquireRefused(c)
  <2>1. DropThen(D, c, Idle) /\ UNCHANGED <<attached, cur, issued, silent, made>>
    BY <1>1, <1>2, <1>3 DEF AcquireRefused
  <2>2. QED
    BY <1>a, <2>1, CallTypes, DropStep
<1>4. CASE AcquireJoins(c)
  <2>1. /\ ~(attached /\ Occupied(h)) /\ cache[h] # None /\ Stale(h) = {}
        /\ DropThen(D, c, Holding(c, cache[h])) /\ UNCHANGED <<attached, cur, issued, silent, made>>
    BY <1>1, <1>2, <1>4 DEF AcquireJoins
  <2>2. PICK n \in 1 .. made : n = cache[h] /\ src[n].ch = h /\ n \in Srcs
    BY <1>b, <2>1 DEF PullInv, Reaches, KeysNameSources
  <2>3. src[n].state # "stopped"
    BY <2>1, <2>2 DEF Stale
  <2>4. n \notin D
    <3>1. \A s \in D : \E j \in Channels : j # h /\ s = cache[j] /\ cache[j] # None
      BY <1>2, <2>1 DEF Lingering, Siblings
    <3>2. \A s \in D : src[s].ch # h
      BY <3>1 DEF PullInv, Reaches, KeysNameSources
    <3>3. QED
      BY <2>2, <3>2
  <2>5. TypeOK'
    BY <1>b, <1>c, <2>1, <2>2, DropTypes DEF PullInv
  <2>6. \A s \in Srcs : src'[s] = IF s \in D THEN Disposal(s) ELSE src[s]
    BY <2>1 DEF DropThen, Disposed
  <2>7. \A j \in Channels : cache'[j] = IF j = h THEN n ELSE IF cache[j] \in D THEN None ELSE cache[j]
    BY <2>1, <2>2, <2>4 DEF DropThen, Uncached
  <2>8. \A x \in Callers : call'[x] = IF x = c THEN Holding(c, n) ELSE IF x \in Left(D) THEN Idle ELSE call[x]
    BY <2>1, <2>2 DEF DropThen
  <2>9. Unclaimed(Left(D)) /\ Lingering(h) \subseteq D /\ 1 .. made' = 1 .. made \cup {n} /\ n \in 1 .. made'
    BY <1>2, <2>1 DEF DropThen
  <2>10. src'[n] = src[n]
    BY <2>2, <2>4, <2>6
  <2>11. QED
    BY <1>1, <1>a, <1>b, <2>1, <2>2, <2>3, <2>4, <2>5, <2>6, <2>7, <2>8, <2>9, <2>10, AcquireStep
<1>5. CASE AcquireBuilds(c)
  <2>1. PICK n : n = made + 1
    OBVIOUS
  <2>2. n \in Srcs /\ n \notin 1 .. made /\ made' = n /\ 1 .. made' = 1 .. made \cup {n} /\ n \in 1 .. made'
    BY <1>0, <1>5, <2>1 DEF AcquireBuilds, PullsTyped, Srcs, Parameters
  <2>3. n \notin D /\ src[n] \in Source /\ src[n].state = "idle"
    BY <1>0, <1>b, <2>2 DEF PullsTyped, PullInv, Reaches, KeysNameSources
  <2>4. PICK m \in Source : m = [src[n] EXCEPT !.ch = h, !.held = call[c].ses] /\ m.ch = h /\ m.state = src[n].state
    <3>1. PICK e \in Ids \cup {None} : e = call[c].ses
      BY <1>a
    <3>2. PICK o \in Source : o = src[n]
      BY <2>3
    <3>3. /\ [o EXCEPT !.ch = h, !.held = e] \in Source
          /\ [o EXCEPT !.ch = h, !.held = e].ch = h /\ [o EXCEPT !.ch = h, !.held = e].state = o.state
      BY DEF Source
    <3>4. QED
      BY <3>1, <3>2, <3>3
  <2>5. /\ src' = [s \in Srcs |-> IF s = n THEN m ELSE IF s \in D THEN Disposal(s) ELSE src[s]]
        /\ cache' = [j \in Channels |-> IF j = h THEN n ELSE IF cache[j] \in D THEN None ELSE cache[j]]
        /\ call' = [x \in Callers |-> IF x = c THEN Holding(c, n) ELSE IF x \in Left(D) THEN Idle ELSE call[x]]
        /\ Release(Users(D)) /\ Unclaimed(Left(D)) /\ ~(attached /\ Occupied(h))
        /\ cache[h] = None \/ Stale(h) # {}
        /\ UNCHANGED <<attached, cur, issued, silent>>
    BY <1>1, <1>2, <1>5, <2>1, <2>4 DEF AcquireBuilds
  <2>6. TypeOK'
    <3>1. src' \in [Srcs -> Source]
      BY <1>0, <2>5, SourceTypes
    <3>2. cache' \in [Channels -> Srcs \cup {None}]
      BY <1>0, <2>2, <2>5 DEF PullsTyped
    <3>3. ent' \in [Ids -> Entry]
      BY <1>0, <1>b, <2>5, UsersTypes, ReleaseTypes
    <3>4. call' \in [Callers -> Call]
      BY <1>0, <1>c, <2>2, <2>5, CallTypes DEF CallsTyped
    <3>5. claim' \in [Channels -> Callers \cup {Nobody}]
      <4>1. Left(D) \in SUBSET Callers
        BY DEF Left
      <4>2. QED
        BY <1>0, <2>5, <4>1, LeaveTypes
    <3>6. made' \in 0 .. MaxSources
      BY <2>2 DEF Srcs, Parameters
    <3>7. QED
      BY <1>0, <2>5, <3>1, <3>2, <3>3, <3>4, <3>5, <3>6 DEF TypeOK, SessionsTyped
  <2>7. cache[h] \in D \cup {None, n}
    BY <1>2, <2>5 DEF Stale
  <2>8. /\ \A s \in Srcs \ {n} : src'[s] = IF s \in D THEN Disposal(s) ELSE src[s]
        /\ src'[n].ch = h /\ src'[n].state = src[n].state /\ src'[n].state # "stopped"
        /\ Lingering(h) \subseteq D
    BY <1>2, <2>2, <2>3, <2>4, <2>5
  <2>9. /\ \A j \in Channels : cache'[j] = IF j = h THEN n ELSE IF cache[j] \in D THEN None ELSE cache[j]
        /\ \A x \in Callers : call'[x] = IF x = c THEN Holding(c, n) ELSE IF x \in Left(D) THEN Idle ELSE call[x]
    BY <2>5
  <2>10. QED
    BY <1>1, <1>a, <1>b, <2>2, <2>3, <2>5, <2>6, <2>7, <2>8, <2>9, AcquireStep
<1>6. QED
  BY <1>3, <1>4, <1>5

\* Lemma.  Attaching warms the source in hand, or joins those who watch it; one
\* that was dropped meanwhile is not attached to (attach).
LEMMA AttachKeeps ==
  ASSUME Parameters, PullInv, NEW c \in Callers, Attach(c)
  PROVE  PullInv'
<1>0. SessionsTyped /\ PullsTyped /\ CallsTyped
  BY TypeParts DEF PullInv
<1>a. call[c].pc = "holding" /\ call[c].src \in 1 .. made
  BY DEF Attach, PullInv, Reaches, HandsOnSources
<1>b. PICK s \in 1 .. made : s = call[c].src
  BY <1>a
<1>c. s \in Srcs /\ src[s] \in Source /\ ~src[s].disposed
  BY <1>0, <1>b DEF Attach, PullsTyped, Srcs, Parameters
<1>1. PICK n \in Source : /\ src' = [src EXCEPT ![s] = n]
                          /\ n.ch = src[s].ch /\ n.disposed = src[s].disposed
                          /\ n.state \in {"warming", "live", "lingering"}
  <2>1. PICK o \in Source : o = src[s]
    BY <1>c
  <2>2. o.held \in Ids \cup {None}
    BY DEF Source
  <2>4. CASE Streams(s)
    <3>1. PICK x : x = IF o.state # "lingering" THEN o.state ELSE IF o.shown THEN "live" ELSE "warming"
      OBVIOUS
    <3>2. x \in {"warming", "live", "lingering"}
      BY <2>1, <2>4, <3>1 DEF Streams
    <3>3. PICK n \in Source : /\ n = [o EXCEPT !.state = x] /\ n.ch = o.ch /\ n.disposed = o.disposed
                              /\ n.state = x
      <4>1. /\ [o EXCEPT !.state = x] \in Source /\ [o EXCEPT !.state = x].ch = o.ch
            /\ [o EXCEPT !.state = x].disposed = o.disposed /\ [o EXCEPT !.state = x].state = x
        BY <3>2 DEF Source
      <4>2. QED
        BY <4>1
    <3>4. src' = [src EXCEPT ![s] = [src[s] EXCEPT !.state =
                    IF src[s].state # "lingering" THEN src[s].state ELSE IF src[s].shown THEN "live" ELSE "warming"]]
      BY <1>b, <2>4 DEF Attach
    <3>5. src' = [src EXCEPT ![s] = n]
      BY <2>1, <3>1, <3>3, <3>4
    <3>6. QED
      BY <2>1, <3>2, <3>3, <3>5
  <2>5. CASE ~Streams(s)
    <3>1. src' = [src EXCEPT ![s] = [o EXCEPT !.state = "warming", !.rides = o.held, !.shown = FALSE, !.asked = FALSE]]
      BY <1>b, <2>1, <2>5 DEF Attach
    <3>2. PICK e \in Ids \cup {None} : e = o.held
      BY <2>2
    <3>3. PICK n \in Source : /\ n = [o EXCEPT !.state = "warming", !.rides = e, !.shown = FALSE, !.asked = FALSE]
                              /\ n.ch = o.ch /\ n.disposed = o.disposed /\ n.state = "warming"
      <4> DEFINE w == [o EXCEPT !.state = "warming", !.rides = e, !.shown = FALSE, !.asked = FALSE]
      <4>1. w \in Source /\ w.ch = o.ch /\ w.disposed = o.disposed /\ w.state = "warming"
        BY DEF Source
      <4>2. QED
        BY <4>1
    <3>4. src' = [src EXCEPT ![s] = n]
      BY <3>1, <3>2, <3>3
    <3>5. QED
      BY <2>1, <3>3, <3>4
  <2>6. QED
    BY <2>4, <2>5
<1>2. PICK q \in Call : call' = [call EXCEPT ![c] = q] /\ q.pc = "watching" /\ q.src = s
                        /\ q.kind = call[c].kind /\ q.ch = call[c].ch
  <2>1. PICK r \in Call : r = call[c]
    BY <1>0 DEF CallsTyped
  <2>2. /\ [r EXCEPT !.pc = "watching"] \in Call /\ [r EXCEPT !.pc = "watching"].pc = "watching"
        /\ [r EXCEPT !.pc = "watching"].src = r.src /\ [r EXCEPT !.pc = "watching"].kind = r.kind
        /\ [r EXCEPT !.pc = "watching"].ch = r.ch
    BY DEF Call
  <2>3. call' = [call EXCEPT ![c] = [r EXCEPT !.pc = "watching"]]
    BY <2>1 DEF Attach
  <2>4. QED
    BY <1>b, <2>1, <2>2, <2>3
<1>3. UNCHANGED <<attached, silent, made, cache, claim>>
  BY DEF Attach
<1>4. TypeOK'
  <2>1. cur' \in Ids \cup {None} /\ issued' \in 0 .. MaxSessions /\ ent' \in [Ids -> Entry]
    <3>1. CASE Watching(s) = {}
      <4>1. /\ HasRoom /\ cur' = Slot /\ issued' = (IF cur = None THEN issued + 1 ELSE issued)
            /\ ent' = [ent EXCEPT ![Slot] = Retained(ent[Slot])]
        BY <1>b, <3>1 DEF Attach
      <4>2. Slot \in Ids /\ ent[Slot] \in Entry /\ issued' \in 0 .. MaxSessions
        BY <1>0, <4>1, SlotTypes
      <4>3. QED
        BY <1>0, <4>1, <4>2, EntryTypes DEF SessionsTyped
    <3>2. CASE Watching(s) # {}
      BY <1>0, <1>b, <3>2 DEF Attach, manager, SessionsTyped
    <3>3. QED
      BY <3>1, <3>2
  <2>2. src' \in [Srcs -> Source] /\ call' \in [Callers -> Call]
    BY <1>0, <1>1, <1>2 DEF PullsTyped, CallsTyped
  <2>3. QED
    BY <1>0, <1>3, <2>1, <2>2 DEF TypeOK, SessionsTyped, PullsTyped, CallsTyped
<1>5. \A t \in Srcs : src'[t] = IF t = s THEN n ELSE src[t]
  BY <1>0, <1>1 DEF PullsTyped
<1>6. \A x \in Callers : call'[x] = IF x = c THEN q ELSE call[x]
  BY <1>0, <1>2 DEF CallsTyped
<1>7. 1 .. made \in SUBSET Srcs
  BY <1>0 DEF PullsTyped, Srcs, Parameters
<1>8. HandsOnSources'
  <2> SUFFICES ASSUME NEW x \in Callers, call'[x].pc \in {"holding", "watching"}
               PROVE  /\ call'[x].src \in 1 .. made'
                      /\ call'[x].pc = "watching" => ~src'[call'[x].src].disposed
                      /\ call'[x].pc = "holding" => src'[call'[x].src].disposed \/ src'[call'[x].src].state # "stopped"
    BY DEF HandsOnSources
  <2>1. CASE x = c
    BY <1>1, <1>2, <1>3, <1>5, <1>6, <1>c, <2>1
  <2>2. CASE x # c
    <3>1. /\ call'[x] = call[x] /\ call[x].src \in 1 .. made
          /\ call[x].pc = "watching" => ~src[call[x].src].disposed
          /\ call[x].pc = "holding" => src[call[x].src].disposed \/ src[call[x].src].state # "stopped"
      BY <1>6, <2>2 DEF PullInv, Reaches, HandsOnSources
    <3>2. call[x].src \in Srcs
      BY <1>7, <3>1
    <3>3. QED
      BY <1>1, <1>3, <1>5, <3>1, <3>2
  <2>3. QED
    BY <2>1, <2>2
<1>9. KeysNameSources'
  <2>1. \A t \in Srcs : /\ src'[t].ch = src[t].ch /\ src'[t].disposed = src[t].disposed
                        /\ Streams(t)' => t = s \/ Streams(t)
                        /\ t \notin 1 .. made => src'[t] = src[t]
    BY <1>1, <1>5 DEF Streams
  <2>2. QED
    BY <1>3, <1>7, <1>c, <2>1 DEF PullInv, Reaches, KeysNameSources
<1>10. OneChannel'
  <2>1. ASSUME NEW t \in 1 .. made, Engaged(t)' PROVE Engaged(t)
    <3>1. CASE t = s
      BY <1>a, <1>b, <1>c, <3>1 DEF Engaged
    <3>2. CASE t # s
      <4>1. src'[t] = src[t] /\ t \in Srcs
        BY <1>5, <1>7, <3>2
      <4>2. \A x \in Callers : call'[x].src = t => call'[x] = call[x]
        BY <1>2, <1>6, <3>2
      <4>3. Watching(t)' \subseteq Watching(t)
        BY <4>2 DEF Watching
      <4>4. Serving(t)' => Serving(t)
        BY <4>1, <4>3 DEF Serving, Streams
      <4>5. QED
        BY <2>1, <4>1, <4>2, <4>4 DEF Engaged
    <3>3. QED
      BY <3>1, <3>2
  <2>2. \A t \in 1 .. made : src'[t].ch = src[t].ch
    BY <1>1, <1>5, <1>7
  <2>3. QED
    BY <1>3, <2>1, <2>2 DEF PullInv, Reaches, OneChannel
<1>11. TalkbackIsReachable'
  BY <1>2, <1>3, <1>6 DEF PullInv, Reaches, TalkbackIsReachable, Attach
<1>12. QED
  BY <1>4, <1>8, <1>9, <1>10, <1>11 DEF PullInv, Reaches

\* Lemma.  A recovery that runs in the background drops the pull of its station,
\* or gives the source that asked another session (replaceUnreachableSession).
LEMMA RecoveryKeeps ==
  ASSUME Parameters, PullInv, NEW c \in Callers, DropFinally(c) \/ ReplacementReady(c)
  PROVE  PullInv'
<1>0. SessionsTyped /\ PullsTyped /\ CallsTyped
  BY TypeParts DEF PullInv
<1>1. CASE DropFinally(c)
  <2>1. {cache[Own]} \ {None} \in SUBSET Cached
    BY DEF Cached, Parameters
  <2>2. QED
    BY <1>1, <2>1, CallTypes, DropStep DEF DropFinally
<1>2. CASE ReplacementReady(c)
  <2>1. UNCHANGED <<attached, cur, ent, issued, silent, made, cache, claim>> /\ Leave({c}) /\ src' = Replaced(c)
    BY <1>2 DEF ReplacementReady, manager
  <2>2. call[c].ses \in Ids \cup {None} /\ call[c].ch \in Channels
    BY <1>0 DEF CallsTyped, Call
  <2> DEFINE Like(n, o) == n \in Source /\ n.ch = o.ch /\ n.disposed = o.disposed /\ n.state = o.state
  <2>3. \A o \in Source, e \in Ids \cup {None} :
          Like([o EXCEPT !.held = e], o) /\ Like([o EXCEPT !.rides = e], o) /\ Like(o, o) /\ o.held \in Ids \cup {None}
    BY DEF Source
  <2>a. \A o, n, m : Like(n, o) /\ Like(m, n) => Like(m, o)
    OBVIOUS
  <2> HIDE DEF Like
  <2>4. PICK g : g = [src EXCEPT ![call[c].src].held = call[c].ses]
    OBVIOUS
  <2>5. g \in [Srcs -> Source] /\ \A s \in Srcs : Like(g[s], src[s])
    <3>0. PICK y : y = call[c].src
      OBVIOUS
    <3>1. PICK e \in Ids \cup {None} : e = call[c].ses
      BY <2>2
    <3>2. g = [src EXCEPT ![y] = [src[y] EXCEPT !.held = e]]
      BY <2>4, <3>0, <3>1
    <3>3. \A s \in Srcs : src[s] \in Source /\ g[s] = IF s = y THEN [src[s] EXCEPT !.held = e] ELSE src[s]
      BY <1>0, <3>2 DEF PullsTyped
    <3>4. \A s \in Srcs : Like(g[s], src[s])
      BY <2>3, <3>3
    <3>5. DOMAIN g = Srcs /\ g = [s \in Srcs |-> g[s]]
      BY <1>0, <3>2 DEF PullsTyped
    <3>6. \A s \in Srcs : g[s] \in Source
      BY <3>4 DEF Like
    <3>7. QED
      BY <3>4, <3>5, <3>6
  <2>6. src' \in {src, g, [g EXCEPT ![cache[call[c].ch]].rides = g[cache[call[c].ch]].held]}
    BY <2>1, <2>4 DEF Replaced
  <2>7. src' \in [Srcs -> Source] /\ \A s \in Srcs : Like(src'[s], src[s])
    <3>1. CASE src' = src
      BY <1>0, <2>3, <3>1 DEF PullsTyped
    <3>2. CASE src' = g
      BY <2>5, <3>2
    <3>3. CASE src' = [g EXCEPT ![cache[call[c].ch]].rides = g[cache[call[c].ch]].held]
      <4>1. PICK y : y = cache[call[c].ch]
        OBVIOUS
      <4>2. \A s \in Srcs : g[s] \in Source /\ src'[s] = IF s = y THEN [g[s] EXCEPT !.rides = g[s].held] ELSE g[s]
        BY <2>5, <3>3, <4>1
      <4>3. \A s \in Srcs : Like(src'[s], g[s])
        BY <2>3, <4>2
      <4>4. \A s \in Srcs : Like(src'[s], src[s])
        BY <2>5, <2>a, <4>3
      <4>5. \A s \in Srcs : src'[s] \in Source
        BY <4>4 DEF Like
      <4>6. src' = [s \in Srcs |-> src'[s]]
        BY <2>5, <3>3
      <4>7. QED
        BY <4>4, <4>5, <4>6
    <3>4. QED
      BY <2>6, <3>1, <3>2, <3>3
  <2>8. call' \in [Callers -> Call]
    BY <1>0, <2>1, LeaveTypes
  <2>9. TypeOK'
    BY <1>0, <2>1, <2>7, <2>8 DEF TypeOK, SessionsTyped, PullsTyped, CallsTyped
  <2>10. \A x \in Callers : call'[x].pc \in {"holding", "watching"} => call'[x] = call[x]
    BY <2>1, CallTypes DEF Leave
  <2>11. \A s \in Srcs : src[s].disposed \in BOOLEAN
    BY <1>0 DEF PullsTyped, Source
  <2>12. \A s \in Srcs : /\ src'[s].ch = src[s].ch
                         /\ src'[s].disposed = (src[s].disposed \/ s \in {})
                         /\ Streams(s)' => Streams(s)
                         /\ src'[s].state = src[s].state
    BY <2>7, <2>11 DEF Like, Streams
  <2>13. {} \in SUBSET (1 .. made)
    OBVIOUS
  <2>14. Reaches'
    BY <2>1, <2>9, <2>10, <2>12, <2>13, ShrinkStep
  <2>15. QED
    BY <2>9, <2>14 DEF PullInv
<1>3. QED
  BY <1>1, <1>2

----------------------------------------------------------------------------
(* The whole of it.                                                        *)

\* Lemma.  A station begins with nothing held and nothing pulled.
LEMMA PullBegins ==
  ASSUME Parameters, Init
  PROVE  PullInv
<1>1. NewEntry \in Entry
  BY DEF NewEntry, Entry, OpeningStates, SessionStates, ResetStates
<1>2. SessionsTyped
  BY <1>1 DEF Init, SessionsTyped, Parameters
<1>3. PullsTyped
  BY DEF Init, PullsTyped, Source, Parameters
<1>4. CallsTyped
  BY CallTypes DEF Init, CallsTyped
<1>5. \A c \in Callers : call[c].pc = "idle"
  BY CallTypes DEF Init
<1>6. HandsOnSources /\ TalkbackIsReachable
  BY <1>5 DEF HandsOnSources, TalkbackIsReachable
<1>7. KeysNameSources
  BY DEF Init, KeysNameSources, Streams
<1>8. OneChannel
  BY DEF Init, OneChannel
<1>9. QED
  BY <1>2, <1>3, <1>4, <1>6, <1>7, <1>8, TypeParts DEF PullInv, Reaches

\* Lemma.  Every step of the router keeps one camera served and every pull in reach.
LEMMA PullStep ==
  ASSUME Parameters, PullInv, Next
  PROVE  PullInv'
<1>1. ASSUME NEW c \in Callers, CallerStep(c) PROVE PullInv'
  <2>1. CASE Resolve(c) \/ Reopen(c)
    BY <2>1, ResolveKeeps
  <2>2. CASE ResolveEnds(c) \/ TalkbackRefused(c) \/ AttachThrows(c)
    BY <2>2, ThrowStep DEF ResolveEnds, TalkbackRefused, AttachThrows
  <2>3. CASE TalkbackClaims(c)
    BY <2>3, ClaimKeeps
  <2>4. CASE AcquireRefused(c) \/ AcquireJoins(c) \/ AcquireBuilds(c)
    BY <2>4, AcquireKeeps
  <2>5. CASE Attach(c)
    BY <2>5, AttachKeeps
  <2>6. CASE DropFinally(c) \/ ReplacementReady(c)
    BY <2>6, RecoveryKeeps
  <2>7. QED
    BY <1>1, <2>1, <2>2, <2>3, <2>4, <2>5, <2>6 DEF CallerStep
<1>2. ASSUME NEW c \in Callers, HostStep(c) PROVE PullInv'
  <2>1. CASE GiveUp(c)
    BY <2>1, ThrowStep DEF GiveUp
  <2>2. CASE Detach(c)
    BY <2>2, DetachKeeps
  <2>3. QED
    BY <1>2, <2>1, <2>2, ResolveKeeps DEF HostStep
<1>3. QED
  BY <1>1, <1>2, SourceKeeps, SessionKeeps, ManagerKeeps DEF Next

\* Lemma.  The invariant speaks of the station's state alone.
LEMMA PullStutters ==
  ASSUME PullInv, UNCHANGED vars
  PROVE  PullInv'
BY DEF PullInv, TypeOK, vars, manager, pulls, Reaches, HandsOnSources, KeysNameSources, OneChannel, Engaged,
   Serving, Streams, Watching, TalkbackIsReachable
=============================================================================
