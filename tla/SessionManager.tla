--------------------------- MODULE SessionManager ---------------------------
(***************************************************************************)
(* The P2P session manager (src/src/transport/p2p/session-manager.ts) with *)
(* the parts of its only owner, P2PCommandRouter, that it calls back:      *)
(* opening a station (openStation / makeSession) and dropping everything   *)
(* that rides a session (tearDownStation).                                 *)
(*                                                                         *)
(* The manager keeps one lifecycle entry per station serial and replaces   *)
(* it by a fresh one after a close.  Every operation of the code names a   *)
(* SERIAL, so an operation whose reason belongs to a discarded entry is    *)
(* applied to the entry that occupies the serial by then: entries carry an *)
(* identity here so that the properties can tell the two apart.            *)
(*                                                                         *)
(* The event loop runs one callback at a time: an action is everything the *)
(* code does between two awaits.                                           *)
(***************************************************************************)
EXTENDS SessionEntry, FiniteSets

CONSTANTS
  Stations,     \* parent-station serials
  Nowhere,      \* where a viewer is that retains nothing
  Wired,        \* the stations whose tier never reads "battery"
  Callers,      \* concurrent callers of acquire()
  Viewers,      \* riders that retain a station while attached
  MaxEntries,   \* bound: entries created in a behaviour
  MaxRetained   \* bound: reasons counted on one entry

ASSUME StationsAssumption == Wired \subseteq Stations /\ Nowhere \notin Stations
ASSUME ViewersAssumption  == IsFiniteSet(Viewers)
ASSUME BoundsAssumption   == MaxEntries \in Nat /\ MaxRetained \in Nat

Ids   == 1 .. MaxEntries
NoId  == 0

VARIABLES
  entries,   \* [Stations -> Ids \cup {NoId}]: the manager's map
  ent,       \* [Ids -> Entry]: every entry ever created
  issued,    \* how many entries were created
  at,        \* [Viewers -> Stations \cup {Nowhere}]: what a viewer retains
  on,        \* [Viewers -> Ids \cup {NoId}]: history, the entry it retained
  robbed,    \* SUBSET Ids: history, took a release earned on another entry
  caller     \* [Callers -> CallerState]

vars == <<entries, ent, issued, at, on, robbed, caller>>

\* A caller of acquire(): the one whose factory runs, one that joined it, or
\* one that closes the session of a superseded open before it throws.
CallerState == [pc : {"idle", "owner", "joiner", "closing"},
                id : Ids \cup {NoId}]
NotCalling == [pc |-> "idle", id |-> NoId]

\* Invariant.  The state keeps its shape: in particular release() never takes
\* the count of an entry below zero.
TypeOK ==
  /\ entries \in [Stations -> Ids \cup {NoId}]
  /\ ent \in [Ids -> Entry]
  /\ issued \in 0 .. MaxEntries
  /\ at \in [Viewers -> Stations \cup {Nowhere}]
  /\ on \in [Viewers -> Ids \cup {NoId}]
  /\ robbed \subseteq Ids
  /\ caller \in [Callers -> CallerState]

Init ==
  /\ entries = [s \in Stations |-> NoId]
  /\ ent = [e \in Ids |-> NewEntry]
  /\ issued = 0
  /\ at = [v \in Viewers |-> Nowhere]
  /\ on = [v \in Viewers |-> NoId]
  /\ robbed = {}
  /\ caller = [c \in Callers |-> NotCalling]

----------------------------------------------------------------------------
(* Get or create the entry of a station: entry().                          *)

Slot(s)     == IF entries[s] # NoId THEN entries[s] ELSE issued + 1
CanTouch(s) == entries[s] # NoId \/ issued < MaxEntries

Touch(s) ==
  /\ entries' = [entries EXCEPT ![s] = Slot(s)]
  /\ issued' = IF entries[s] # NoId THEN issued ELSE issued + 1

Registered(e) == \E s \in Stations : entries[s] = e

\* The tier is asked for each time an idle window is armed; battery evidence
\* may arrive at any moment.
Tiers(s) == IF s \in Wired THEN {FALSE} ELSE {TRUE, FALSE}

AtStation(s) == {v \in Viewers : at[v] = s}

\* The viewers V hold nothing any more.
Drop(V) ==
  /\ at' = [v \in Viewers |-> IF v \in V THEN Nowhere ELSE at[v]]
  /\ on' = [v \in Viewers |-> IF v \in V THEN NoId ELSE on[v]]

\* tearDownStation() disposes the sources of the station, each of which
\* releases its retain and finds no entry.  It is reached only where a session
\* had been registered: a station never reported open is not reported closed.
Riders(s, en) == IF en.session = "none" THEN {} ELSE AtStation(s)

\* autoClose() on the registered entry of s, whose record is en by now, as the
\* viewers V leave: the entry goes, the owner drops the riders, the session
\* starts closing -- in that order, in one step.
AutoCloseOf(s, en, V) ==
  /\ entries' = [entries EXCEPT ![s] = NoId]
  /\ ent' = [ent EXCEPT ![entries[s]] = ClosedEntry(en)]
  /\ Drop(V \cup Riders(s, en))

----------------------------------------------------------------------------
(* acquire() and the factory openStation() passes it.                      *)

\* A registered session is returned as it is, which changes nothing; a cold
\* station makes this caller's factory start resolving the DSK key.
AcquireCold(c, s) ==
  /\ caller[c] = NotCalling
  /\ CanTouch(s)
  /\ ent[Slot(s)].opening = "none"
  /\ ent[Slot(s)].session = "none"
  /\ Touch(s)
  /\ ent' = [ent EXCEPT ![Slot(s)].opening = "building"]
  /\ caller' = [caller EXCEPT ![c] = [pc |-> "owner", id |-> Slot(s)]]
  /\ UNCHANGED <<at, on, robbed>>

\* An open is in flight: share its promise.
AcquireJoin(c, s) ==
  /\ caller[c] = NotCalling
  /\ entries[s] # NoId
  /\ ent[entries[s]].opening # "none"
  /\ caller' = [caller EXCEPT ![c] = [pc |-> "joiner", id |-> entries[s]]]
  /\ UNCHANGED <<entries, ent, issued, at, on, robbed>>

\* The open of e settles: its joiners go on, its owner does as told.
OpenSettles(e, owner) ==
  caller' = [c \in Callers |->
    CASE caller[c] = [pc |-> "owner", id |-> e]  -> owner
      [] caller[c] = [pc |-> "joiner", id |-> e] -> NotCalling
      [] OTHER -> caller[c]]

\* The factory throws: no record, or no P2P endpoint, for the station.
FactoryRefuses(e) ==
  /\ ent[e].opening = "building"
  /\ ent' = [ent EXCEPT ![e].opening = "none"]
  /\ OpenSettles(e, NotCalling)
  /\ UNCHANGED <<entries, issued, at, on, robbed>>

\* The DSK lookup answered or failed, neither of which stops the open: the
\* session is built, registered on the entry, and starts binding its socket.
FactoryConnects(e) ==
  /\ ent[e].opening = "building"
  /\ ent' = [ent EXCEPT ![e].opening = "binding", ![e].session = "dialing"]
  /\ UNCHANGED <<entries, issued, at, on, robbed, caller>>

\* Mutant: acquire() forgets to ask whether its entry is still registered.
MutBound(e) ==
  /\ ent[e].opening = "binding"
  /\ Alive(ent[e])
  /\ ent' = [ent EXCEPT ![e].opening = "none"]
  /\ OpenSettles(e, NotCalling)
  /\ UNCHANGED <<entries, issued, at, on, robbed>>

\* The socket is bound and connect() resolves.  The owner of the open hands
\* the session out only if its entry is still the registered one, and closes
\* it otherwise.  A joiner holds the factory's own promise and is handed the
\* session either way.
Bound(e) ==
  /\ ent[e].opening = "binding"
  /\ Alive(ent[e])
  /\ IF Registered(e)
     THEN /\ ent' = [ent EXCEPT ![e].opening = "none"]
          /\ OpenSettles(e, NotCalling)
     ELSE /\ ent' = [ent EXCEPT ![e] =
                       CloseSession([@ EXCEPT !.opening = "none"])]
          /\ OpenSettles(e, [pc |-> "closing", id |-> e])
  /\ UNCHANGED <<entries, issued, at, on, robbed>>

----------------------------------------------------------------------------
(* Reasons to stay connected.                                              *)

\* release(s) on the registered entry of s, whose record is en by now, as the
\* viewers V leave.
ReleaseOf(s, en, V) ==
  LET r == Released(en) IN
  \/ /\ en.retained = 0
     /\ ent' = [ent EXCEPT ![entries[s]] = r]
     /\ Drop(V)
     /\ UNCHANGED entries
  \/ /\ en.retained > 0
     /\ ResetDue(r)
     /\ AutoCloseOf(s, r, V)
  \/ /\ en.retained > 0
     /\ ~ResetDue(r)
     /\ \E battery \in Tiers(s) :
          ent' = [ent EXCEPT ![entries[s]] =
                    IF r.retained = 0 THEN IdleArmed(r, battery) ELSE r]
     /\ Drop(V)
     /\ UNCHANGED entries

\* A shared live source gets its first consumer: onActive -> retain().
ViewerRetains(v, s) ==
  /\ at[v] = Nowhere
  /\ CanTouch(s)
  /\ ent[Slot(s)].retained < MaxRetained
  /\ Touch(s)
  /\ ent' = [ent EXCEPT ![Slot(s)] = Retained(@)]
  /\ at' = [at EXCEPT ![v] = s]
  /\ on' = [on EXCEPT ![v] = Slot(s)]
  /\ UNCHANGED <<robbed, caller>>

\* Its last consumer leaves: onIdle -> release() by serial, so it lands on
\* whatever entry occupies the serial now.
ViewerLeaves(v) ==
  /\ at[v] # Nowhere
  /\ LET e == entries[at[v]] IN
     \/ /\ e = NoId
        /\ Drop({v})
        /\ UNCHANGED <<entries, ent, robbed>>
     \/ /\ e # NoId
        /\ ReleaseOf(at[v], ent[e], {v})
        /\ robbed' = IF on[v] # e /\ ent[e].retained > 0
                     THEN robbed \cup {e} ELSE robbed
  /\ UNCHANGED <<issued, caller>>

\* bumpCommand() and prewarm(): a retain whose timer releases it.
Hold(s) ==
  /\ CanTouch(s)
  /\ ent[Slot(s)].retained < MaxRetained
  /\ Touch(s)
  /\ ent' = [ent EXCEPT ![Slot(s)] = Held(@)]
  /\ UNCHANGED <<at, on, robbed, caller>>

\* discard() cancels the timers of an entry, so a timer that fires belongs to
\* the registered one.
HoldExpires(s) ==
  /\ entries[s] # NoId
  /\ ent[entries[s]].holds > 0
  /\ ReleaseOf(s, HoldFired(ent[entries[s]]), {})
  /\ UNCHANGED <<issued, robbed, caller>>

\* onIdle(): the window elapsed; the count is read again.
IdleElapses(s) ==
  /\ entries[s] # NoId
  /\ LET en == ent[entries[s]]
         fired == [en EXCEPT !.idle = FALSE] IN
     /\ en.idle
     /\ \/ /\ en.retained > 0
           /\ ent' = [ent EXCEPT ![entries[s]] = fired]
           /\ UNCHANGED <<entries, at, on>>
        \/ /\ en.retained = 0
           /\ AutoCloseOf(s, fired, {})
  /\ UNCHANGED <<issued, robbed, caller>>

----------------------------------------------------------------------------
(* Closes somebody asks for, and sessions that end by themselves.          *)

\* resetStandaloneSession -> resetWhenUnused(): through expiring holds at
\* once, otherwise when the last viewer leaves.  Later callers share the
\* deferred outcome.
ResetWhenUnused(s) ==
  /\ entries[s] # NoId
  /\ LET en == ent[entries[s]] IN
     \/ /\ ~HasViewer(en)
        /\ AutoCloseOf(s, en, {})
     \/ /\ HasViewer(en)
        /\ ent' = [ent EXCEPT ![entries[s]].reset = "pending"]
        /\ UNCHANGED <<entries, at, on>>
  /\ UNCHANGED <<issued, robbed, caller>>

\* close(): asked for by the router to recycle a session (a start that failed,
\* a session nobody hears, a silent path).  The riders stay where they are.
Close(s) ==
  /\ entries[s] # NoId
  /\ entries' = [entries EXCEPT ![s] = NoId]
  /\ ent' = [ent EXCEPT ![entries[s]] = ClosedEntry(@)]
  /\ UNCHANGED <<issued, at, on, robbed, caller>>

\* The router disposes every source, then the manager discards every entry.
\* The generation it bumps invalidates the same opens the discarded entries do.
CloseAll ==
  /\ \E s \in Stations : entries[s] # NoId
  /\ entries' = [s \in Stations |-> NoId]
  /\ ent' = [e \in Ids |-> IF Registered(e) THEN ClosedEntry(ent[e]) ELSE ent[e]]
  /\ Drop(Viewers)
  /\ UNCHANGED <<issued, robbed, caller>>

\* CAM_ID: the handshake completes once the socket is bound.
Connected(e) ==
  /\ ent[e].session = "dialing"
  /\ ent[e].opening = "none"
  /\ ent' = [ent EXCEPT ![e].session = "up"]
  /\ UNCHANGED <<entries, issued, at, on, robbed, caller>>

\* The connect timer: a session that never got through closes by itself.
ConnectTimesOut(e) ==
  /\ ent[e].session = "dialing"
  /\ ent[e].opening = "none"
  /\ ent' = [ent EXCEPT ![e] = CloseSession(@)]
  /\ UNCHANGED <<entries, issued, at, on, robbed, caller>>

\* The socket is gone: whoever awaits this close resumes, and the router's
\* "close" handler tears the station down if this session still is the
\* station's registered one.
SocketClosed(e) ==
  /\ ent[e].session = "closing"
  /\ LET gone == [ent[e] EXCEPT !.session = "closed"] IN
     \/ \E s \in Stations :
          /\ entries[s] = e
          /\ entries' = [entries EXCEPT ![s] = NoId]
          /\ ent' = [ent EXCEPT ![e] = SettleReset(Discarded(gone))]
          /\ Drop(AtStation(s))
     \/ /\ ~Registered(e)
        /\ ent' = [ent EXCEPT ![e] = SettleReset(gone)]
        /\ UNCHANGED <<entries, at, on>>
  /\ caller' = [c \in Callers |->
       IF caller[c] = [pc |-> "closing", id |-> e]
       THEN NotCalling ELSE caller[c]]
  /\ UNCHANGED <<issued, robbed>>

----------------------------------------------------------------------------
StationStep(s) ==
  \/ Hold(s) \/ HoldExpires(s) \/ IdleElapses(s)
  \/ ResetWhenUnused(s) \/ Close(s)
  \/ \E c \in Callers : AcquireCold(c, s) \/ AcquireJoin(c, s)
  \/ \E v \in Viewers : ViewerRetains(v, s)

EntryStep(e) ==
  \/ FactoryRefuses(e) \/ FactoryConnects(e) \/ Bound(e)
  \/ Connected(e) \/ ConnectTimesOut(e) \/ SocketClosed(e)

Next ==
  \/ \E s \in Stations : StationStep(s)
  \/ \E e \in Ids : EntryStep(e)
  \/ \E v \in Viewers : ViewerLeaves(v)
  \/ CloseAll

Spec == Init /\ [][Next]_vars

\* Timers fire, the DSK request is bounded by its own timeout, a bound socket
\* reports, a closed socket reports.  Nobody is obliged to call anything.
Fairness ==
  /\ \A s \in Stations : WF_vars(HoldExpires(s)) /\ WF_vars(IdleElapses(s))
  /\ \A e \in Ids : /\ WF_vars(FactoryRefuses(e) \/ FactoryConnects(e))
                    /\ WF_vars(Bound(e))
                    /\ WF_vars(SocketClosed(e))

FairSpec == Spec /\ Fairness

----------------------------------------------------------------------------
(* What makes the manager correct.                                         *)

\* Invariant.  session-manager.ts arms the idle window only at a count of
\* zero, every retain cancels it, and a discarded entry owns no live timer:
\* no stale timer can act on the station, or on the entry that replaces it.
TimersAreOwned ==
  \A e \in Ids :
    /\ ent[e].idle => Registered(e) /\ ent[e].retained = 0
    /\ ent[e].holds > 0 => Registered(e)

\* Invariant.  A deferred reset (resetWhenUnused) is pending on a registered
\* entry only while a real viewer is counted there beside the expiring holds:
\* otherwise nothing would ever make it due.
DeferredResetHasViewer ==
  \A e \in Ids :
    Registered(e) /\ ent[e].reset = "pending" => HasViewer(ent[e])

\* Invariant.  No session is leaked: one whose socket is bound and that nobody
\* is closing is the registered session of its station, so that a heartbeat
\* never keeps a device awake behind the manager's back (acquire closes a
\* superseded open, close and autoClose close what they discard).
NoOrphanSession ==
  \A e \in Ids :
    Alive(ent[e]) /\ ent[e].opening = "none" => Registered(e)

\* Invariant.  The one counter is right: the count of a registered entry is
\* its expiring holds plus the viewers that retained it, unless a release
\* earned on an earlier entry of the same serial was taken from it.
CountIsReasons ==
  \A s \in Stations :
    entries[s] # NoId /\ entries[s] \notin robbed =>
      ent[entries[s]].retained =
        ent[entries[s]].holds + Cardinality({v \in AtStation(s) : on[v] = entries[s]})

\* Action property.  The manager never detaches a station of its own accord
\* (an elapsed window, a reset that is due) under a viewer whose retain the
\* entry still counts: "which may close through expiring holds but must wait
\* for a real viewer".
AutoCloseSparesViewers ==
  [][\A s \in Stations :
       entries[s] # NoId /\ entries'[s] = NoId /\ entries[s] \notin robbed' =>
         /\ IdleElapses(s) \/ HoldExpires(s) \/ ResetWhenUnused(s) =>
              \A w \in Viewers : on[w] # entries[s]
         /\ \A v \in AtStation(s) : ViewerLeaves(v) =>
              \A w \in Viewers \ {v} : on[w] # entries[s]]_vars

\* Liveness.  Whatever a discarded entry still carries comes to an end: an
\* open that was superseded closes its session, and the callers of a deferred
\* reset learn the outcome (closeEntry, settleReset).
DiscardedEntryFinishes ==
  \A e \in Ids :
    ~Registered(e) /\ (Alive(ent[e]) \/ ent[e].reset = "pending")
      ~> ent[e].session \in {"none", "closed"} /\ ent[e].reset # "pending"
=============================================================================
