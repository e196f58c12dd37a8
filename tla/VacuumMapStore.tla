--------------------------- MODULE VacuumMapStore ----------------------------
(***************************************************************************)
(* The map of one robot, assembled from the pieces its map stream carries  *)
(* (src/src/model/vacuum-map-store.ts), from the broker message            *)
(* (transport/mqtt/biz-stream.ts, client/map-channels.ts) to the `map`     *)
(* event.  A piece names a map and a revision, or names no map; pieces are *)
(* repeated, delayed and reordered, and the robot may switch maps.         *)
(***************************************************************************)
EXTENDS Integers

CONSTANTS
  Kinds,        \* the kinds of piece the robot sends, of StampedKind
  Maps,         \* map ids
  Nameless,     \* sets of kinds that a message may carry without a map id
  Absent,       \* no map id, no piece
  MaxRevision,  \* bound: revisions (`releases`) of a piece
  MaxFrames     \* bound: frames the robot sends in a behaviour

VARIABLES
  robot,   \* [map, rev]: what the robot maps now; rev per kind
  sent,    \* frames the robot sent: any of them may arrive, more than once
  count,   \* frames sent so far
  store,   \* [mapId, held, seen, posed]: the VacuumMapStore
  top      \* history: [Kinds -> newest revision stored since the map changed, -1]

vars == <<robot, sent, count, store, top>>

StampedKind == {"description", "plane", "outline", "rooms", "zones"}

NoPieces == [k \in Kinds |-> Absent]
NoneSeen == [k \in Kinds |-> -1]

Piece(k, m, r) == [kind |-> k, map |-> m, rev |-> r]

Init ==
  /\ robot \in [map : Maps, rev : [Kinds -> {0}]]
  /\ sent = {} /\ count = 0
  /\ store = [mapId |-> Absent, held |-> NoPieces, seen |-> NoneSeen, posed |-> FALSE]
  /\ top = NoneSeen

-----------------------------------------------------------------------------
(* The robot and its stream.                                               *)

Revises(k) ==
  /\ robot.rev[k] < MaxRevision
  /\ robot' = [robot EXCEPT !.rev[k] = @ + 1]
  /\ UNCHANGED <<sent, count, store, top>>

SwitchesMap ==
  /\ \E m \in Maps \ {robot.map} : robot' = [map |-> m, rev |-> [k \in Kinds |-> 0]]
  /\ UNCHANGED <<sent, count, store, top>>

\* A frame on the stream: the pieces of one message (a lone piece, or those a
\* backup did not leave out; each with its map id or without), a pose, which is
\* not stamped, or a part of a split message or a channel nothing reads.
Frames ==
  {[pieces |-> [k \in K |-> Piece(k, IF k \in N THEN Absent ELSE robot.map, robot.rev[k])],
    pose |-> FALSE, whole |-> TRUE] : K \in SUBSET Kinds \ {{}}, N \in Nameless}
  \cup {[pieces |-> [k \in {} |-> Absent], pose |-> p, whole |-> p] : p \in BOOLEAN}

Streams ==
  /\ count < MaxFrames
  /\ \E f \in Frames : sent' = sent \cup {f}
  /\ count' = count + 1
  /\ UNCHANGED <<robot, store, top>>

-----------------------------------------------------------------------------
(* The store.                                                              *)

\* put: a piece of another map drops what is held of this one, the pose apart.
MutSwitched(st, p) == st
Switched(st, p) ==
  IF p.map # Absent /\ st.mapId # Absent /\ p.map # st.mapId
  THEN [st EXCEPT !.mapId = p.map, !.held = NoPieces, !.seen = NoneSeen]
  ELSE st

MutOlder(st, p) == FALSE
Older(st, p)    == p.rev < st.seen[p.kind]

Put(st, p) ==
  LET s == Switched(st, p) IN
  IF Older(s, p) THEN s
  ELSE [s EXCEPT !.seen[p.kind] = p.rev, !.held[p.kind] = p,
                 !.mapId = IF p.map # Absent THEN p.map ELSE @]

\* What the history keeps of the same step.
Tops(tp, st, p) ==
  LET base == IF p.map # Absent /\ st.mapId # Absent /\ p.map # st.mapId THEN NoneSeen ELSE tp
  IN [base EXCEPT ![p.kind] = IF p.rev > @ THEN p.rev ELSE @]

Step(acc, p) == <<Put(acc[1], p), Tops(acc[2], acc[1], p)>>

\* apply, and applyBackup: the pieces the device did not leave out, in the order
\* of piecesOf, each through the same path as a lone one.
Taken(acc, pieces, k) == IF k \in DOMAIN pieces THEN Step(acc, pieces[k]) ELSE acc

Applied(acc, pieces) ==
  LET a == Taken(Taken(acc, pieces, "description"), pieces, "plane")
  IN  Taken(Taken(Taken(a, pieces, "outline"), pieces, "rooms"), pieces, "zones")

\* applyMapFrame: a frame that is not the start of a message is skipped.
Arrives(f) ==
  /\ f \in sent /\ f.whole
  /\ LET acc == Applied(<<store, top>>, f.pieces) IN
     /\ store' = [acc[1] EXCEPT !.posed = @ \/ f.pose]
     /\ top' = acc[2]
  /\ UNCHANGED <<robot, sent, count>>

Skipped(f) ==
  /\ f \in sent /\ ~f.whole
  /\ sent' = sent \ {f}
  /\ UNCHANGED <<robot, count, store, top>>

Lost(f) ==
  /\ f \in sent
  /\ sent' = sent \ {f}
  /\ UNCHANGED <<robot, count, store, top>>

Next ==
  \/ SwitchesMap \/ Streams
  \/ \E k \in Kinds : Revises(k)
  \/ \E f \in sent : Arrives(f) \/ Skipped(f) \/ Lost(f)

-----------------------------------------------------------------------------
Pieces == [kind : Kinds, map : Maps \cup {Absent}, rev : 0 .. MaxRevision]

\* The type of the state.
TypeOK ==
  /\ robot \in [map : Maps, rev : [Kinds -> 0 .. MaxRevision]]
  /\ \A f \in sent :
       f.pose \in BOOLEAN /\ \A k \in DOMAIN f.pieces : k \in Kinds /\ f.pieces[k] \in Pieces
  /\ count \in 0 .. MaxFrames
  /\ store \in [mapId : Maps \cup {Absent}, held : [Kinds -> Pieces \cup {Absent}],
               seen : [Kinds -> -1 .. MaxRevision], posed : BOOLEAN]
  /\ top \in [Kinds -> -1 .. MaxRevision]

\* Everything held belongs to the one map the store says it holds, through any
\* order of late and repeated frames of either map: coordinates of one map are
\* never read against the outline of another.
OneMap ==
  \A k \in Kinds :
    store.held[k] # Absent => store.held[k].map \in {store.mapId, Absent}

\* No late repeat replaces a newer revision of a piece the store was given
\* since it switched to this map.
NewestHeld ==
  \A k \in Kinds :
    IF store.held[k] = Absent THEN top[k] = -1 ELSE store.held[k].rev = top[k]
=============================================================================
