--------------------------- MODULE DeviceRegistry ----------------------------
(***************************************************************************)
(* The device list the SDK keeps (src/src/client/device-registry.ts): the  *)
(* cloud list fetched by several callers at once, the baseline the poll    *)
(* compares with, what the device reported over realtime, and the          *)
(* capability caches computed from the list.  One device is followed; the  *)
(* account gains and loses it, a list query may fail, and an answer may    *)
(* land after a later one.                                                 *)
(***************************************************************************)
EXTENDS Integers, FiniteSets

CONSTANTS
  Params,     \* param ids of the device
  ParamValues, \* their values
  Absent,     \* no device, no answer, no report
  Fetchers,   \* who calls getDevices: the poll and the others
  Poll,       \* the member of Fetchers that is pollChanges
  MaxMoves    \* bound: changes of the cloud record and reports in a behaviour

VARIABLES
  cloud,      \* the cloud's record of the device: [Params -> ParamValues], or Absent
  moves,      \* changes and reports so far
  devices,    \* the cached list's record of the device, or Absent
  fetch,      \* [Fetchers -> [pc, rec, whole]]: a getDevices on its way
  snapshot,   \* pollSnapshot: [rec, whole], or Absent before the first pass
  reports,    \* dpParams: [Params -> ParamValues \cup {Absent}]
  caps,       \* the record the capability caches were computed from; Absent when empty
  mirror,     \* what a host that only follows the poll's diffs believes of the record
  gap         \* a pass lost a query and its list was without the device

vars == <<cloud, moves, devices, fetch, snapshot, reports, caps, mirror, gap>>

Records  == [Params -> ParamValues]
NoReport == [p \in Params |-> Absent]
NoFetch  == [pc |-> "none", rec |-> Absent, whole |-> TRUE]

Init ==
  /\ cloud \in Records /\ moves = 0
  /\ devices = Absent /\ fetch = [f \in Fetchers |-> NoFetch]
  /\ snapshot = Absent /\ reports = NoReport /\ caps = Absent
  /\ mirror = Absent /\ gap = FALSE

-----------------------------------------------------------------------------
(* The account, as the cloud has it.                                       *)

CloudMoves ==
  /\ moves < MaxMoves /\ cloud # Absent
  /\ \E p \in Params, v \in ParamValues : cloud[p] # v /\ cloud' = [cloud EXCEPT ![p] = v]
  /\ moves' = moves + 1
  /\ UNCHANGED <<devices, fetch, snapshot, reports, caps, mirror, gap>>

Leaves ==
  /\ moves < MaxMoves /\ cloud # Absent
  /\ cloud' = Absent /\ moves' = moves + 1
  /\ UNCHANGED <<devices, fetch, snapshot, reports, caps, mirror, gap>>

Joins ==
  /\ moves < MaxMoves /\ cloud = Absent
  /\ cloud' \in Records /\ moves' = moves + 1
  /\ UNCHANGED <<devices, fetch, snapshot, reports, caps, mirror, gap>>

-----------------------------------------------------------------------------
(* getDevices: the house list, then one query per house, each of which may *)
(* fail alone.  Devices a partial answer lacks are kept from the cache; a  *)
(* complete one replaces it.  A rejected session changes nothing.          *)

Ask(f) ==
  /\ fetch[f].pc = "none"
  /\ fetch' = [fetch EXCEPT ![f].pc = "asked"]
  /\ UNCHANGED <<cloud, moves, devices, snapshot, reports, caps, mirror, gap>>

Answered(f) ==
  /\ fetch[f].pc = "asked"
  /\ \/ fetch' = [fetch EXCEPT ![f] = [pc |-> "answered", rec |-> cloud, whole |-> TRUE]]
     \/ \E rec \in {cloud, Absent} :
          fetch' = [fetch EXCEPT ![f] = [pc |-> "answered", rec |-> rec, whole |-> FALSE]]
  /\ UNCHANGED <<cloud, moves, devices, snapshot, reports, caps, mirror, gap>>

SessionExpired(f) ==
  /\ fetch[f].pc = "asked"
  /\ fetch' = [fetch EXCEPT ![f] = NoFetch]
  /\ UNCHANGED <<cloud, moves, devices, snapshot, reports, caps, mirror, gap>>

\* The list once the answer is merged, and the caches that go with the old one.
Merged(f) == IF fetch[f].rec = Absent /\ ~fetch[f].whole THEN devices ELSE fetch[f].rec
MutCapsAfter(f) == caps
CapsAfter(f)    == Absent

GetDevices(f) ==
  /\ fetch[f].pc = "answered"
  /\ devices' = Merged(f)
  /\ caps' = CapsAfter(f)
  /\ fetch' = [fetch EXCEPT ![f] = NoFetch]

ListLands(f) ==
  /\ f # Poll
  /\ GetDevices(f)
  /\ UNCHANGED <<cloud, moves, snapshot, reports, mirror, gap>>

-----------------------------------------------------------------------------
(* pollChanges: the diff of this pass's list with the last pass's.         *)

MutBase == IF snapshot = Absent THEN Absent ELSE [snapshot EXCEPT !.rec = devices]
Base    == snapshot

Added   == Base # Absent /\ Base.rec = Absent /\ Base.whole /\ Merged(Poll) # Absent
Removed == Base # Absent /\ Base.rec # Absent /\ fetch[Poll].whole /\ Merged(Poll) = Absent

\* The ids whose value moved; of a device seen for the first time, none.
Moved == IF Base = Absent \/ Merged(Poll) = Absent THEN {}
         ELSE IF Base.rec = Absent THEN {}
         ELSE {p \in Params : Base.rec[p] # Merged(Poll)[p]}

\* What the host makes of deviceAdded, deviceRemoved and the changes; the
\* first pass is its baseline.
Followed ==
  IF snapshot = Absent \/ Added THEN Merged(Poll)
  ELSE IF Removed \/ mirror = Absent THEN Absent
  ELSE [p \in Params |-> IF p \in Moved THEN Merged(Poll)[p] ELSE mirror[p]]

PollChanges ==
  /\ GetDevices(Poll)
  /\ snapshot' = [rec |-> Merged(Poll), whole |-> fetch[Poll].whole]
  /\ mirror' = Followed
  /\ gap' = (gap \/ (~fetch[Poll].whole /\ Merged(Poll) = Absent))
  \* retireRealtimeParams, which the facade calls for every id of the diff
  /\ reports' = [p \in Params |-> IF p \in Moved THEN Absent ELSE reports[p]]
  /\ UNCHANGED <<cloud, moves>>

-----------------------------------------------------------------------------
(* Reads of the list.                                                      *)

\* capabilitiesForFrame / capabilitiesForDevice, memoised.
Capabilities ==
  /\ caps = Absent /\ devices # Absent
  /\ caps' = devices
  /\ UNCHANGED <<cloud, moves, devices, fetch, snapshot, reports, mirror, gap>>

\* applyRealtimeParams: merged into what was reported before; the caches of
\* the device go, a newly reported id may have widened them.
ApplyRealtimeParams(p, v) ==
  /\ moves < MaxMoves /\ moves' = moves + 1
  /\ reports' = [reports EXCEPT ![p] = v]
  /\ caps' = Absent
  /\ UNCHANGED <<cloud, devices, fetch, snapshot, mirror, gap>>

Next ==
  \/ CloudMoves \/ Leaves \/ Joins \/ Capabilities \/ PollChanges
  \/ \E f \in Fetchers : Ask(f) \/ Answered(f) \/ SessionExpired(f) \/ ListLands(f)
  \/ \E p \in Params, v \in ParamValues : ApplyRealtimeParams(p, v)

Spec == Init /\ [][Next]_vars

-----------------------------------------------------------------------------
\* The type of the state.
TypeOK ==
  /\ cloud \in Records \cup {Absent} /\ devices \in Records \cup {Absent}
  /\ caps \in Records \cup {Absent} /\ mirror \in Records \cup {Absent}
  /\ moves \in 0 .. MaxMoves /\ gap \in BOOLEAN
  /\ fetch \in [Fetchers -> [pc : {"none", "asked", "answered"},
                             rec : Records \cup {Absent}, whole : BOOLEAN]]
  /\ snapshot = Absent \/ snapshot \in [rec : Records \cup {Absent}, whole : BOOLEAN]
  /\ reports \in [Params -> ParamValues \cup {Absent}]

\* The capability caches never outlive the list they were computed from,
\* whichever of the overlapping fetches replaced it.
CapsAreCurrent == caps # Absent => caps = devices

\* A host that applies only what the poll announces knows the polled record:
\* no other caller's fetch absorbs a change, unless a pass that lost a query
\* came out without the device.
MirrorFollows == snapshot # Absent /\ ~gap => mirror = snapshot.rec

\* What it rests on: a pass whose list came out partial and without the device
\* is remembered as a gap.
GapIsNoted == snapshot # Absent /\ snapshot.rec = Absent /\ ~snapshot.whole => gap
=============================================================================
