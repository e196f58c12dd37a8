---------------------------- MODULE DeviceSurface ----------------------------
(***************************************************************************)
(* What the SDK makes of the member tables on one device: which            *)
(* capabilities it resolves, which property each parameter is stored       *)
(* under, which getters and setters are installed, and how all of it       *)
(* follows what the device reports (src/model/device.ts, registry.ts,      *)
(* capabilities/index.ts and members.ts, and the paths of                  *)
(* src/client/eufy-mega.ts that rebuild a device).                         *)
(*                                                                         *)
(* The model follows one member of one device, the focus, and the          *)
(* parameters that can matter to it.  A device resolves its properties     *)
(* from the parameters of its cloud record alone, and binds its getters    *)
(* and setters from those and the ones reported over realtime; the two are *)
(* rebuilt at different moments, by a poll and by a realtime report.  A    *)
(* value a member decodes when it is read stands for what it decodes to.   *)
(***************************************************************************)
EXTENDS CameraMembers, SecurityMembers, DeviceMembers, CleanMembers, DeviceFamilies

CONSTANTS Profiles,      \* the devices: records [d, base, silent], base the ids its
                         \* record carries, silent those a device of its kind does not report
          Reports,       \* bound: what the device reports after it was opened
          LateEvidence   \* whether the id a member's existence rests on may be reported after

VARIABLES dev,      \* the profile
          focus,    \* the member followed: [cap, row]
          cloud,    \* the parameters of the cloud record, with their values
          dp,       \* those reported over realtime since
          live,     \* the capabilities of the device object, in order
          owner,    \* the property each parameter is stored under
          ids,      \* the parameters the bound members know of
          noticed,  \* the ones a realtime report does not bind the members again for
          bcaps,    \* the capabilities they were bound with
          store,    \* the properties and their values
          widened,  \* a realtime report added an id: the reads are to be bound again
          asked,    \* the write the last report answered, Nothing if it answered none
          left      \* reports to come
vars == <<dev, focus, cloud, dp, live, owner, ids, noticed, bcaps, store, widened, asked, left>>

Nothing == -99    \* no value
Unknown == [prop |-> "unknown", inv |-> FALSE]

-----------------------------------------------------------------------------
(* The tables, by capability.                                              *)

RowsOf(cap) ==
  CASE cap = "camera" -> CameraRows [] cap = "motion" -> MotionRows
    [] cap = "audio" -> AudioRows [] cap = "battery" -> BatteryRows
    [] cap = "light" -> LightRows [] cap = "siren" -> SirenRows
    [] cap = "doorbell" -> DoorbellRows [] cap = "arming" -> ArmingRows
    [] cap = "lock" -> LockRows [] cap = "rtsp" -> RtspRows
    [] cap = "contact" -> ContactRows [] cap = "leak" -> LeakRows
    [] cap = "smoke" -> SmokeRows [] cap = "co" -> CoRows
    [] cap = "keypad" -> KeypadRows [] cap = "ptz" -> PtzRows
    [] cap = "smart_light" -> SmartLightRows [] cap = "vacuum_clean" -> VacuumCleanRows
    [] cap = "vacuum_dock" -> VacuumDockRows [] cap = "suction" -> SuctionRows
    [] cap = "locate" -> LocateRows [] OTHER -> {}

Tables == UNION {{[cap |-> c, row |-> r] : r \in RowsOf(c)} : c \in ToSet(MODULES)}
ReadParams(row) == {row.param} \cup {row.alias[i].param : i \in DOMAIN row.alias}
Readable == UNION {ReadParams(m.row) : m \in Tables}
ReadersOf == [p \in Readable |-> {m \in Tables : p \in ReadParams(m.row)}]
Called == [name \in {m.row.prop : m \in Tables} |-> {m \in Tables : m.row.prop = name}]

\* Parameters the dictionary names as the member that reads them is named.
DictionaryNames(codec) ==
  IF CODEC_LINE(codec) = "clean" THEN {134, 151, 156, 157, 158, 161, 163}
  ELSE {1011, 1020, 1101, 1103, 1141, 1224, 1249, 1250, 1251, 1271, 1276, 1292, 1298, 1309,
        1507, 1550, 1551, 6020, 6043, 6044}

-----------------------------------------------------------------------------
(* Whether a member is the device's, and where it is read.                 *)

Available(row, d, caps, known) ==
  Holds(row.on, d, caps) /\ (row.evidence = {} \/ row.evidence \cap known # {})

\* The parameters a member is read at: its own, then its aliases; when its own
\* is not for this device, the first alias takes its place.
Sources(row, d, caps) ==
  LET Mine(a) == Holds(a.on, d, caps)
      aliases == [i \in DOMAIN SelectSeq(row.alias, Mine) |->
                    [param |-> SelectSeq(row.alias, Mine)[i].param,
                     inv |-> SelectSeq(row.alias, Mine)[i].inv]]
  IN  IF row.param = NoParam THEN <<>>
      ELSE IF Holds(row.readOn, d, caps)
           THEN <<[param |-> row.param, inv |-> row.inv]>> \o aliases
           ELSE aliases
SourceParams(row, d, caps) == {s.param : s \in ToSet(Sources(row, d, caps))}

\* propertiesOf: the members of its capabilities that are properties of the device.
propertiesOf(m, caps, d, known) ==
  /\ m.cap \in ToSet(caps) /\ ~m.row.writeOnly
  /\ Sources(m.row, d, ToSet(caps)) # <<>>
  /\ Available(m.row, d, ToSet(caps), known)

\* mergeProperties: of two properties with one name the earlier capability's stays.
Rank(m, caps) == CHOOSE i \in DOMAIN caps : caps[i] = m.cap
mergeProperties(m, caps, d, known) ==
  /\ propertiesOf(m, caps, d, known)
  /\ \A n \in Called[m.row.prop] : propertiesOf(n, caps, d, known) => Rank(m, caps) <= Rank(n, caps)

(***************************************************************************)
(* The property a parameter is stored under: the first that reads it       *)
(* (specByParam), otherwise the one the dictionary gives its name to.      *)
(***************************************************************************)
Owner(p, caps, d, known) ==
  LET readers == {m \in IF p \in Readable THEN ReadersOf[p] ELSE {} :
                    /\ p \in SourceParams(m.row, d, ToSet(caps))
                    /\ mergeProperties(m, caps, d, known)}
      first == CHOOSE m \in readers : \A n \in readers : Rank(m, caps) <= Rank(n, caps)
      at == CHOOSE s \in ToSet(Sources(first.row, d, ToSet(caps))) : s.param = p
  IN  IF readers # {} THEN [prop |-> first.row.prop, inv |-> at.inv]
      ELSE IF p \in DictionaryNames(CodecOf(d))
           THEN [prop |-> (CHOOSE m \in ReadersOf[p] : m.row.param = p).row.prop, inv |-> FALSE]
           ELSE Unknown

(***************************************************************************)
(* The parameters that matter to a member: those it is read at, those it   *)
(* rests on, and the one it is borrowed from; of those, what a device of   *)
(* its kind may report.                                                    *)
(***************************************************************************)
Ladder(row) == row.name = "motionSensitivity"
LadderParams == {SENSITIVITY_SCALES[i].readParam : i \in DOMAIN SENSITIVITY_SCALES}
Relevant(row) ==
  IF Ladder(row) THEN LadderParams \ dev.silent
  ELSE ({row.param, row.borrows.param} \cup {row.alias[i].param : i \in DOMAIN row.alias}
         \cup row.evidence \cup row.requires) \ ({NoParam} \cup dev.silent)
Values(row) ==
  IF Ladder(row) THEN {5, 18, 72} ELSE CHOOSE pair \in {{0, 1}, {1, 2}, {60, 300}} : pair \subseteq row.accepts

-----------------------------------------------------------------------------
(* The record, and what is stored from it.                                 *)

CloudIds == DOMAIN cloud \cup dev.base
AllIds == CloudIds \cup DOMAIN dp
Current == dp @@ cloud    \* the value each parameter last came with

\* applyParams: each parameter under the property that owns it, in numeric order.
MutStored(p, v, owners, values) == (owners[p].prop :> v) @@ values
Stored(p, v, owners, values) ==
  (owners[p].prop :> (IF owners[p].inv THEN Flip(v) ELSE v)) @@ values
applyParams(params, owners, values) ==
  LET order == SetToSortSeq(DOMAIN params, <)
  IN  FoldLeft(LAMBDA out, p : Stored(p, params[p], owners, out), values, order)

\* resolveProperties, from the parameters of the cloud record alone.
Resolved(caps, known) ==
  [p \in Relevant(focus.row) |-> Owner(p, caps, dev.d, known)]

-----------------------------------------------------------------------------
(* The bound members.                                                      *)

Reads(row) == row.realtime \/ SourceParams(row, dev.d, bcaps) \cap ids # {}

HasGetter(row) ==
  /\ Available(row, dev.d, bcaps, ids)
  /\ Reads(row) \/ row.borrows.param \in ids
  /\ ~row.writeOnly /\ ~row.unexposed

\* installs: what a write, a typed one or an intent, must find.
installs(row) ==
  /\ row.requires = {} \/ row.requires \cap ids # {}
  /\ row.requiresRead => Reads(row)
  /\ Available(row, dev.d, bcaps, ids)
HasSetter(row) == row.write # <<>> /\ ~row.unverified /\ installs(row)

Value(prop) == IF prop \in DOMAIN store THEN store[prop] ELSE Nothing
Getter(row) == IF Value(row.prop) # Nothing THEN Value(row.prop) ELSE Value(row.borrows.prop)

\* memberWrite: the command for a value, or none for a value the member refuses.
NoCommand == [kind |-> "none", param |-> NoParam, value |-> 0]
MutEncoded(how, v) == IF how = "power" THEN Flip(v) ELSE v
Encoded(how, v) ==
  CASE how = "same" -> v
    [] how = "not" -> Flip(v)
    [] how = "power" -> IF isEnableBitPolarity(dev.d) THEN v ELSE Flip(v)
memberWrite(row, v) ==
  LET For(w) == Holds(w.on, dev.d, bcaps) /\ v \in w.takes
      wires == SelectSeq(row.write, For)
  IN  IF v \notin row.accepts \/ wires = <<>> \/ Head(wires).kind = "refuse" THEN NoCommand
      ELSE [kind |-> Head(wires).kind, param |-> Head(wires).param, value |-> Encoded(Head(wires).how, v)]

\* buildCommand: the first capability with a member of that name that can be written.
Claimants == [name \in DOMAIN Called |-> {m \in Tables : m.row.prop = name \/ name \in m.row.intents}]
Place(m) == CHOOSE i \in DOMAIN MODULES : MODULES[i] = m.cap
Claimant(name) ==
  LET able == {m \in Claimants[name] :
                 m.cap \in bcaps /\ (m.row.unverified \/ (m.row.write # <<>> /\ installs(m.row)))}
  IN  {m \in able : \A n \in able : Place(m) <= Place(n)}
buildCommand(first, v) ==
  IF first = {} \/ \E m \in first : m.row.unverified THEN NoCommand
  ELSE memberWrite((CHOOSE m \in first : TRUE).row, v)

-----------------------------------------------------------------------------
(* Where a command goes (routeCommand), and what the router there takes.   *)

routeCommand(kind) ==
  CASE kind \in {"ff09-actuate", "ff09-autolock", "ff09-setting-toggle"} -> IF dev.d.p2p THEN "p2p" ELSE "mqtt"
    [] kind \in {"mqtt-dp", "mqtt-dp-preset", "mqtt-dp-color"} -> "mqtt"
    [] kind = "aiot-dp" -> IF dev.d.category = "eufy_home_tuya" THEN "tuya" ELSE "mqtt"
    [] OTHER -> "p2p"
Dispatched(router) ==
  CASE router = "p2p" -> {"set-param", "set-json", "set-json-raw", "set-payload", "p2p-station-scalar",
                          "p2p-int-string", "p2p-privacy-burst", "ff09-actuate", "ff09-autolock",
                          "ff09-setting-toggle"}
    [] router = "mqtt" -> {"ff09-actuate", "ff09-autolock", "mqtt-dp", "mqtt-dp-preset", "mqtt-dp-color",
                           "aiot-dp"}
    [] router = "tuya" -> {"aiot-dp"}
Claimed(router) == (router = "p2p") = dev.d.p2p

-----------------------------------------------------------------------------
(* The device object.  It is opened with what its record carries           *)
(* (getDevice), widened by the polls and by the realtime reports.          *)

\* The ids the member rests on come with the record unless LateEvidence.
Rests(row) == row.evidence \cup (IF row.borrows = NoSource THEN {}
                                 ELSE UNION {r.evidence : r \in {s \in RowsOf(focus.cap) : s.prop = row.borrows.prop}})

Init ==
  /\ dev \in Profiles
  /\ focus \in UNION {{[cap |-> c, row |-> r] : r \in RowsOf(c)} :
                        c \in ToSet(resolveDevice(dev.d, dev.base))}
  /\ \E S \in SUBSET Relevant(focus.row), v \in Values(focus.row) : cloud = [p \in S |-> v]
  /\ dp = <<>>
  /\ ids = CloudIds /\ noticed = CloudIds
  /\ \E caps \in {resolveDevice(dev.d, CloudIds)} :
       live = caps /\ owner = Resolved(caps, CloudIds) /\ bcaps = ToSet(caps)
  /\ store = applyParams(cloud, owner, <<>>)
  /\ widened = FALSE /\ asked = Nothing /\ left = Reports

\* commandContext: what the members are bound with.
Bound(known, cloudKnown) ==
  ids' = known /\ noticed' = noticed \cup known /\ bcaps' = ToSet(resolveDevice(dev.d, cloudKnown))

(***************************************************************************)
(* A poll finds that a parameter of the record changed: the realtime       *)
(* report of it is retired, the change is applied, and the device is       *)
(* resolved again; its members are bound again when that gained it a       *)
(* capability (pollOnce, widenCapabilities, Device.reresolve).             *)
(***************************************************************************)
Polled(p, v) ==
  /\ ~(p \in DOMAIN cloud /\ cloud[p] = v)
  /\ cloud' = (p :> v) @@ cloud
  /\ dp' = [q \in DOMAIN dp \ {p} |-> dp[q]]
  /\ store' = applyParams(p :> v, owner, store)
  /\ \E next \in {resolveDevice(dev.d, CloudIds \cup {p})} :
       /\ live' = Once(live \o next)
       /\ IF ToSet(next) \subseteq ToSet(live) THEN UNCHANGED <<ids, noticed, bcaps>>
          ELSE Bound(AllIds \cup {p}, CloudIds \cup {p})
  /\ \E caps \in {live'} : owner' = Resolved(caps, CloudIds \cup {p})

(***************************************************************************)
(* A realtime report: it is kept apart from the record, applied, and when  *)
(* it brought a parameter the members do not know of, they are bound again *)
(* (applyRealtimeState, rebindReads).  The device is not resolved again.   *)
(***************************************************************************)
Reported1(p, v) ==
  /\ dp' = (p :> v) @@ dp
  /\ store' = applyParams(p :> v, owner, store)
  /\ widened' = (widened \/ p \notin noticed)
  /\ noticed' = noticed \cup {p}
  /\ UNCHANGED <<cloud, live, owner, ids, bcaps>>

CanCarry(p) == LateEvidence \/ p \in CloudIds \/ p \notin Rests(focus.row)

PollReports(p, v) ==
  /\ left > 0 /\ left' = left - 1
  /\ Polled(p, v)
  /\ asked' = Nothing
  /\ UNCHANGED <<dev, focus, widened>>
RealtimeReports(p, v) ==
  /\ left > 0 /\ left' = left - 1
  /\ CanCarry(p)
  /\ Reported1(p, v)
  /\ asked' = Nothing
  /\ UNCHANGED <<dev, focus>>
\* Binding again reads the record, and a failure to is reported and not tried again.
RebindReads ==
  /\ widened /\ widened' = FALSE
  /\ Bound(AllIds, CloudIds) \/ UNCHANGED <<ids, noticed, bcaps>>
  /\ UNCHANGED <<dev, focus, cloud, dp, live, owner, store, asked, left>>

(***************************************************************************)
(* A write through the typed setter or by the property's name.  The device *)
(* does it and reports the parameter it was written at, when that is one   *)
(* the member is read at.                                                  *)
(***************************************************************************)
Write(v) ==
  LET cmd == IF HasSetter(focus.row) THEN memberWrite(focus.row, v) ELSE NoCommand
  IN  /\ asked = Nothing
      /\ cmd # NoCommand /\ cmd.param \in SourceParams(focus.row, dev.d, bcaps) \ dev.silent
      /\ Reported1(cmd.param, cmd.value)
      /\ asked' = v
      /\ UNCHANGED <<dev, focus, left>>

\* A step of motion sensitivity, written along the ladder the device reports itself on.
Ladders == [p \in LadderParams \cap DOMAIN Current |-> Current[p]]
WriteStep(n) ==
  /\ Ladder(focus.row) /\ asked = Nothing
  /\ scaleFor(Ladders) # 0 /\ n \in DOMAIN SENSITIVITY_SCALES[scaleFor(Ladders)].ladder
  /\ Reported1(SENSITIVITY_SCALES[scaleFor(Ladders)].readParam, sensitivityCommand(n, Ladders).value)
  /\ asked' = n
  /\ UNCHANGED <<dev, focus, left>>

\* The two members read out of a doorbell's quality number, and its one write.
Composed(row) == DOORBELL_CMD.VIDEO_QUALITY \in {row.param, row.borrows.param}
Half(row, q, c) == IF row.borrows = NoSource THEN q ELSE c
WriteQuality(q, c) ==
  /\ Composed(focus.row) /\ asked = Nothing
  /\ Reported1(DOORBELL_CMD.VIDEO_QUALITY, setVideoQuality(q, c))
  /\ asked' = Half(focus.row, q, c)
  /\ UNCHANGED <<dev, focus, left>>

Next ==
  \/ \E p \in Relevant(focus.row), v \in Values(focus.row) : PollReports(p, v) \/ RealtimeReports(p, v)
  \/ RebindReads
  \/ \E v \in Values(focus.row) : Write(v)
  \/ \E n \in 1..7 : WriteStep(n)
  \/ \E q \in DoorbellVideoQuality, c \in {0, 1} : WriteQuality(q, c)

Spec == Init /\ [][Next]_vars

-----------------------------------------------------------------------------
(***************************************************************************)
(* A getter that is installed shows a value its own parameters came with,  *)
(* once one of them did: no other member's parameter is stored under its   *)
(* name, and none of its own is stored under another (mergeProperties,     *)
(* specByParam, the parameter dictionary, propertiesOf and bindMembers     *)
(* decide those five things apart from each other).                        *)
(***************************************************************************)
Reportings(row) ==
  {IF s.inv THEN Flip(Current[s.param]) ELSE Current[s.param] :
     s \in {t \in ToSet(Sources(row, dev.d, bcaps)) : t.param \in DOMAIN Current}}
Shown(row) ==
  IF Reportings(row) # {} \/ row.borrows = NoSource THEN Reportings(row)
  ELSE UNION {Reportings(r) : r \in {s \in RowsOf(focus.cap) : s.prop = row.borrows.prop}}
GettersAreTrue ==
  HasGetter(focus.row) /\ ~widened /\ Shown(focus.row) # {} => Getter(focus.row) \in Shown(focus.row)

\* What was written reads back once the device has reported it: the write and
\* the read of a member agree on the parameter, the polarity, the ladder and
\* the two halves of a number.
ReadsBack ==
  asked # Nothing =>
    LET row == focus.row
        raw == Getter(row) IN
    CASE Ladder(row) -> sensitivityStep(Ladders) = asked
      [] Composed(row) -> HasGetter(row) => Half(row, QualityOf(raw), CompressionOf(raw)) = asked
      [] OTHER -> HasGetter(row) => raw = asked

\* A command of an installed setter reaches a router that has the device and
\* knows the command, and the same write by the property's name is the same command.
WritesLand ==
  HasSetter(focus.row) =>
    LET first == Claimant(focus.row.prop)
    IN  \A v \in Values(focus.row) :
          LET cmd == memberWrite(focus.row, v)
          IN  cmd # NoCommand =>
                /\ cmd.kind \in Dispatched(routeCommand(cmd.kind)) /\ Claimed(routeCommand(cmd.kind))
                /\ buildCommand(first, v) = cmd
=============================================================================
