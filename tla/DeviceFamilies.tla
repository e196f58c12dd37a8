--------------------------- MODULE DeviceFamilies ---------------------------
(***************************************************************************)
(* What kind of device a cloud record is, and which capabilities it has    *)
(* (src/model/classify.ts, device-family.ts, registry.ts and the detection *)
(* rules of src/model/capabilities).  A record d has                       *)
(*   type      its device type, or NoType                                  *)
(*   model     its model, one of each kind the code tells apart            *)
(*   category  "security", "vacuum", "printer" or "eufy_home_tuya"         *)
(*   attached  whether another serial is its parent                        *)
(*   named     the capabilities a word in its model, category or name      *)
(*             suggests (modelHints)                                       *)
(*   p2p       whether it has a P2P endpoint                               *)
(* and reported is the set of parameters its record carries.               *)
(***************************************************************************)
EXTENDS Integers, Sequences, SequencesExt, FiniteSets

NoType == -1

\* ----------------------------------------------------------- the families
STATION_TYPES == {0, 18, 25, 28, 300, 301}
LOCK_TYPES == (50..58) \cup {180, 184, 189, 201, 202, 209} \cup (140..143)
SENSOR_TYPES == {2, 10, 20, 21, 22, 123, 126, 127}
KEYPAD_TYPES == {11}
INDOOR_PT_S350_TYPES == {104, 105, 10008, 10009, 10010}
INDOOR_CAMERA_TYPES == {30, 31, 34, 35, 44, 45, 46, 100} \cup INDOOR_PT_S350_TYPES
WALL_LIGHT_TYPES == {151, 10005}
HOMEBASE_TYPES == {0, 18, 25, 28}
PLAIN_INDOOR_PAN_TILT == {31, 35}
INDOOR_COST_DOWN_CAMERA == 100

isKnownSecurityType(t) ==
  /\ t \notin {157, 159}    \* the trackers
  /\ t \in (0..210) \cup (300..301) \cup (10000..10100)
codecForType(t) ==
  IF t \in STATION_TYPES THEN "station"
  ELSE IF t \in LOCK_TYPES THEN "lock"
  ELSE IF t \in SENSOR_TYPES THEN "sensor"
  ELSE IF t \in KEYPAD_TYPES THEN "keypad"
  ELSE IF isKnownSecurityType(t) THEN "camera" ELSE "none"

\* The codec a model's prefix says; a model of no line the code knows says none.
Models ==
  [T8030 |-> "station", T8423 |-> "camera", T8210 |-> "camera", T8114 |-> "camera",
   T8170 |-> "camera", T8400 |-> "camera", T8410 |-> "camera", T8425 |-> "camera",
   T8441 |-> "camera", T8501 |-> "lock", T8900 |-> "sensor", T8910 |-> "sensor",
   T90R0 |-> "none", T8960 |-> "keypad", T8L00 |-> "light", T87A0 |-> "display",
   T2801 |-> "mower", T2118 |-> "vacuum", T2351 |-> "vacuum", unknown |-> "none"]
codecFromModel(m) == Models[m]

(***************************************************************************)
(* classify: a robot's category or model decides first, then the device    *)
(* type, then the model, and a camera is what remains.                     *)
(***************************************************************************)
classify(d) ==
  LET byModel == codecFromModel(d.model)
      byType == codecForType(d.type)
  IN  IF d.category = "printer" THEN "printer"
      ELSE IF byModel = "mower" THEN "mower"
      ELSE IF d.category = "vacuum" \/ byModel = "vacuum" THEN "vacuum"
      ELSE IF byModel \in {"light", "display"} THEN byModel
      ELSE IF byType # "none" THEN byType
      ELSE IF byModel # "none" THEN byModel ELSE "camera"

\* MODEL_REGISTRY: the capabilities the row of a model adds; every row's codec is its prefix's.
RegistryRow(m) ==
  CASE m \in {"T8423", "T8114"} -> <<"light", "battery">>
    [] m = "T8210" -> <<"doorbell", "battery">>
    [] m = "T8170" -> <<"battery", "arming">>
    [] m \in {"T8400", "T8410"} -> <<"arming">>
    [] m = "T8900" -> <<"contact">>
    [] m = "T8910" -> <<"battery">>
    [] OTHER -> <<>>
Registered == {"T8030", "T8960", "T8L00", "T87A0", "T2801", "T2118", "T2351"}
              \cup {m \in DOMAIN Models : RegistryRow(m) # <<>>}
CodecOf(d) == IF d.model \in Registered THEN codecFromModel(d.model) ELSE classify(d)

\* ----------------------------------------------------------- capabilities
MODULES ==
  <<"video", "rtsp", "snapshot", "motion", "person_detection", "battery", "light", "smart_light",
    "ptz", "camera", "audio", "doorbell", "contact", "leak", "smoke", "co", "siren", "lock",
    "keypad", "arming", "storage", "vacuum_clean", "vacuum_dock", "suction", "locate", "info">>

CODEC_LINE(codec) ==
  CASE codec \in {"vacuum", "mower"} -> "clean"
    [] codec = "light" -> "life"
    [] codec = "printer" -> "print"
    [] OTHER -> "security"
LineOf(cap) ==
  CASE cap \in {"vacuum_clean", "vacuum_dock", "suction", "locate"} -> "clean"
    [] cap = "smart_light" -> "life"
    [] cap = "info" -> "any"
    [] OTHER -> "security"
MutLineAllows(cap, codec) == TRUE
lineAllows(cap, codec)    == LineOf(cap) \in {"any", CODEC_LINE(codec)}

(***************************************************************************)
(* The detection rules: the codecs a capability is the baseline of, the    *)
(* parameters and the device types that prove it.                          *)
(***************************************************************************)
BaselineCodecs(cap) ==
  CASE cap \in {"video", "snapshot", "motion", "person_detection", "camera"} -> {"camera"}
    [] cap \in {"lock", "keypad"} -> {cap}
    [] cap \in {"arming", "storage"} -> {"station"}
    [] cap = "smart_light" -> {"light"}
    [] cap \in {"vacuum_clean", "suction", "locate"} -> {"vacuum"}
    [] OTHER -> {}
EvidenceParams(cap) ==
  CASE cap = "video" -> {1056} [] cap = "rtsp" -> {1145} [] cap = "snapshot" -> {1004}
    [] cap = "motion" -> {1011} [] cap = "battery" -> {1101}
    [] cap = "light" -> {1400, 1401, 1403, 6080, 6082, 1413}
    [] cap = "ptz" -> {1029, 6090, 6091, 6092, 6210} [] cap = "audio" -> {1240, 1241}
    [] cap = "contact" -> {1550} [] cap = "arming" -> {1224} [] cap = "vacuum_dock" -> {173}
    [] OTHER -> {}
EvidenceTypes(cap) ==
  CASE cap = "motion" -> {10, 127}
    [] cap = "ptz" -> {48, 31, 35, 111, 10008, 10009, 10010, 10011, 47}
    [] cap = "audio" -> HOMEBASE_TYPES
    [] OTHER -> {}

\* The siren's own rule: a hub's tone, an attached camera's alarm, a standalone siren's reports.
detectSiren(d, codec, reported) ==
  \/ d.type \in HOMEBASE_TYPES /\ reported \cap {1281, 1282} # {}
  \/ codec = "camera" /\ d.attached /\ 1015 \in reported
  \/ codec = "sensor" /\ 1825 \in reported /\ reported \cap {61008, 61006} # {}

detectCapabilities(d, reported) ==
  LET codec == CodecOf(d)
      Matched(cap) == /\ lineAllows(cap, codec)
                      /\ \/ EvidenceParams(cap) \cap reported # {}
                         \/ d.type \in EvidenceTypes(cap)
                         \/ cap \in d.named
                         \/ codec \in BaselineCodecs(cap)
                         \/ cap = "siren" /\ detectSiren(d, codec, reported)
                         \/ cap = "info"
  IN  SelectSeq(MODULES, Matched)
codecBaseline(codec) ==
  LET Baseline(cap) == codec \in BaselineCodecs(cap) IN SelectSeq(MODULES, Baseline)

\* The first occurrence of each element stays (dedupeCaps, and a JavaScript Set).
Once(s) == FoldLeft(LAMBDA out, x : IF x \in ToSet(out) THEN out ELSE Append(out, x), <<>>, s)
STATION_OWNED_CAPABILITIES == {"arming"}
resolveDevice(d, reported) ==
  LET codec == CodecOf(d)
      Kept(cap) == ~(d.attached /\ codec # "station" /\ cap \in STATION_OWNED_CAPABILITIES)
  IN  SelectSeq(Once(RegistryRow(d.model) \o codecBaseline(codec) \o detectCapabilities(d, reported)), Kept)

(***************************************************************************)
(* The gates the member tables name: what a device and its capabilities    *)
(* must be for a member, a reading or a wire form to be theirs.            *)
(***************************************************************************)
LIGHT_SWITCH_JSON_TYPES == {47, 31, 35, 111} \cup WALL_LIGHT_TYPES
LIGHT_SWITCH_INT_STRING_TYPES == {44, 45, 46, 48, 88, 8, 9, 14, 15, 19, 23}
MAINS_CAMERA_MODELS == {"T8425"}
Holds(gate, d, caps) ==
  CASE gate = "any" -> TRUE
    [] gate = "plainPT" -> d.type \in PLAIN_INDOOR_PAN_TILT
    [] gate = "notPlainPT" -> d.type \notin PLAIN_INDOOR_PAN_TILT
    [] gate = "doorbell" -> "doorbell" \in caps
    [] gate = "notDoorbell" -> "doorbell" \notin caps
    [] gate = "sensor" -> CodecOf(d) = "sensor"
    [] gate = "cameraCodec" -> CodecOf(d) = "camera"
    [] gate = "homeBase" -> d.type \in HOMEBASE_TYPES
    [] gate = "notMains" -> d.model \notin MAINS_CAMERA_MODELS
    [] gate = "jsonLight" -> d.type \in LIGHT_SWITCH_JSON_TYPES
    [] gate = "scalarLight" -> d.type \in LIGHT_SWITCH_INT_STRING_TYPES
    [] gate = "p2p" -> d.p2p
    [] gate = "aiot" -> d.category # "eufy_home_tuya"
    [] gate = "tuya" -> d.category = "eufy_home_tuya"

\* The switch of an indoor camera and of two floodlights is an enable bit, of the others a disable bit.
ENABLE_BIT_FLOODLIGHT_TYPES == {37, 39}
isEnableBitPolarity(d) ==
  \/ d.type \in INDOOR_CAMERA_TYPES \ ({INDOOR_COST_DOWN_CAMERA} \cup INDOOR_PT_S350_TYPES)
  \/ d.type \in ENABLE_BIT_FLOODLIGHT_TYPES
=============================================================================
