-------------------------- MODULE SecurityMembers --------------------------
(***************************************************************************)
(* The value members of motion, audio, battery, light and siren            *)
(* (src/model/capabilities/motion.ts, audio.ts, battery.ts, light.ts and   *)
(* siren.ts), and the ladders motion sensitivity is set along.             *)
(***************************************************************************)
EXTENDS Members

\* -------------------------------------------------------------- motion
MOTION_CMD ==
  [CAMERA_PIR |-> 1011, MOTION_DETECT_ENABLE |-> 6040, PET_DETECT_ENABLE |-> 6047,
   MOTION_SENSITIVITY |-> 1276, SENSOR_PIR_SENSITIVITY |-> 1609,
   SENSOR_ENTER_TEST_MODE |-> 1613, SENSOR_EXIT_TEST_MODE |-> 1610, SENSOR_WORK_MODE |-> 1612,
   AI_DETECT_TYPE |-> 1298, INDOOR_MOTION_DETECT_TYPE |-> 6045, SNOOZE_TIME |-> 1271,
   HUMAN_ONLY_AT_NIGHT |-> 1719, LOITERING_DETECTION |-> 2706,
   CAMERA_PIR_SENSITIVITY |-> 1210, INDOOR_SENSITIVITY_INDEX |-> 6041, SOLO_SENSITIVITY |-> 6070]

\* requireFamily("...", ctx, "camera"): a sensor refuses, everything else writes.
CamerasOnly(wires) == <<Refuse("sensor")>> \o wires

DetectionEnabled ==
  [Row("detectionEnabled", MOTION_CMD.CAMERA_PIR, "bool") EXCEPT
     !.prop = "motionDetection", !.readOn = "notPlainPT",
     !.alias = <<Alias(MOTION_CMD.MOTION_DETECT_ENABLE, FALSE, "plainPT")>>,
     !.write = CamerasOnly(<<Wire("plainPT", "set-json", MOTION_CMD.MOTION_DETECT_ENABLE, "same"),
                             Wire("any", "set-param", MOTION_CMD.CAMERA_PIR, "same")>>)]

PetDetection ==
  Written("petDetection", MOTION_CMD.PET_DETECT_ENABLE, "bool",
          <<Refuse("notPlainPT"), Wire("any", "set-json", MOTION_CMD.PET_DETECT_ENABLE, "same")>>)

AiDetectType ==
  [Row("aiDetectType", MOTION_CMD.AI_DETECT_TYPE, "number") EXCEPT
     !.readOn = "notPlainPT",
     !.alias = <<Alias(MOTION_CMD.INDOOR_MOTION_DETECT_TYPE, FALSE, "plainPT")>>,
     !.accepts = 0..110,
     !.write = CamerasOnly(
        <<Taking(Wire("plainPT", "set-json", MOTION_CMD.INDOOR_MOTION_DETECT_TYPE, "same"), 1..7),
          Wire("notPlainPT", "set-payload", MOTION_CMD.AI_DETECT_TYPE, "same")>>)]

Sensitivities ==
  {Unexposed("motionSensitivity", MOTION_CMD.MOTION_SENSITIVITY, "number"),
   Unexposed("soloSensitivity", MOTION_CMD.SOLO_SENSITIVITY, "number"),
   Unexposed("indoorSensitivity", MOTION_CMD.INDOOR_SENSITIVITY_INDEX, "number"),
   Unexposed("pirSensitivityRaw", MOTION_CMD.CAMERA_PIR_SENSITIVITY, "number"),
   Unexposed("sensorPirSensitivity", MOTION_CMD.SENSOR_PIR_SENSITIVITY, "number")}

\* Test mode is read at SENSOR_WORK_MODE and entered and left by two other commands.
TestMode ==
  [Row("testMode", MOTION_CMD.SENSOR_WORK_MODE, "bool") EXCEPT
     !.on = "sensor",
     !.write = <<Taking(Wire("sensor", "set-payload", MOTION_CMD.SENSOR_ENTER_TEST_MODE, "same"), {1}),
                 Taking(Wire("sensor", "set-param", MOTION_CMD.SENSOR_EXIT_TEST_MODE, "same"), {0})>>]

\* The snooze is reported as a document and decoded to its seconds.
SnoozeTime ==
  [Bounded(Row("snoozeTime", MOTION_CMD.SNOOZE_TIME, "string"), 0, 110) EXCEPT
     !.decode = TRUE, !.write = CamerasOnly(SetJsonRaw(MOTION_CMD.SNOOZE_TIME))]

NightAndLoitering ==
  {[Written(r[1], r[2], "bool", CamerasOnly(SetPayload(r[2])))
      EXCEPT !.on = "notPlainPT", !.requires = {r[2]}] :
     r \in {<<"humanOnlyAtNight", MOTION_CMD.HUMAN_ONLY_AT_NIGHT>>,
            <<"loiteringDetection", MOTION_CMD.LOITERING_DETECTION>>}}

MotionRows == {DetectionEnabled, PetDetection, AiDetectType, TestMode, SnoozeTime}
              \cup Sensitivities \cup NightAndLoitering

(***************************************************************************)
(* The five ladders of motion sensitivity: the parameter a position is     *)
(* read at, the id it is written with and the values of the positions.     *)
(***************************************************************************)
Scale(readParam, writeId, ladder) == [readParam |-> readParam, writeId |-> writeId, ladder |-> ladder]
SENSITIVITY_SCALES ==
  <<Scale(MOTION_CMD.SENSOR_PIR_SENSITIVITY, MOTION_CMD.SENSOR_PIR_SENSITIVITY, <<80, 53, 37, 18, 8>>),
    Scale(MOTION_CMD.CAMERA_PIR_SENSITIVITY, MOTION_CMD.CAMERA_PIR_SENSITIVITY,
          <<192, 118, 72, 46, 30, 20, 14>>),
    Scale(MOTION_CMD.SOLO_SENSITIVITY, MOTION_CMD.MOTION_SENSITIVITY, <<1, 2, 3, 4, 5, 6, 7>>),
    Scale(MOTION_CMD.MOTION_SENSITIVITY, MOTION_CMD.MOTION_SENSITIVITY, <<1, 2, 3, 4, 5>>),
    Scale(MOTION_CMD.INDOOR_SENSITIVITY_INDEX, MOTION_CMD.INDOOR_SENSITIVITY_INDEX, <<1, 2, 3, 4, 5>>)>>

Positions(scale) == {scale.ladder[i] : i \in 1..Len(scale.ladder)}
isDistinctive(scale) == \E v \in Positions(scale) : v > Len(scale.ladder)

(***************************************************************************)
(* The ladder of a device: the first distinctive one whose reported value  *)
(* is a position of it, otherwise the first plain one whose parameter is   *)
(* reported.  0 when the device has none.                                  *)
(***************************************************************************)
FirstOf(S) == IF S = {} THEN 0 ELSE CHOOSE i \in S : \A j \in S : i <= j
scaleFor(reported) ==
  LET named == {i \in DOMAIN SENSITIVITY_SCALES :
                  /\ isDistinctive(SENSITIVITY_SCALES[i])
                  /\ SENSITIVITY_SCALES[i].readParam \in DOMAIN reported
                  /\ reported[SENSITIVITY_SCALES[i].readParam] \in Positions(SENSITIVITY_SCALES[i])}
      plain == {i \in DOMAIN SENSITIVITY_SCALES :
                  /\ ~isDistinctive(SENSITIVITY_SCALES[i])
                  /\ SENSITIVITY_SCALES[i].readParam \in DOMAIN reported}
  IN  IF named # {} THEN FirstOf(named) ELSE FirstOf(plain)

\* The position a device reports itself at, and the command for another; 0 for neither.
sensitivityStep(reported) ==
  LET s == scaleFor(reported)
  IN  IF s = 0 THEN 0
      ELSE LET scale == SENSITIVITY_SCALES[s]
           IN  FirstOf({i \in 1..Len(scale.ladder) : scale.ladder[i] = reported[scale.readParam]})
sensitivityCommand(step, reported) ==
  LET scale == SENSITIVITY_SCALES[scaleFor(reported)]
  IN  [param |-> scale.writeId, value |-> scale.ladder[step]]

\* --------------------------------------------------------------- audio
AUDIO_CMD ==
  [AUDIO_MICROPHONE |-> 1240, AUDIO_SPEAKER |-> 1241, SPEAKER_VOLUME |-> 1230,
   AUDIO_RECORDING |-> 1288, AUDIO_RECORDING_INDOOR_PT |-> 6012,
   DOORBELL_RINGTONE_VOLUME |-> 1708, HUB_PROMPT_VOLUME |-> 1292]

AudioSwitches ==
  {[Written(r[1], r[2], "bool", SetScalar(r[2])) EXCEPT !.on = "cameraCodec"] :
     r \in {<<"microphone", AUDIO_CMD.AUDIO_MICROPHONE>>, <<"speaker", AUDIO_CMD.AUDIO_SPEAKER>>}}

\* Recording sound: a mute bit everywhere but on the plain indoor pan-tilt cameras.
AudioRecording ==
  [Row("audioRecording", AUDIO_CMD.AUDIO_RECORDING, "bool") EXCEPT
     !.inv = TRUE, !.on = "cameraCodec", !.readOn = "notPlainPT",
     !.alias = <<Alias(AUDIO_CMD.AUDIO_RECORDING_INDOOR_PT, FALSE, "plainPT")>>,
     !.write = <<Wire("plainPT", "set-json", AUDIO_CMD.AUDIO_RECORDING_INDOOR_PT, "same"),
                 Wire("any", "set-payload", AUDIO_CMD.AUDIO_RECORDING, "not")>>]

AudioVolumes ==
  {[Bounded(Written("volume", AUDIO_CMD.SPEAKER_VOLUME, "number",
                    SetScalar(AUDIO_CMD.SPEAKER_VOLUME)), 0, 100)
      EXCEPT !.prop = "speakerVolume", !.on = "cameraCodec", !.intents = {"volume"}],
   [Bounded(WriteOnly("ringtoneVolume", AUDIO_CMD.DOORBELL_RINGTONE_VOLUME, "number",
                      SetScalar(AUDIO_CMD.DOORBELL_RINGTONE_VOLUME)), 0, 100) EXCEPT !.on = "doorbell"],
   [Bounded(WriteOnly("promptVolume", AUDIO_CMD.HUB_PROMPT_VOLUME, "number",
                      SetPayload(AUDIO_CMD.HUB_PROMPT_VOLUME)), 0, 100) EXCEPT !.on = "homeBase"]}

AudioRows == AudioSwitches \cup {AudioRecording} \cup AudioVolumes

\* ------------------------------------------------------------- battery
BATTERY_PARAM ==
  [BATTERY |-> 1101, BATTERY_STATUS |-> 2111, BATTERY_TEMP |-> 1138, BATTERY_HEALTH |-> 1198,
   POWER_CHARGE |-> 1293, WORKING_MODE |-> 1246, RECORD_DURATION |-> 1249,
   RECORD_INTERVAL |-> 1250, RECORD_AUTO_STOP |-> 1251, SOLAR_INTENSITY |-> 1309,
   SOLAR_CONNECT_24H |-> 6482, BATTERY_POWER_DATAS |-> 3100, CAMERA_INFO |-> 1103]

BatteryReadings ==
  {[ReadOnly("level", BATTERY_PARAM.BATTERY, "number") EXCEPT !.prop = "battery", !.on = "notMains"],
   [ReadOnly("charging", BATTERY_PARAM.BATTERY_STATUS, "bool") EXCEPT !.on = "notMains"],
   [ReadOnly("temperature", BATTERY_PARAM.BATTERY_TEMP, "number") EXCEPT !.prop = "batteryTemperature"],
   [ReadOnly("health", BATTERY_PARAM.BATTERY_HEALTH, "number") EXCEPT !.prop = "batteryHealth"],
   ReadOnly("solarIntensity", BATTERY_PARAM.SOLAR_INTENSITY, "number"),
   ReadOnly("solarConnected24h", BATTERY_PARAM.SOLAR_CONNECT_24H, "bool"),
   Unexposed("batteryPowerStats", BATTERY_PARAM.BATTERY_POWER_DATAS, "string"),
   Unexposed("cameraInfo", BATTERY_PARAM.CAMERA_INFO, "number")}

PowerSource ==
  [Enum(Row("powerSource", BATTERY_PARAM.POWER_CHARGE, "enum"), {0, 1}) EXCEPT
     !.requires = {BATTERY_PARAM.POWER_CHARGE}, !.write = SetPayload(BATTERY_PARAM.POWER_CHARGE)]

\* The mode is published per model and accepted as any number from 0.
WorkingMode ==
  [Bounded(Row("workingMode", BATTERY_PARAM.WORKING_MODE, "number"), 0, 110) EXCEPT
     !.requires = {BATTERY_PARAM.WORKING_MODE}, !.write = SetScalar(BATTERY_PARAM.WORKING_MODE)]

RecordSettings ==
  {[Bounded(Written(r[1], r[2], "number", SetStationScalar(r[2])), 0, 110) EXCEPT !.requires = {r[2]}] :
     r \in {<<"recordDuration", BATTERY_PARAM.RECORD_DURATION>>,
            <<"recordInterval", BATTERY_PARAM.RECORD_INTERVAL>>}}
  \cup {[Row("recordAutoStop", BATTERY_PARAM.RECORD_AUTO_STOP, "bool") EXCEPT
            !.requires = {BATTERY_PARAM.RECORD_AUTO_STOP}, !.inv = TRUE,
            !.write = <<Wire("any", "p2p-station-scalar", BATTERY_PARAM.RECORD_AUTO_STOP, "not")>>]}

BatteryRows == BatteryReadings \cup {PowerSource, WorkingMode} \cup RecordSettings

\* --------------------------------------------------------------- light
LIGHT_CMD ==
  [FLOODLIGHT_SWITCH |-> 1400, SPOTLIGHT_BRIGHTNESS |-> 1401, SPOTLIGHT_ENABLE |-> 1403,
   SPOTLIGHT_COLOR_TEMP |-> 1410, MOTION_ACTIVATE_LIGHT |-> 1422]

\* The switch of the light: two wire forms by device type, and a refusal on the others.
IsOn ==
  [Row("isOn", LIGHT_CMD.FLOODLIGHT_SWITCH, "bool") EXCEPT
     !.prop = "light", !.on_off = TRUE,
     !.write = <<Wire("jsonLight", "set-json", LIGHT_CMD.FLOODLIGHT_SWITCH, "same"),
                 Wire("scalarLight", "set-param", LIGHT_CMD.FLOODLIGHT_SWITCH, "same"),
                 Refuse("any")>>]

LightLevels ==
  {Bounded(Written("brightness", LIGHT_CMD.SPOTLIGHT_BRIGHTNESS, "number",
                   SetScalar(LIGHT_CMD.SPOTLIGHT_BRIGHTNESS)), 1, 100),
   Bounded(WriteOnly("colorTemp", LIGHT_CMD.SPOTLIGHT_COLOR_TEMP, "number",
                     SetScalar(LIGHT_CMD.SPOTLIGHT_COLOR_TEMP)), 0, 100),
   Written("spotlightEnabled", LIGHT_CMD.SPOTLIGHT_ENABLE, "bool", SetScalar(LIGHT_CMD.SPOTLIGHT_ENABLE))}

LightRows == {IsOn} \cup LightLevels

\* --------------------------------------------------------------- siren
SIREN_PARAM == [RING_STATUS |-> 61008, ALARM_VOLUME |-> 1825, ALARM_TIMEOUT |-> 61006, NOT_DISTURB |-> 1828]
SIREN_CMD ==
  [ALARM_TEST |-> 1826, MANUAL_STOP |-> 1871, HOMEBASE_TONE |-> 1201, HUB_SPK_VOLUME |-> 1235,
   HUB_ALARM_TONE |-> 1281, CAMERA_TONE |-> 1202]
HUB_ALARM_EVIDENCE == {SIREN_CMD.HUB_ALARM_TONE, 1282}
SirenVolume == 1..3
SirenAlarmDuration == {60, 300, 600, 900}
HubAlarmTone == {1, 2}

StandaloneSiren ==
  {[ReadOnly("active", SIREN_PARAM.RING_STATUS, "bool") EXCEPT !.prop = "siren", !.on = "sensor"],
   [Enum(Written("volume", SIREN_PARAM.ALARM_VOLUME, "number", SetPayload(SIREN_PARAM.ALARM_VOLUME)), SirenVolume)
      EXCEPT !.prop = "sirenVolume", !.on = "sensor", !.requires = {SIREN_PARAM.ALARM_VOLUME}],
   [Enum(Written("alarmDuration", SIREN_PARAM.ALARM_TIMEOUT, "number", SetPayload(SIREN_PARAM.ALARM_TIMEOUT)),
         SirenAlarmDuration) EXCEPT !.on = "sensor", !.requires = {SIREN_PARAM.ALARM_TIMEOUT}],
   [ReadOnly("doNotDisturb", SIREN_PARAM.NOT_DISTURB, "bool") EXCEPT !.on = "sensor"]}

HubAlarm ==
  {[Bounded(WriteOnly("alarmVolume", SIREN_CMD.HUB_SPK_VOLUME, "number",
                      SetStationScalar(SIREN_CMD.HUB_SPK_VOLUME)), 0, 100)
      EXCEPT !.on = "homeBase", !.requires = HUB_ALARM_EVIDENCE],
   [Enum(Written("alarmTone", SIREN_CMD.HUB_ALARM_TONE, "number", SetPayload(SIREN_CMD.HUB_ALARM_TONE)), HubAlarmTone)
      EXCEPT !.prop = "hubAlarmTone", !.on = "homeBase", !.requires = HUB_ALARM_EVIDENCE]}

SirenRows == StandaloneSiren \cup HubAlarm
=============================================================================
