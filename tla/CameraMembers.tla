--------------------------- MODULE CameraMembers ---------------------------
(***************************************************************************)
(* The value members of the camera capability                              *)
(* (src/model/capabilities/camera.ts): the picture, the sound detection,   *)
(* the qualities and the switches of a camera.                             *)
(***************************************************************************)
EXTENDS Members

CAMERA_CMD ==
  [CAMERA_ENABLE |-> 1035, DEV_LED_SWITCH |-> 1045, ROTATE_IMAGE |-> 1207,
   SET_DEVS_OSD |-> 1214, DOORBELL_LED |-> 1716, NIGHT_VISION_TYPE |-> 1277,
   IRCUT_SWITCH |-> 1013, PUSH_NOTIFY_TYPE |-> 6020, SOUND_DETECTION |-> 6043,
   SOUND_DETECTION_SENSITIVITY |-> 6044, SOUND_DETECTION_TYPE |-> 6046,
   EAS_SWITCH |-> 1015, RECORDING_QUALITY_SET |-> 2731,
   RECORDING_QUALITY_INDOOR_PT_READ |-> 2034, RECORDING_QUALITY_INDOOR_PT_SET |-> 1023]

OpenDevice == 2001    \* the alias of CAMERA_ENABLE on standalone cameras

Watermark == {0, 1, 2}
NotificationStyle == {1, 2, 3}
SoundDetectionType == {1, 2}
NightVision == {0, 1, 2}
RECORDING_QUALITY_TIERS == {1, 2, 3}
STREAMING_QUALITY_TIERS == {0} \cup RECORDING_QUALITY_TIERS

(***************************************************************************)
(* The switch of the camera.  It is read inverted at CAMERA_ENABLE and as  *)
(* it stands at OpenDevice; it is written at CAMERA_ENABLE with the        *)
(* polarity of the family; "on" and "off" are intents of it.               *)
(***************************************************************************)
Enabled ==
  [Row("enabled", CAMERA_CMD.CAMERA_ENABLE, "bool") EXCEPT
     !.inv = TRUE, !.alias = <<Alias(OpenDevice, FALSE, "any")>>,
     !.write = <<Wire("any", "set-param", CAMERA_CMD.CAMERA_ENABLE, "power")>>,
     !.observed = TRUE, !.on_off = TRUE]

CameraPicture ==
  {Written("imageFlipped", CAMERA_CMD.ROTATE_IMAGE, "bool", SetScalar(CAMERA_CMD.ROTATE_IMAGE)),
   Enum(Written("watermark", CAMERA_CMD.SET_DEVS_OSD, "enum", SetScalar(CAMERA_CMD.SET_DEVS_OSD)), Watermark)}

CameraSound ==
  {Written("soundDetection", CAMERA_CMD.SOUND_DETECTION, "bool", SetJson(CAMERA_CMD.SOUND_DETECTION)),
   [Written("soundDetectionSensitivity", CAMERA_CMD.SOUND_DETECTION_SENSITIVITY, "number",
            SetJson(CAMERA_CMD.SOUND_DETECTION_SENSITIVITY)) EXCEPT !.accepts = 1..5],
   Enum(Written("soundDetectionType", CAMERA_CMD.SOUND_DETECTION_TYPE, "enum",
                SetJson(CAMERA_CMD.SOUND_DETECTION_TYPE)), SoundDetectionType),
   Enum(Written("notificationStyle", CAMERA_CMD.PUSH_NOTIFY_TYPE, "enum",
                SetJson(CAMERA_CMD.PUSH_NOTIFY_TYPE)), NotificationStyle)}

CameraNight ==
  {[Enum(Written("nightVision", CAMERA_CMD.NIGHT_VISION_TYPE, "enum",
                 SetPayload(CAMERA_CMD.NIGHT_VISION_TYPE)), NightVision) EXCEPT !.on = "notPlainPT"],
   [Written("autoNightVision", CAMERA_CMD.IRCUT_SWITCH, "bool",
            <<Refuse("notPlainPT"), Wire("any", "set-param", CAMERA_CMD.IRCUT_SWITCH, "same")>>)
      EXCEPT !.on = "plainPT"]}

CameraQuality ==
  {[Row("streamingQuality", 1020, "number") EXCEPT
      !.unverified = TRUE, !.shows = STREAMING_QUALITY_TIERS],
   [Enum(Row("recordingQuality", CAMERA_CMD.RECORDING_QUALITY_SET, "string"), RECORDING_QUALITY_TIERS) EXCEPT
      !.readOn = "notPlainPT", !.decode = TRUE,
      !.alias = <<Alias(CAMERA_CMD.RECORDING_QUALITY_INDOOR_PT_READ, FALSE, "plainPT")>>,
      !.write = <<Wire("plainPT", "set-json", CAMERA_CMD.RECORDING_QUALITY_INDOOR_PT_SET, "same"),
                  Wire("any", "set-payload", CAMERA_CMD.RECORDING_QUALITY_SET, "same")>>]}

CameraSwitches ==
  {[Written("antiTheftDetection", CAMERA_CMD.EAS_SWITCH, "bool", SetScalar(CAMERA_CMD.EAS_SWITCH))
      EXCEPT !.on = "notPlainPT", !.requires = {CAMERA_CMD.EAS_SWITCH}],
   WriteOnly("privacy", NoParam, "bool", <<Wire("any", "p2p-privacy-burst", NoParam, "same")>>),
   [Row("statusLed", CAMERA_CMD.DEV_LED_SWITCH, "bool") EXCEPT
      !.readOn = "notDoorbell", !.requiresRead = TRUE,
      !.alias = <<Alias(CAMERA_CMD.DOORBELL_LED, FALSE, "doorbell")>>,
      !.write = <<Wire("doorbell", "set-payload", CAMERA_CMD.DOORBELL_LED, "same"),
                  Wire("any", "set-param", CAMERA_CMD.DEV_LED_SWITCH, "same")>>]}

CameraRows == {Enabled} \cup CameraPicture \cup CameraSound \cup CameraNight
              \cup CameraQuality \cup CameraSwitches
=============================================================================
