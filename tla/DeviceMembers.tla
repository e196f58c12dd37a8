--------------------------- MODULE DeviceMembers ---------------------------
(***************************************************************************)
(* The value members of the capabilities of particular devices: doorbell,  *)
(* arming, lock, RTSP, the sensors, the keypad, the pan-tilt head and the  *)
(* smart light (doorbell.ts, arming.ts, lock.ts, rtsp.ts, contact.ts,      *)
(* leak.ts, smoke.ts, co.ts, keypad.ts, ptz.ts and smart-light.ts under    *)
(* src/model/capabilities).                                                *)
(***************************************************************************)
EXTENDS Members

\* ------------------------------------------------------------ doorbell
DOORBELL_CMD ==
  [QUICK_RESPONSE |-> 1706, MECHANICAL_CHIME_SWITCH |-> 1703, WDR_SWITCH |-> 1704,
   DINGDONG_VOLUME |-> 1717, DINGDONG_RINGTONE |-> 1718, VIDEO_QUALITY |-> 1705,
   GET_QUICK_RESPONSE_LIST |-> 6237]
DoorbellRingtone == 0..9
DoorbellVideoQuality == 0..3

DoorbellSwitches ==
  {[ReadOnly("chimeSwitch", 1702, "bool") EXCEPT !.unverified = TRUE],
   Written("mechanicalChimeSwitch", DOORBELL_CMD.MECHANICAL_CHIME_SWITCH, "bool",
           SetScalar(DOORBELL_CMD.MECHANICAL_CHIME_SWITCH)),
   Written("wdrSwitch", DOORBELL_CMD.WDR_SWITCH, "bool", SetScalar(DOORBELL_CMD.WDR_SWITCH))}

DoorbellSounds ==
  {[ReadOnly("ringtoneVolume", 1708, "number") EXCEPT !.elsewhere = TRUE],
   Bounded(Written("dingdongVolume", DOORBELL_CMD.DINGDONG_VOLUME, "number",
                   SetPayload(DOORBELL_CMD.DINGDONG_VOLUME)), 0, 100),
   Enum(Written("dingdongRingtone", DOORBELL_CMD.DINGDONG_RINGTONE, "number",
                SetPayload(DOORBELL_CMD.DINGDONG_RINGTONE)), DoorbellRingtone)}

(***************************************************************************)
(* Quality and compression share one number, quality + 5 * compression:    *)
(* composite is the number when it is one, and two members decode it.      *)
(***************************************************************************)
NotComposite == -1
composite(raw) == IF raw \in 0..8 /\ raw % 5 <= 3 THEN raw ELSE NotComposite
QualityOf(raw) == IF composite(raw) = NotComposite THEN NotComposite ELSE raw % 5
CompressionOf(raw) == IF composite(raw) = NotComposite THEN NotComposite ELSE raw \div 5
setVideoQuality(q, compressed) == q + (IF compressed = 1 THEN 5 ELSE 0)

DoorbellQuality ==
  {[ReadOnly("videoQuality", DOORBELL_CMD.VIDEO_QUALITY, "number") EXCEPT
      !.elsewhere = TRUE, !.decode = TRUE, !.shows = DoorbellVideoQuality],
   [ReadOnly("highCompressionEncoding", NoParam, "bool") EXCEPT
      !.decode = TRUE, !.borrows = [prop |-> "videoQuality", param |-> DOORBELL_CMD.VIDEO_QUALITY]],
   ReadOnly("notificationMode", 1710, "string")}

DoorbellRows == DoorbellSwitches \cup DoorbellSounds \cup DoorbellQuality

\* -------------------------------------------------------------- arming
ARMING_CMD == [SET_ARMING |-> 1224, ALARM_DELAY_CONFIG |-> 1255]
ARMING_MODE_WIRE == {0, 1, 2, 3, 4, 5, 6, 47, 63}
SETTABLE_MODES == {0, 1, 63}

Mode ==
  [Enum(Row("mode", ARMING_CMD.SET_ARMING, "enum"), SETTABLE_MODES) EXCEPT
     !.shows = ARMING_MODE_WIRE, !.prop = "armingMode", !.observed = TRUE, !.write = SetPayload(ARMING_CMD.SET_ARMING)]

ArmingRows == {Mode}

\* ---------------------------------------------------------------- lock
LockReadings ==
  {[ReadOnly("locked", 1200, "bool") EXCEPT !.elsewhere = TRUE],
   ReadOnly("battery", 1101, "number"), ReadOnly("rssi", 1141, "number")}

\* Declared and never installed: each is unverified and reachable over P2P only.
LockToggles ==
  {[WriteOnly(name, NoParam, "bool", <<Wire("any", "ff09-setting-toggle", NoParam, "same")>>)
      EXCEPT !.unverified = TRUE, !.on = "p2p"] :
     name \in {"oneTouchLock", "scramblePasscode", "wifiStatus", "logEnabled", "privacyMode",
               "oneTouchRearLock"}}

LockRows == LockReadings \cup LockToggles

\* ---------------------------------------------------------------- rtsp
RTSP_PARAM ==
  [STREAM_SWITCH |-> 1145, STREAM_URL |-> 11450, SEND_SECURITY_PASSWD |-> 1287,
   VIDEO_TYPE_EVENT |-> 6050, VIDEO_TYPE_CONTINUE |-> 6010]
RtspRecordingMode == {0, 1}

RtspRows ==
  {[Written("published", RTSP_PARAM.STREAM_SWITCH, "bool", SetScalar(RTSP_PARAM.STREAM_SWITCH))
      EXCEPT !.prop = "rtspStream"],
   [ReadOnly("url", RTSP_PARAM.STREAM_URL, "string") EXCEPT !.prop = "rtspUrl"],
   [ReadOnly("recordingMode", RTSP_PARAM.VIDEO_TYPE_EVENT, "enum") EXCEPT
      !.elsewhere = TRUE, !.shows = RtspRecordingMode]}

\* ------------------------------------------------------------- sensors
CONTACT_CMD == [ALARM_SOUND_TYPE |-> 1507, ALARM_VOLUME |-> 1508]
EntryAlarmTone == 0..4

ContactRows ==
  {[ReadOnly("open", 1550, "bool") EXCEPT !.prop = "contact"],
   ReadOnly("lastSeen", 1551, "number"), ReadOnly("rssi", 1141, "number"),
   [Enum(Written("alarmSoundType", CONTACT_CMD.ALARM_SOUND_TYPE, "enum",
                 SetScalar(CONTACT_CMD.ALARM_SOUND_TYPE)), EntryAlarmTone)
      EXCEPT !.requires = {CONTACT_CMD.ALARM_SOUND_TYPE}],
   [Bounded(Written("alarmVolume", CONTACT_CMD.ALARM_VOLUME, "number",
                    SetPayload(CONTACT_CMD.ALARM_VOLUME)), 1, 26)
      EXCEPT !.requires = {CONTACT_CMD.ALARM_VOLUME}]}

LeakRows == {ReadOnly("leakDetected", 1560, "bool"), ReadOnly("lastSeen", 1551, "number")}
SmokeRows == {ReadOnly("smokeDetected", 1561, "bool"), ReadOnly("lastSeen", 1551, "number")}
CoRows == {ReadOnly("coDetected", 1562, "bool"), ReadOnly("lastSeen", 1551, "number")}

KeypadRows ==
  {Unexposed("batteryLow", 1103, "bool"), Unexposed("charging", 1102, "bool"),
   ReadOnly("rssi", 1141, "number")}

\* ----------------------------------------------------------------- ptz
PTZ_CMD ==
  [PTZ_ROTATE |-> 6030, PTZ_ZOOM |-> 6203, PTZ_PRESET_GOTO |-> 6032, PTZ_PRESET_PIC |-> 6097,
   PTZ_PRESET_DELETE |-> 6033, PTZ_PRESET_QUERY |-> 6034, PTZ_PRESET_PREVIEW |-> 6035,
   PTZ_SET_DEFAULT_POSITION |-> 6242, PTZ_ROTATE_SPEED |-> 6015, PTZ_CALIBRATE |-> 6017]

PtzRows ==
  {[Written("rotationSpeed", PTZ_CMD.PTZ_ROTATE_SPEED, "number", SetJson(PTZ_CMD.PTZ_ROTATE_SPEED))
      EXCEPT !.accepts = 1..5]}

\* --------------------------------------------------------- smart light
LIGHT_PARAM ==
  [POWER |-> 161, BRIGHTNESS |-> 162, LENGTH |-> 163, EFFECT_ID |-> 164,
   COLOR_GRADIENT |-> 165, CLOUD_EFFECT_ID |-> 166, EFFECT_MODE |-> 167]

\* A property of the light that its reports over MQTT alone carry.
Reported(name, prop, param, type) ==
  [ReadOnly(name, param, type) EXCEPT !.prop = prop, !.realtime = TRUE]

SmartLightWrites ==
  {[Reported("power", "lightPower", LIGHT_PARAM.POWER, "bool") EXCEPT
      !.on_off = TRUE, !.write = <<Wire("any", "mqtt-dp", LIGHT_PARAM.POWER, "same")>>],
   [Bounded(Reported("brightness", "lightBrightness", LIGHT_PARAM.BRIGHTNESS, "number"), 0, 100) EXCEPT
      !.write = <<Wire("any", "mqtt-dp", LIGHT_PARAM.BRIGHTNESS, "same")>>]}

SmartLightReadings ==
  {Reported("lightLength", "lightLength", LIGHT_PARAM.LENGTH, "number"),
   Reported("effectId", "lightEffectId", LIGHT_PARAM.EFFECT_ID, "number"),
   Reported("colorGradient", "lightColorGradient", LIGHT_PARAM.COLOR_GRADIENT, "bool"),
   Reported("cloudEffectId", "lightCloudEffectId", LIGHT_PARAM.CLOUD_EFFECT_ID, "number"),
   Unexposed("lightEffectMode", LIGHT_PARAM.EFFECT_MODE, "number")}

SmartLightRows == SmartLightWrites \cup SmartLightReadings
=============================================================================
