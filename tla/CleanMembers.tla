---------------------------- MODULE CleanMembers ----------------------------
(***************************************************************************)
(* The value members of a robot vacuum: cleaning, dock, suction and locate *)
(* (vacuum-clean.ts, vacuum-dock.ts, suction.ts and locate.ts under        *)
(* src/model/capabilities).  A robot reports data points; several of them  *)
(* carry a whole document, which one member owns and others are read out   *)
(* of.                                                                     *)
(***************************************************************************)
EXTENDS Members

VACUUM_DP ==
  [POWER |-> 151, MODE_CTRL |-> 152, WORK_STATUS |-> 153, CLEAN_PARAM |-> 154,
   REMOTE_CTRL |-> 155, RESUME_CLEAN |-> 156, DO_NOT_DISTURB |-> 157, VOLUME |-> 161,
   LANGUAGE |-> 162, BATTERY |-> 163, TIMING |-> 164, CLEAN_STATS |-> 167,
   CONSUMABLES |-> 168, SETTINGS |-> 176, FAULT_ALERT |-> 177, SCENES |-> 180]

TUYA_VACUUM_DP ==
  [MODE |-> 5, WORK_STATUS |-> 15, CLEANING_STRENGTH |-> 102, LOOK_FOR_SWEEPER |-> 103,
   BATTERY_LEVEL |-> 104, MOP_WATER |-> 105, FAULT_REPORT |-> 106, FORBID_MODE |-> 107,
   CLEAR_TIME |-> 109, CLEAR_AREA |-> 110, LOUDNESS |-> 111, CLEAN_TYPE |-> 113,
   CLEAR_TOTAL_TIME |-> 119, CLEAR_TOTAL_AREA |-> 120, WATER_TANK_STATUS |-> 127,
   MOP_STATUS |-> 129, RSSI |-> 134]

\* A reading decoded from its data point when it is read (decode, readsFrom).
Decoded(name, dp, type) == [ReadOnly(name, dp, type) EXCEPT !.decode = TRUE]
Evidenced(row, dps) == [row EXCEPT !.evidence = dps]
OfLegacy(row, dp) == [row EXCEPT !.alias = <<Alias(dp, FALSE, "tuya")>>]
OutOf(name, type, owner) ==
  [Decoded(name, NoParam, type) EXCEPT !.borrows = [prop |-> owner.prop, param |-> owner.param]]

\* -------------------------------------------------- what the robot is doing
Activity == Decoded("activity", VACUUM_DP.WORK_STATUS, "string")
RobotState ==
  {[Written("power", VACUUM_DP.POWER, "bool", AiotDp(VACUUM_DP.POWER)) EXCEPT !.on = "aiot"],
   Activity,
   OfLegacy(ReadOnly("battery", VACUUM_DP.BATTERY, "number"), TUYA_VACUUM_DP.BATTERY_LEVEL),
   Evidenced(ReadOnly("resumeClean", VACUUM_DP.RESUME_CLEAN, "bool"), {VACUUM_DP.RESUME_CLEAN})}
ErrorCode ==
  [Decoded("errorCode", VACUUM_DP.FAULT_ALERT, "number") EXCEPT
     !.alias = <<Alias(TUYA_VACUUM_DP.FAULT_REPORT, FALSE, "any")>>]
ChargeReadings ==
  {[OutOf(name, "string", Activity) EXCEPT !.on = "aiot"] : name \in {"chargeState", "triggerSource"}}

\* ------------------------------------------------------- voice and sound
VoicePack == [Decoded("voicePack", VACUUM_DP.LANGUAGE, "number") EXCEPT !.on = "aiot"]
RobotVoice ==
  {[ReadOnly("volume", VACUUM_DP.VOLUME, "number") EXCEPT !.on = "aiot"], VoicePack}
  \cup {OutOf(name, "number", VoicePack) : name \in {"defaultVoicePack", "voicePackState", "voicePackVersion"}}

\* -------------------------------------------------- the cleaning settings
CleanType ==
  OfLegacy(Decoded("cleanType", VACUUM_DP.CLEAN_PARAM, "string"), TUYA_VACUUM_DP.CLEAN_TYPE)
CleanSettings ==
  {CleanType}
  \cup {OutOf(name, "string", CleanType) :
          name \in {"carpetStrategy", "cleanExtent", "smartMode", "mopLevel", "mopCornerClean", "cleanTimes"}}

\* ------------------------------------------------ the legacy robot's readings
LegacyWork ==
  {Decoded("workStatus", TUYA_VACUUM_DP.WORK_STATUS, "string"),
   Decoded("workMode", TUYA_VACUUM_DP.MODE, "string"),
   Decoded("cleaningStrength", TUYA_VACUUM_DP.CLEANING_STRENGTH, "string"),
   Decoded("mopWater", TUYA_VACUUM_DP.MOP_WATER, "string")}
LegacyReadings ==
  {ReadOnly("loudness", TUYA_VACUUM_DP.LOUDNESS, "number"),
   ReadOnly("waterTank", TUYA_VACUUM_DP.WATER_TANK_STATUS, "bool"),
   ReadOnly("mopPad", TUYA_VACUUM_DP.MOP_STATUS, "bool"),
   Evidenced(ReadOnly("rssi", TUYA_VACUUM_DP.RSSI, "number"), {TUYA_VACUUM_DP.RSSI})}

(***************************************************************************)
(* The statistics: a legacy robot reports each as a data point, the others *)
(* report one document every one of them is read out of.                   *)
(***************************************************************************)
ClearTime == OfLegacy(Decoded("clearTime", VACUUM_DP.CLEAN_STATS, "number"), TUYA_VACUUM_DP.CLEAR_TIME)
CleanStats ==
  {ClearTime, Evidenced(OutOf("lifetimeCleanCount", "number", ClearTime), {VACUUM_DP.CLEAN_STATS})}
  \cup {[OutOf(r[1], "number", ClearTime) EXCEPT !.param = r[2]] :
          r \in {<<"clearArea", TUYA_VACUUM_DP.CLEAR_AREA>>,
                 <<"lifetimeCleanTime", TUYA_VACUUM_DP.CLEAR_TOTAL_TIME>>,
                 <<"lifetimeCleanArea", TUYA_VACUUM_DP.CLEAR_TOTAL_AREA>>}}

\* ------------------------------------------------- the settings document
ChildLock == Evidenced(Decoded("childLock", VACUUM_DP.SETTINGS, "bool"), {VACUUM_DP.SETTINGS})
RobotSettings ==
  {ChildLock}
  \cup {OutOf(name, "bool", ChildLock) :
          name \in {"cruiseContinue", "multiMap", "aiSee", "waterLevelSwitch", "suggestRestricted",
                    "deepMopCorner"}}
PetSettings == {OutOf(name, "bool", ChildLock) : name \in {"poopAvoidance", "petMode"}}
FollowSettings == {OutOf(name, "bool", ChildLock) : name \in {"livePhoto", "smartFollow"}}
MapAndSignal ==
  {OutOf("hasValidMap", "bool", ChildLock), OutOf("mapLayers", "number", ChildLock),
   OutOf("cleanStrategyVersion", "number", ChildLock), OutOf("wifiSignal", "number", ChildLock),
   OutOf("dustFullRemindMinutes", "number", ChildLock)}

\* ------------------------------------------------------------ consumables
SideBrushHours ==
  Evidenced(Decoded("sideBrushHours", VACUUM_DP.CONSUMABLES, "number"), {VACUUM_DP.CONSUMABLES})
Consumables ==
  {SideBrushHours}
  \cup {OutOf(name, "number", SideBrushHours) :
          name \in {"rollingBrushHours", "filterHours", "scraperHours", "sensorHours", "mopHours",
                    "dustBagHours", "dirtyWaterTankHours", "dirtyWaterFilterHours"}}

\* ------------------------------------------ do not disturb, schedules, scenes
DoNotDisturb ==
  Evidenced(OfLegacy(Decoded("doNotDisturb", VACUUM_DP.DO_NOT_DISTURB, "bool"), TUYA_VACUUM_DP.FORBID_MODE),
            {VACUUM_DP.DO_NOT_DISTURB, TUYA_VACUUM_DP.FORBID_MODE})
QuietHours ==
  {DoNotDisturb}
  \cup {Evidenced(OutOf(name, "string", DoNotDisturb), {VACUUM_DP.DO_NOT_DISTURB}) :
          name \in {"doNotDisturbActive", "doNotDisturbStart", "doNotDisturbEnd"}}
ScheduleCount == Evidenced(Decoded("scheduleCount", VACUUM_DP.TIMING, "number"), {VACUUM_DP.TIMING})
SceneCount == Evidenced(Decoded("sceneCount", VACUUM_DP.SCENES, "number"), {VACUUM_DP.SCENES})
Plans ==
  {ScheduleCount, OutOf("activeScheduleCount", "number", ScheduleCount),
   SceneCount, OutOf("usableSceneCount", "number", SceneCount)}

\* ------------------------------------- commands declared, and never installed
UnverifiedRequest(name, type, dp) ==
  [WriteOnly(name, NoParam, type, AiotDp(dp)) EXCEPT !.unverified = TRUE, !.on = "aiot"]
ModeRequests ==
  {UnverifiedRequest(name, "bool", VACUUM_DP.MODE_CTRL) :
     name \in {"stopCleaning", "startWashingMops", "stopWashingMops", "stopReturnToDock",
               "startSpotClean", "startMapping", "startCruise", "startRemoteControl",
               "stopRemoteControl", "stopSmartFollow"}}
OtherRequests ==
  {UnverifiedRequest("resetConsumable", "string", VACUUM_DP.CONSUMABLES),
   [UnverifiedRequest("remoteControlDirection", "string", VACUUM_DP.REMOTE_CTRL) EXCEPT
      !.param = VACUUM_DP.REMOTE_CTRL]}

\* ------------------------------------------------------------------- dock
VACUUM_DOCK_DP == 173
VACUUM_DOCK_INFO_DP == 169
DockFirmwareVersion == Decoded("dockFirmwareVersion", VACUUM_DOCK_INFO_DP, "string")
DockState == Decoded("dockState", VACUUM_DOCK_DP, "string")
VacuumDockRows ==
  {DockFirmwareVersion, DockState}
  \cup {UnverifiedRequest(name, "bool", VACUUM_DOCK_DP) :
          name \in {"emptyDust", "washMops", "dryMops", "selfMaintain", "removeScale", "cutHair"}}

\* The network readings of the robot come out of the dock's own document.
RobotInfo ==
  {OutOf(name, "string", DockFirmwareVersion) :
     name \in {"wifiSsid", "wifiIp", "macAddress", "hardwareVersion"}}

VacuumCleanRows ==
  RobotState \cup {ErrorCode} \cup ChargeReadings \cup RobotVoice \cup CleanSettings
  \cup LegacyWork \cup LegacyReadings \cup CleanStats \cup RobotSettings \cup PetSettings
  \cup FollowSettings \cup MapAndSignal \cup Consumables \cup QuietHours \cup Plans
  \cup ModeRequests \cup OtherRequests \cup RobotInfo

\* ------------------------------------------------------ suction and locate
SUCTION_DP == [SUCTION |-> 158, BOOST_IQ |-> 159]
SuctionLevel == 0..5
SuctionRows ==
  {[Enum(Written("level", SUCTION_DP.SUCTION, "number", AiotDp(SUCTION_DP.SUCTION)), SuctionLevel)
      EXCEPT !.prop = "suction", !.decode = TRUE, !.on = "aiot"],
   [Written("boostIq", SUCTION_DP.BOOST_IQ, "bool", AiotDp(SUCTION_DP.BOOST_IQ)) EXCEPT !.on = "aiot"]}

LOCATE_DP == 160
LocateRows ==
  {[OfLegacy(ReadOnly("locating", LOCATE_DP, "bool"), TUYA_VACUUM_DP.LOOK_FOR_SWEEPER) EXCEPT
      !.elsewhere = TRUE]}
=============================================================================
