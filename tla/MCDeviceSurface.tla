--------------------------- MODULE MCDeviceSurface ---------------------------
\* DeviceSurface over one device of each kind the tables tell apart.
EXTENDS DeviceSurface

LegacyDps == {TUYA_VACUUM_DP[k] : k \in DOMAIN TUYA_VACUUM_DP}
AiotDps == (150..180) \ LegacyDps
Dev(type, model, category, attached, named, p2p, base, silent) ==
  [d |-> [type |-> type, model |-> model, category |-> category, attached |-> attached,
          named |-> named, p2p |-> p2p], base |-> base, silent |-> silent]
\* A camera or a sensor, which reports its sensitivity on some of the ladders.
Security(type, model, attached, base, ladders) ==
  Dev(type, model, "security", attached, {}, TRUE, base, LadderParams \ ladders)
PlainIndoor ==
  Dev(31, "T8410", "security", FALSE, {}, TRUE, {1145, 1240}, {1011, 1035, 1298, 1210, 1609, 6070})

MCProfiles ==
  {Security(9, "T8114", TRUE, {1015, 1101}, {1210, 1276}),     \* a battery camera on a HomeBase
   PlainIndoor,                                                \* a plain indoor pan-tilt camera
   Security(104, "T8441", FALSE, {1029}, {1276, 6041, 6070}),  \* one of a later line
   Security(47, "T8423", FALSE, {1400, 1101}, {1210, 6070}),   \* a floodlight written with JSON
   Security(8, "T8425", FALSE, {1400, 1101}, {1276}),          \* one written with a number, on mains
   Security(91, "T8210", FALSE, {1101}, {1210}),               \* a doorbell
   Security(18, "T8030", FALSE, {1281}, {}),                   \* a HomeBase
   Security(2, "T8900", TRUE, {1550, 1101}, {}),               \* an entry sensor
   Security(10, "T8910", TRUE, {1011}, {1276, 1609}),          \* a motion sensor
   Security(21, "unknown", TRUE, {1825, 61008}, {}),           \* a siren
   Security(11, "T8960", TRUE, {}, {}),                        \* a keypad
   Security(52, "T8501", FALSE, {}, {}),                       \* a lock
   Dev(NoType, "T8L00", "eufy_life", FALSE, {}, FALSE, {}, {}),
   Dev(NoType, "T2351", "vacuum", FALSE, {"light", "lock"}, FALSE, {}, LegacyDps),
   Dev(NoType, "T2118", "eufy_home_tuya", FALSE, {}, FALSE, {}, AiotDps)}
=============================================================================
