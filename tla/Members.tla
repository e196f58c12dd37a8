------------------------------ MODULE Members ------------------------------
(***************************************************************************)
(* The vocabulary of the member tables (src/model/capabilities/members.ts, *)
(* access.ts): a capability is a list of value members, and a member says  *)
(* which reported parameter it reads, on which devices, which commands it  *)
(* writes, which values those accept and which it publishes.  The tables   *)
(* themselves are in CameraMembers, SecurityMembers, DeviceMembers and     *)
(* CleanMembers; what the SDK makes of them on one device is DeviceSurface.*)
(*                                                                         *)
(* A gate (available, readAvailable, readReflectsWrite, the branches of a  *)
(* write) is a name, given its meaning by DeviceFamilies!Holds.  Values    *)
(* are integers: a switch is 0 or 1, an enum or a level its number.        *)
(***************************************************************************)
EXTENDS Integers, Sequences

NoParam == 0    \* a member no parameter reports

(***************************************************************************)
(* A member with nothing but its parameter and type.  on, readOn and       *)
(* reflects are gates; alias lists the other parameters that report it;    *)
(* requires lists the parameters of which one must be reported for it to   *)
(* be offered as a write, evidence those of which one must be for it to    *)
(* exist at all; shows is the set of values it publishes (enumValues,        *)
(* decodedValues or the values of its first argument), lo..hi the range it *)
(* publishes; accepts the set its write encodes, everything else it        *)
(* refuses; borrows the property and the parameter of another member whose *)
(* value it is read out of when it has none of its own.                    *)
(***************************************************************************)
Tried == -1..110    \* the values tried against a member that checks none
NoSource == [prop |-> "", param |-> NoParam]
Row(name, param, type) ==
  [name |-> name, prop |-> name, param |-> param, type |-> type,
   inv |-> FALSE, on |-> "any", readOn |-> "any", alias |-> <<>>,
   requires |-> {}, evidence |-> {}, requiresRead |-> FALSE, realtime |-> FALSE, decode |-> FALSE,
   writeOnly |-> FALSE, unexposed |-> FALSE, unverified |-> FALSE, elsewhere |-> FALSE,
   shows |-> {}, lo |-> -1, hi |-> 110, accepts |-> IF type = "bool" THEN {0, 1} ELSE Tried,
   write |-> <<>>, reflects |-> "any", observed |-> FALSE, borrows |-> NoSource,
   intents |-> {}, on_off |-> FALSE]

\* Another parameter that reports a member (readAliases).
Alias(param, inv, on) == [param |-> param, inv |-> inv, on |-> on]

(***************************************************************************)
(* A command a member writes, on the devices its gate holds for: the kind  *)
(* routes it, the parameter is the id the wire carries, how says what the  *)
(* wire carries for the value, takes the values it is the command for.     *)
(* "refuse" is a write that throws.                                        *)
(***************************************************************************)
Wire(on, kind, param, how) ==
  [on |-> on, kind |-> kind, param |-> param, how |-> how, takes |-> Tried]
Taking(wire, values) == [wire EXCEPT !.takes = values]
SetScalar(param) == <<Wire("any", "set-param", param, "same")>>
SetJson(param) == <<Wire("any", "set-json", param, "same")>>
SetJsonRaw(cmd) == <<Wire("any", "set-json-raw", cmd, "same")>>
SetPayload(cmd) == <<Wire("any", "set-payload", cmd, "same")>>
SetStationScalar(cmd) == <<Wire("any", "p2p-station-scalar", cmd, "same")>>
AiotDp(dp) == <<Wire("any", "aiot-dp", dp, "same")>>
Refuse(on) == Wire(on, "refuse", NoParam, "same")

\* A switch and the number that stands for it on a wire of that form.
Flip(v) == IF v = 0 THEN 1 ELSE 0

(***************************************************************************)
(* Members that are only read, that are written and read at one parameter, *)
(* and that the typed surface keeps to itself.                             *)
(***************************************************************************)
ReadOnly(name, param, type) == Row(name, param, type)
Written(name, param, type, write) == [Row(name, param, type) EXCEPT !.write = write]
Unexposed(name, param, type) == [Row(name, param, type) EXCEPT !.unexposed = TRUE]
WriteOnly(name, param, type, write) ==
  [Row(name, param, type) EXCEPT !.write = write, !.writeOnly = TRUE]
Enum(row, values) == [row EXCEPT !.shows = values, !.accepts = values]
Bounded(row, lo, hi) == [row EXCEPT !.lo = lo, !.hi = hi, !.accepts = lo..hi]
=============================================================================
