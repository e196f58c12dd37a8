------------------------------- MODULE MCLinks -------------------------------
(***************************************************************************)
(* Links on small instances, and beside its parts the device surface,      *)
(* whose tables no proof reaches; it keeps its own variables.              *)
(***************************************************************************)
EXTENDS Links, MCDeviceSurface
LOCAL INSTANCE Bitwise

CONSTANTS k1, k2, own, c1, c2, p1, poll, list, m1, m2

\* keyTime: the nonce is or-ed into the second.
MCKeyTime(second, nonce) == second | nonce

Symmetry == Permutations(StationChannels \ {Own}) \cup Permutations(Callers)

-----------------------------------------------------------------------------
SurfaceOff ==
  /\ dev = Off /\ focus = Off /\ cloud = Off /\ dp = Off /\ live = Off /\ owner = Off /\ ids = Off
  /\ noticed = Off /\ bcaps = Off /\ store = Off /\ widened = Off /\ asked = Off /\ left = Off

MCInit ==
  \/ part = "surface" /\ Init /\ s1 = Off /\ s2 = Off /\ s3 = Off /\ s4 = Off /\ s5 = Off /\ Off6
  \/ SurfaceOff /\ LinksInit

MCNext ==
  \/ Only("surface") /\ Next /\ UNCHANGED slots
  \/ LinksNext /\ UNCHANGED vars

MCSpec == MCInit /\ [][MCNext]_<<part, vars, slots>>

-----------------------------------------------------------------------------
\* A getter shows a value its own parameters came with (bindMembers,
\* mergeProperties, specByParam).
SurfaceReads == part = "surface" => GettersAreTrue

\* A write reaches a router that knows it, and reads back once reported
\* (memberWrite, buildCommand, routeCommand).
SurfaceWrites == part = "surface" => WritesLand /\ ReadsBack
=============================================================================
