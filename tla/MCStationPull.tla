--------------------------- MODULE MCStationPull ----------------------------
(* One station with two channels and two calls at a time, the background   *)
(* recoveries included: enough for a replacement under a viewer and for a  *)
(* caller that overtakes another between its source and its attach.        *)
EXTENDS StationPull, TLC

Symmetry == Permutations(Callers)
=============================================================================
