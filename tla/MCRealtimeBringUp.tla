-------------------------- MODULE MCRealtimeBringUp --------------------------
(* One scope with a device that is sent commands, over a disconnect and    *)
(* the epoch after it: a failed start and its retry, or one start in each. *)
EXTENDS RealtimeBringUp
=============================================================================
