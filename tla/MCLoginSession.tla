--------------------------- MODULE MCLoginSession ---------------------------
(* Two requests, a host that logs in, and a client that shares the store.  *)
EXTENDS LoginSession
=============================================================================
