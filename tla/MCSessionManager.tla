-------------------------- MODULE MCSessionManager --------------------------
(* One battery station under every interleaving of two openers and two     *)
(* viewers, over the succession of two entries.                          *)
EXTENDS SessionManager
=============================================================================
