------------------------- MODULE MCSharedLiveSource -------------------------
(* Three consumers, one of which never listens for errors, on one battery  *)
(* camera: enough for a consumer that stays while another leaves and a     *)
(* third joins.                                                            *)
EXTENDS SharedLiveSource
=============================================================================
