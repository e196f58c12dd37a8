------------------------- MODULE MCStoredImageCache -------------------------
(* Three devices for two slots, two images each, one change of account.    *)
EXTENDS StoredImageCache

CONSTANTS d1, d2, d3

ConstDevices == {d1, d2, d3}
=============================================================================
