---------------------------- MODULE MCLocalPush -----------------------------
(* Three services, the second of which has an image and no build.          *)
EXTENDS LocalPush

MCBuilt == {1, 3}
=============================================================================
