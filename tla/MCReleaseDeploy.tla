--------------------------- MODULE MCReleaseDeploy ---------------------------
(* Instances of ReleaseDeploy for TLC. *)
EXTENDS ReleaseDeploy, TLC

\* No definition orders the images.
Symmetry == Permutations(Images)
=============================================================================
