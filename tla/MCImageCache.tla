---------------------------- MODULE MCImageCache ----------------------------
(* Instances of CachedImages for TLC. *)
EXTENDS CachedImages, TLC

\* No definition orders the runs.
Symmetry == Permutations(ImageRuns)
=============================================================================
