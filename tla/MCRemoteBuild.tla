---------------------------- MODULE MCRemoteBuild ----------------------------
(* Instances of RemoteBuild for TLC. *)
EXTENDS RemoteBuild, TLC

\* No definition orders the tags.
Symmetry == Permutations(Tags)
=============================================================================
