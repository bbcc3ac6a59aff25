----------------------------- MODULE MCLivepush -----------------------------
(* Instances of Livepush for TLC. *)
EXTENDS Livepush, TLC

\* Calls in flight, and services, are interchangeable: no definition of
\* Livepush orders them.  Used for safety properties only.
Symmetry == Permutations(Handlers)
SymmetryTwo == Permutations(Handlers) \cup Permutations(Services)
=============================================================================
