----------------------------- MODULE MCDataDir ------------------------------
(* Runs are interchangeable.                                               *)
EXTENDS DataDir, TLC

CONSTANTS r1, r2, c1

MCRuns == {r1, r2}
MCContexts == {c1}
MCReleases == {1, Unknown}
Symmetry == Permutations(MCRuns)
=============================================================================
