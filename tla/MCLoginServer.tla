--------------------------- MODULE MCLoginServer ---------------------------
(* Requests, and the two valid tokens, are interchangeable.                *)
EXTENDS LoginServer, TLC

CONSTANTS r1, r2, r3, g1, g2, bad

MCRequests == {r1, r2, r3}
MCTokens == {g1, g2, bad}
MCGood == {g1, g2}
MCTwo == {r1, r2}
MCSymmetry == Permutations(MCRequests) \cup Permutations(MCGood)
=============================================================================
