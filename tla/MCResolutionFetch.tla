------------------------- MODULE MCResolutionFetch --------------------------
(* Four candidates compete for two slots.                              *)
EXTENDS ResolutionFetch, TLC

CONSTANTS c1, c2, c3, c4

MCCandidates == {c1, c2, c3, c4}

=============================================================================
