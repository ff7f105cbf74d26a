------------------------- MODULE MCDrawdownBreaker --------------------------
(* An account of a few mana that gains, loses and moves them in two sizes. *)
EXTENDS DrawdownBreaker

MCAccounts == {<<5, 2>>, <<2, 5>>}
MCSteps == {2, 5}

=============================================================================
