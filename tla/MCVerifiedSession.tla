------------------------- MODULE MCVerifiedSession -------------------------
(* A verified study session on small bounds, for TLC.                      *)
EXTENDS VerifiedSession, TLC

CONSTANTS live, late

Both == {live, late}
=============================================================================
