----------------------------- MODULE MCTwoDumpers ------------------------------
(* An instance of TwoDumpers for TLC.                                      *)
EXTENDS TwoDumpers

CONSTANTS s1, s2

TwoSessions == {s1, s2}
=============================================================================
