----------------------------- MODULE MCKmpSearch ------------------------------
(* Instances of KmpSearch for TLC.                                         *)
EXTENDS KmpSearch

CONSTANTS a, b, q

TwoBytes == {a, b}
WithMark == {a, b, q}
Mark     == {q}
=============================================================================
