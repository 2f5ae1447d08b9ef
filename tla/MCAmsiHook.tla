------------------------------ MODULE MCAmsiHook -------------------------------
(* Instances of AmsiHook for TLC.                                          *)
EXTENDS AmsiHook

CONSTANTS t1, t2, x, y, heap, now, later, garbled

TwoCallers == {t1, t2}
TwoTimes   == {now, later}
LaterTaken == {later}
Assemblies == {<<x, y>>, <<y>>}
Nothing    == {}
AllFaults  == {"garbledName", "createFails", "diskFull"}
=============================================================================
