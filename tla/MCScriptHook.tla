----------------------------- MODULE MCScriptHook ------------------------------
(* Instances of ScriptHook for TLC.                                        *)
EXTENDS ScriptHook

CONSTANTS t1, t2, b1, b2, x, y, wide, heap, now, later, garbled, gpa

OneCaller  == {t1}
TwoCallers == {t1, t2}
OneBase    == {b1}
TwoBases   == {b1, b2}
OneTime    == {now}
TwoTimes   == {now, later}
Nothing    == {}
Wide       == {wide}
OneScript  == {<<x, y>>}
WideScript == {<<x, wide, y>>}
BothSpellings == {"exact", "other"}
Exact         == {"exact"}
SomeFaults == {"diskFull", "unknownVersion"}
SomeRefusals == {"MEMORY_ALLOC", "UNSUPPORTED_FUNCTION"}
OneFunction  == {b1, gpa}
TwoFunctions == {b1, b2, gpa}
=============================================================================
