----------------------------- MODULE MCInjection ------------------------------
(* Instances of Injection for TLC.                                         *)
EXTENDS Injection

CONSTANTS h1, h2

MCHostThreads == {h1, h2}
MCThreads     == MCHostThreads \cup {"remote", "detach"}
OneHost       == {h1}
OneThreads    == OneHost \cup {"remote", "detach"}
=============================================================================
