------------------------------ MODULE MCPipeCodec ------------------------------
(* An instance of PipeCodec for TLC.                                       *)
EXTENDS PipeCodec

TwoLetters == {10, 11}
OneKey     == {<<10>>}
=============================================================================
