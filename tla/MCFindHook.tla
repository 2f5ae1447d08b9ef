------------------------------ MODULE MCFindHook -------------------------------
(* An instance of FindHook for TLC: bytes in base 4, addresses of two      *)
(* bytes, patterns 0 1 3 and 1 3 where 3 is the opcode of the call.  In    *)
(* one image the sections are apart, in the other their pages touch.       *)
EXTENDS FindHook

CONSTANT nothing

ThreeBytes == {0, 1, 3}
LittleEndian == [b \in [0 .. 1 -> ThreeBytes] |-> b[0] + 4 * b[1]]
Section(first, size, room) == [first |-> first, size |-> size, room |-> room]
TwoLayouts == {<<Section(6, 3, 3), Section(10, 6, 6)>>, <<Section(6, 3, 4), Section(10, 4, 4)>>}
ThreeOne == <<0, 1, 3>>
OneThree == <<1, 3>>
=============================================================================
