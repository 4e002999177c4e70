--------------------------- MODULE MCTracedMemory ---------------------------
(* Two lines of two words; stores that nest and overlap within a line, or  *)
(* that straddle the two lines.                                            *)
EXTENDS TracedMemory
NestedShapes == {<<0, 2>>, <<0, 1>>, <<1, 1>>, <<2, 1>>}
StraddlingShapes == {<<0, 1>>, <<1, 2>>, <<2, 2>>}
LineStarts   == {0, 2}
=============================================================================
