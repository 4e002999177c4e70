-------------------------------- MODULE MCOnta --------------------------------
(* Two lines of two words: two stores share the first line, one fills the  *)
(* second.                                                                 *)
EXTENDS Onta
DisjointShapes == {<<0, 1>>, <<1, 1>>, <<2, 2>>}
LineStarts     == {0, 2}
ASSUME ShapesUniform == UniformShapes
=============================================================================
