------------------------- MODULE MCPosixThreadJoin -------------------------
(* Instances of PosixThreadJoin for TLC: the main thread and two others, joined *)
(* one at a time and together.                                                  *)
EXTENDS PosixThreadJoin

CONSTANTS m, a, b

Vectors == {<<a>>, <<b>>, <<a, b>>, <<b, a>>}
=============================================================================
