--------------------------- MODULE MCSorcerContext ---------------------------
(***************************************************************************)
(* An instance of SorcerContext for TLC.                                   *)
(***************************************************************************)
EXTENDS SorcerContext

MCNone == {}
MCOne == {1}
MCZero == {0}
MCHandles == 1..(MaxCells + MaxVars + 1)
===============================================================================
