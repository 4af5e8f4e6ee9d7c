---------------------------- MODULE MCSorcerProgram ----------------------------
(***************************************************************************)
(* An instance of SorcerProgram for TLC: the sources of MCSorcerMana, run  *)
(* once they are compiled.                                                 *)
(***************************************************************************)
EXTENDS MCSorcerMana, SorcerProgram

MCNumerals == {1}
MCHandles == 1..(MaxCells + MaxVars + 1)
===============================================================================
