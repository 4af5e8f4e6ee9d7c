---------------------------- MODULE MCSorcerBlocks ----------------------------
(***************************************************************************)
(* An instance of SorcerBlocks for TLC.  PopNull and Apply stand for the   *)
(* instructions whose argument no builder and no link looks at.            *)
(***************************************************************************)
EXTENDS SorcerBlocks

MCOne == {1}
MCVars == {0}
===============================================================================
