----------------------------- MODULE MCSorcerShell -----------------------------
(***************************************************************************)
(* An instance of SorcerShell for TLC.                                     *)
(***************************************************************************)
EXTENDS SorcerShell

MCSeconds == 1..4

MCInputs == BoundedSeq(Chars, 2)

(***************************************************************************)
(* A file that is on disk from the start and whose time is the clock's     *)
(* whenever it is saved, executed under -w by a user who never presses     *)
(* Ctrl-C; every version of it returns.                                    *)
(***************************************************************************)
Saved(v) == v.does = "returns" /\ \A t \in stamps : t <= v.mtime

ClockInit ==
  /\ watchFlag = TRUE /\ entryFile = TRUE /\ charSigned = TRUE
  /\ pc = "begin" /\ running = "returns"
  /\ st \in Seconds /\ lastMtime = st
  /\ handling = FALSE /\ quitFlag = FALSE
  /\ input = << >> /\ text = << >>
  /\ \E t \in Seconds :
       file = [number |-> 1, mtime |-> t, does |-> "returns"] /\ stamps = {t}
  /\ changes = 1 /\ distinct = TRUE /\ executions = 0 /\ lastRead = 0

ClockNext == Main \/ (Change /\ Saved(file'))

ClockSpec == ClockInit /\ [][ClockNext]_shellVars /\ WF_shellVars(Main)
===============================================================================
