------------------------------ MODULE SorcerShell ------------------------------
(***************************************************************************)
(* The shell (shell/main.c): one process that executes a file once, or     *)
(* again whenever its modification time changes, or that executes what it  *)
(* reads from standard input.  Beside it an editor changes the file and a  *)
(* user presses Ctrl-C, both at any moment.                                *)
(*                                                                         *)
(*   pc         where main is             st         st.st_mtime           *)
(*   running    the source execCode runs  lastMtime  as in main            *)
(*   handling   signal() has been called  quitFlag   as in main            *)
(*   file       the file on disk          text       the characters read   *)
(*   input      what stdin has left                  from stdin            *)
(*                                                                         *)
(* A version of the file is its number, its modification time in seconds   *)
(* (time_t) and what execCode does with it: it "returns" (a compile error, *)
(* a run error and a result all do), "loops" or "asserts".                 *)
(*                                                                         *)
(* Auxiliary variables: changes counts the versions, stamps holds their    *)
(* modification times, distinct says that no two of them were equal,       *)
(* executions counts the calls of execCode, lastRead is the last version   *)
(* one of them read.                                                       *)
(***************************************************************************)
EXTENDS Naturals, SequencesExt

CONSTANTS
  Seconds,       \* the modification times
  MaxChanges,    \* bound on the versions of the file
  Inputs,        \* what standard input may hold: sequences of Chars
  MaxText        \* bound on the text read from a stdin whose end goes unnoticed

Chars == {"text", "0xFF"}

ASSUME SecondsAssumption == Seconds \subseteq Nat
ASSUME ShellBounds       == {MaxChanges, MaxText} \subseteq Nat
ASSUME InputsAssumption  == Inputs \subseteq Seq(Chars)

VARIABLES pc, running, st, lastMtime, handling, quitFlag, watchFlag, entryFile,
          charSigned, input, text, file, changes, stamps, distinct,
          executions, lastRead

options  == << watchFlag, entryFile, charSigned >>
stdin    == << input, text >>
disk     == << file, changes, stamps, distinct >>
history  == << executions, lastRead >>
mainVars == << pc, running, st, lastMtime, handling, quitFlag >>

shellVars == << options, stdin, disk, history, mainVars >>

Outcomes == {"returns", "loops", "asserts"}

Version == [number : Nat, mtime : Seconds, does : Outcomes]

(* No file: a record no version equals. *)
Gone == [number |-> 0, mtime |-> 0, does |-> "returns"]

Stopped == {"ended", "killed", "crashed"}

TypeOK ==
  /\ pc \in {"begin", "stdin", "exec", "run", "poll"} \union Stopped
  /\ running \in Outcomes
  /\ st \in Seconds /\ lastMtime \in Seconds
  /\ {handling, quitFlag, watchFlag, entryFile, charSigned, distinct} \subseteq BOOLEAN
  /\ input \in Seq(Chars) /\ text \in Seq(Chars \union {"EOF"})
  /\ file \in Version \union {Gone}
  /\ changes \in 0..MaxChanges /\ stamps \subseteq Seconds
  /\ executions \in Nat /\ lastRead \in 0..changes

(***************************************************************************)
(* st is not initialised: the remains in it are some modification time,    *)
(* counted among those in use, since a file with that very time goes       *)
(* unnoticed when the first stat fails.                                    *)
(***************************************************************************)
ShellInit ==
  /\ watchFlag \in BOOLEAN /\ entryFile \in BOOLEAN /\ charSigned \in BOOLEAN
  /\ entryFile => charSigned            \* it matters to stdin only
  /\ pc = IF entryFile THEN "begin" ELSE "stdin"
  /\ running = "returns"
  /\ st \in Seconds /\ lastMtime = st
  /\ handling = FALSE /\ quitFlag = FALSE
  /\ input \in (IF entryFile THEN { << >> } ELSE Inputs) /\ text = << >>
  /\ file = Gone /\ changes = 0 /\ stamps = {st} /\ distinct = TRUE
  /\ executions = 0 /\ lastRead = 0

-------------------------------------------------------------------------------
(* The file on disk. *)

(***************************************************************************)
(* The file is created or changed.  Its new time is usually the current    *)
(* second, but copying and unpacking set it to any.                        *)
(***************************************************************************)
Change ==
  /\ entryFile
  /\ changes < MaxChanges
  /\ \E t \in Seconds, d \in Outcomes :
       /\ file' = [number |-> changes + 1, mtime |-> t, does |-> d]
       /\ stamps' = stamps \union {t}
       /\ distinct' = (distinct /\ t \notin stamps)
  /\ changes' = changes + 1
  /\ UNCHANGED << options, stdin, history, mainVars >>

Delete ==
  /\ file # Gone
  /\ file' = Gone
  /\ UNCHANGED << options, stdin, changes, stamps, distinct, history, mainVars >>

(* Faulty: without a file there is no time. *)
StatCleared == file.mtime

(* The time in st after stat(entryFile, &st), which leaves st alone when     *)
(* there is no file.                                                         *)
Stat == IF file = Gone THEN st ELSE file.mtime

-------------------------------------------------------------------------------
(* execCode. *)

(* SR_blockFromManaFile reads the whole file at once (FILEU_readFile, an     *)
(* external); without one the load fails, like any other that is rejected.   *)
FileOutcome == IF file = Gone THEN "returns" ELSE file.does

(* A new context, and the source as it is on disk now. *)
ReadFile ==
  /\ pc = "exec" /\ entryFile
  /\ pc' = "run"
  /\ executions' = executions + 1
  /\ running' = FileOutcome
  /\ lastRead' = IF file = Gone THEN lastRead ELSE file.number
  /\ UNCHANGED << options, stdin, disk, st, lastMtime, handling, quitFlag >>

(* The source is in memory already. *)
TakeText ==
  /\ pc = "exec" /\ ~ entryFile
  /\ pc' = "run"
  /\ executions' = executions + 1
  /\ running' \in Outcomes
  /\ UNCHANGED << options, stdin, disk, lastRead, st, lastMtime, handling, quitFlag >>

(* Faulty: the time is taken when the execution is over. *)
FreshMtime == Stat

(* Faulty: the time is never renewed. *)
FirstMtime == lastMtime

(* What the next modification time is compared with once execCode is back:  *)
(* the time the file had before it was read.                                *)
SeenMtime == st

(***************************************************************************)
(* execCode returns, having freed the context.  The first time main goes   *)
(* on to install the handler, in the loop to lastMtime = st.st_mtime;      *)
(* without -w, and on stdin, it ends.                                      *)
(***************************************************************************)
ExecReturns ==
  /\ pc = "run" /\ running = "returns"
  /\ IF entryFile /\ watchFlag
     THEN pc' = "poll" /\ handling' = TRUE /\ lastMtime' = SeenMtime
     ELSE pc' = "ended" /\ UNCHANGED << handling, lastMtime >>
  /\ UNCHANGED << options, stdin, disk, history, running, st, quitFlag >>

(* An assertion of the library fails while the source is compiled or run. *)
ExecAsserts ==
  /\ pc = "run" /\ running = "asserts"
  /\ pc' = "crashed"
  /\ UNCHANGED << options, stdin, disk, history, running, st, lastMtime, handling,
                  quitFlag >>

-------------------------------------------------------------------------------
(* main. *)

FirstStat ==
  /\ pc = "begin"
  /\ st' = Stat /\ lastMtime' = st'
  /\ pc' = "exec"
  /\ UNCHANGED << options, stdin, disk, history, running, handling, quitFlag >>

(* Faulty: the loop never looks at the flag. *)
NeverQuits == FALSE

(* The condition of the watch loop, negated. *)
Quits == quitFlag

(* One turn of the watch loop; when the time changed execCode comes first   *)
(* and lastMtime is set when it returns.                                    *)
Poll ==
  /\ pc = "poll" /\ ~ Quits
  /\ st' = Stat
  /\ IF lastMtime # st'
     THEN pc' = "exec" /\ UNCHANGED lastMtime
     ELSE lastMtime' = st' /\ UNCHANGED pc
  /\ UNCHANGED << options, stdin, disk, history, running, handling, quitFlag >>

Quit ==
  /\ pc = "poll" /\ Quits
  /\ pc' = "ended"
  /\ UNCHANGED << options, stdin, disk, history, running, st, lastMtime, handling,
                  quitFlag >>

(* getchar: a byte, or EOF again and again. *)
NextChar == IF input = << >> THEN "EOF" ELSE Head(input)

(* Faulty: the end of the input is taken for one more character. *)
IsEndNever(c) == charSigned /\ c = "0xFF"

(***************************************************************************)
(* EOF == c, where c is a char: 0xFF becomes -1 too where char is signed,  *)
(* and EOF becomes 255 where it is not.                                    *)
(***************************************************************************)
IsEnd(c) == charSigned /\ c \in {"EOF", "0xFF"}

ReadChar ==
  /\ pc = "stdin" /\ ~ IsEnd(NextChar)
  /\ Len(text) < MaxText
  /\ text' = Append(text, NextChar)
  /\ input' = IF input = << >> THEN input ELSE Tail(input)
  /\ UNCHANGED << options, disk, history, mainVars >>

ReadEnd ==
  /\ pc = "stdin" /\ IsEnd(NextChar)
  /\ pc' = "exec"
  /\ UNCHANGED << options, stdin, disk, history, running, st, lastMtime, handling,
                  quitFlag >>

(* SIGINT: the default action until signal() was called, then intHandler. *)
Interrupt ==
  /\ pc \notin Stopped
  /\ IF handling
     THEN quitFlag' = TRUE /\ UNCHANGED pc
     ELSE pc' = "killed" /\ UNCHANGED quitFlag
  /\ UNCHANGED << options, stdin, disk, history, running, st, lastMtime, handling >>

Main ==
  \/ FirstStat \/ ReadFile \/ TakeText \/ ExecReturns \/ ExecAsserts
  \/ Poll \/ Quit \/ ReadChar \/ ReadEnd

ShellNext == Main \/ Change \/ Delete \/ Interrupt

ShellSpec == ShellInit /\ [][ShellNext]_shellVars

(* The process is scheduled; the editor and the user owe nothing. *)
FairShell == ShellSpec /\ WF_shellVars(Main)

-------------------------------------------------------------------------------
(* The properties. *)

Hung == pc = "run" /\ running = "loops"

(* The version v is on disk and a watching shell still has to see it. *)
Due(v) == watchFlag /\ file # Gone /\ file.number = v

(* v was executed, or something took its place: a later version, the file's  *)
(* removal, the end of the process, or a program that does not come back.    *)
Settled(v) ==
  \/ lastRead >= v \/ file = Gone \/ changes > v
  \/ pc \in Stopped \/ quitFlag \/ Hung

(***************************************************************************)
(* A version is executed although it may be saved at any moment of the     *)
(* loop, before and after the stat or the read of the one before, and with *)
(* any time, as long as no two versions have the same one.                 *)
(***************************************************************************)
DistinctChangesRun ==
  \A v \in 1..MaxChanges : Due(v) ~> (Settled(v) \/ ~ distinct)

(* What the help text says of -w: "watch file and execute it when it changes". *)
ChangesRun == \A v \in 1..MaxChanges : Due(v) ~> Settled(v)

(***************************************************************************)
(* The shell executes the file once, and again at most once for each time  *)
(* it was changed: a file nobody touches is not executed again.            *)
(***************************************************************************)
NoIdleRuns == executions <= 1 + changes

(***************************************************************************)
(* Once the handler is there Ctrl-C ends the shell, except that a program  *)
(* that does not come back keeps it for ever.                              *)
(***************************************************************************)
QuitEnds == quitFlag ~> (pc \in Stopped \/ Hung)

(***************************************************************************)
(* Where char is signed an input without the byte 0xFF is executed whole,  *)
(* unless the user interrupts the shell.                                   *)
(***************************************************************************)
InputRun ==
  \A s \in Inputs :
    (pc = "stdin" /\ charSigned /\ text = << >> /\ input = s /\ "0xFF" \notin ToSet(s))
      ~> (pc = "killed" \/ (pc = "exec" /\ text = s))
===============================================================================
