---------------------------- MODULE SorcerShell_proofs ----------------------------
(***************************************************************************)
(* What is proved of the shell: its types, and that a file nobody touches  *)
(* is not executed again, for any number of changes at any times.          *)
(***************************************************************************)
EXTENDS SorcerShell, TLAPS

(* main has decided on an execution that execCode has not counted yet. *)
Pending == IF pc = "exec" THEN 1 ELSE 0

(* The next stat would find a time the last one did not. *)
Unseen == file # Gone /\ file.mtime # st

ShellInv ==
  /\ TypeOK
  /\ file.number \in 0..changes
  /\ pc \in {"begin", "stdin"} => executions = 0
  /\ ~ entryFile => file = Gone
  /\ pc = "begin" => entryFile
  /\ pc = "stdin" => ~ entryFile
  /\ pc = "poll" => lastMtime = st
  /\ executions + Pending <= 1 + changes
  /\ Unseen => executions + Pending <= changes

(* The time the shell reads is one of the clock's. *)
LEMMA StatType == ASSUME TypeOK PROVE Stat \in Seconds
BY DEF TypeOK, Stat, Version

(* The shell starts in the invariant. *)
LEMMA ShellInitInv == ShellInit => ShellInv
<1> SUFFICES ASSUME ShellInit PROVE ShellInv
  OBVIOUS
<1>1. {handling, quitFlag, watchFlag, entryFile, charSigned, distinct} \subseteq BOOLEAN
  BY DEF ShellInit
<1>2. input \in Seq(Chars)
  <2>1. CASE entryFile
    BY <2>1 DEF ShellInit
  <2>2. CASE ~ entryFile
    BY <2>2, InputsAssumption DEF ShellInit
  <2>3. QED
    BY <2>1, <2>2
<1>3. text \in Seq(Chars \union {"EOF"})
  BY DEF ShellInit
<1>4. pc \in {"begin", "stdin"}
  BY DEF ShellInit
<1>5. TypeOK
  BY <1>1, <1>2, <1>3, <1>4, SecondsAssumption, ShellBounds
     DEF ShellInit, TypeOK, Outcomes
<1>6. QED
  BY <1>4, <1>5 DEF ShellInit, ShellInv, Gone, Pending, Unseen

(* The steps of the environment. *)
LEMMA ChangeInv == ShellInv /\ Change => ShellInv'
<1> SUFFICES ASSUME ShellInv, Change PROVE ShellInv'
  OBVIOUS
<1> USE SecondsAssumption, ShellBounds
    DEF Change, options, stdin, history, mainVars
<1>1. PICK t \in Seconds, d \in Outcomes :
        /\ file' = [number |-> changes + 1, mtime |-> t, does |-> d]
        /\ stamps' = stamps \union {t}
        /\ distinct' = (distinct /\ t \notin stamps)
  OBVIOUS
<1>2. TypeOK'
  <2>1. changes \in 0..MaxChanges /\ changes' \in 0..MaxChanges /\ lastRead' \in 0..changes'
    BY DEF ShellInv, TypeOK
  <2>2. file' \in Version /\ stamps' \subseteq Seconds /\ distinct' \in BOOLEAN
    BY <1>1, <2>1 DEF Version, ShellInv, TypeOK
  <2>3. QED
    BY <2>1, <2>2 DEF ShellInv, TypeOK
<1>3. file'.number \in 0..changes'
  BY <1>1 DEF ShellInv, TypeOK
<1>4. QED
  BY <1>1, <1>2, <1>3 DEF ShellInv, TypeOK, Pending, Unseen

(* The file may be deleted, *)
LEMMA DeleteInv == ShellInv /\ Delete => ShellInv'
BY DEF ShellInv, TypeOK, Delete, Gone, Pending, Unseen, options, stdin, history,
       mainVars

(* the shell interrupted, *)
LEMMA InterruptInv == ShellInv /\ Interrupt => ShellInv'
<1> SUFFICES ASSUME ShellInv, Interrupt PROVE ShellInv'
  OBVIOUS
<1> USE DEF Interrupt, ShellInv, TypeOK, Pending, Unseen, options, stdin, history, disk
<1>1. CASE handling
  BY <1>1
<1>2. CASE ~ handling
  BY <1>2 DEF Stopped
<1>3. QED
  BY <1>1, <1>2

(* The steps that take the file's time. *)
LEMMA FirstStatInv == ShellInv /\ FirstStat => ShellInv'
BY StatType
   DEF ShellInv, TypeOK, FirstStat, Stat, Pending, Unseen, options, stdin, history, disk

(* the time of the file read, *)
LEMMA PollInv == ShellInv /\ Poll => ShellInv'
BY StatType
   DEF ShellInv, TypeOK, Poll, Stat, Pending, Unseen, options, stdin, history, disk

(* The steps of an execution. *)
LEMMA ReadFileInv == ShellInv /\ ReadFile => ShellInv'
<1> SUFFICES ASSUME ShellInv, ReadFile PROVE ShellInv'
  OBVIOUS
<1>1. running' \in Outcomes /\ lastRead' \in 0..changes
  BY DEF ReadFile, FileOutcome, ShellInv, TypeOK, Version, Outcomes
<1>2. executions' = executions + 1 /\ pc = "exec" /\ pc' = "run"
  BY DEF ReadFile, FileOutcome
<1>3. TypeOK'
  BY <1>1, <1>2 DEF ReadFile, FileOutcome, ShellInv, TypeOK, options, stdin, disk
<1>4. QED
  BY <1>2, <1>3 DEF ReadFile, FileOutcome, ShellInv, TypeOK, Pending, Unseen, options, disk

(* its text taken, *)
LEMMA TakeTextInv == ShellInv /\ TakeText => ShellInv'
BY DEF ShellInv, TypeOK, TakeText, Pending, Unseen, options, stdin, disk

(* the program run to its end, *)
LEMMA ExecReturnsInv == ShellInv /\ ExecReturns => ShellInv'
<1> SUFFICES ASSUME ShellInv, ExecReturns PROVE ShellInv'
  OBVIOUS
<1> USE DEF ShellInv, TypeOK, ExecReturns, SeenMtime, Pending, Unseen, options, stdin,
            history, disk
<1>1. CASE entryFile /\ watchFlag
  BY <1>1
<1>2. CASE ~ (entryFile /\ watchFlag)
  BY <1>2 DEF Stopped
<1>3. QED
  BY <1>1, <1>2

(* or to a failed assertion, *)
LEMMA ExecAssertsInv == ShellInv /\ ExecAsserts => ShellInv'
BY DEF ShellInv, TypeOK, ExecAsserts, Stopped, Pending, Unseen, options, stdin, history,
       disk

(* The steps that start and end main. *)
LEMMA QuitInv == ShellInv /\ Quit => ShellInv'
BY DEF ShellInv, TypeOK, Quit, Stopped, Pending, Unseen, options, stdin, history, disk

(* a character of a line read, *)
LEMMA ReadCharInv == ShellInv /\ ReadChar => ShellInv'
<1> SUFFICES ASSUME ShellInv, ReadChar PROVE ShellInv'
  OBVIOUS
<1>1. NextChar \in Chars \union {"EOF"}
  BY DEF NextChar, ShellInv, TypeOK
<1>2. input' \in Seq(Chars) /\ text' \in Seq(Chars \union {"EOF"})
  BY <1>1 DEF ReadChar, ShellInv, TypeOK
<1>3. QED
  BY <1>2
     DEF ReadChar, ShellInv, TypeOK, Pending, Unseen, options, history, disk, mainVars

(* and the end of the input met. *)
LEMMA ReadEndInv == ShellInv /\ ReadEnd => ShellInv'
BY DEF ReadEnd, ShellInv, TypeOK, Pending, Unseen, options, stdin, history, disk

(* Every step of the shell keeps the invariant. *)
LEMMA ShellNextInv == ShellInv /\ [ShellNext]_shellVars => ShellInv'
<1>1. ShellInv /\ UNCHANGED shellVars => ShellInv'
  BY DEF ShellInv, TypeOK, Pending, Unseen, shellVars, options, stdin, disk, history,
         mainVars
<1>2. QED
  BY <1>1, ChangeInv, DeleteInv, InterruptInv, FirstStatInv, PollInv, ReadFileInv,
     TakeTextInv, ExecReturnsInv, ExecAssertsInv, QuitInv, ReadCharInv, ReadEndInv
     DEF ShellNext, Main

(***************************************************************************)
(* The inductive invariant of the shell holds for every host, text, size   *)
(* and history of the watched file (src/shell/main.c).                     *)
(***************************************************************************)
THEOREM ShellInvariance == ShellSpec => []ShellInv
BY ShellInitInv, ShellNextInv, PTL DEF ShellSpec

(* The variables of main, the file and the history keep their types. *)
THEOREM ShellTypeCorrect == ShellSpec => []TypeOK
<1>1. ShellInv => TypeOK
  BY DEF ShellInv
<1>2. QED
  BY <1>1, ShellInvariance, PTL

(***************************************************************************)
(* One execution, and one more for each change at most, whatever times the *)
(* versions have and whenever main looks at them.                          *)
(***************************************************************************)
THEOREM OneRunPerChange == ShellSpec => []NoIdleRuns
<1>1. ShellInv => NoIdleRuns
  BY ShellBounds DEF ShellInv, TypeOK, Pending, NoIdleRuns
<1>2. QED
  BY <1>1, ShellInvariance, PTL
===============================================================================
