------------------------------ MODULE MCSorcerVM ------------------------------
(***************************************************************************)
(* Instances of SorcerVM for TLC: every program of two blocks over a small *)
(* alphabet of instructions, linked by SR_codeUpdate for its first block.  *)
(***************************************************************************)
EXTENDS SorcerVMMeaning, SorcerLink

CONSTANTS
  RootOps, CalleeOps,     \* the instructions of the first and the second block
  RootLength, CalleeLength

(* Literal 1 is a number, literal 2 is not. *)
MCNumerals == {1}

MCHandles == 1..(MaxCells + MaxVars + 1)

(* The builder numbers a block's PopVars in order. *)
Numbered(c) ==
  [i \in 1..Len(c) |->
     IF c[i].op = "PopVar"
     THEN Inst("PopVar", Cardinality({ j \in 1..(i - 1) : c[j].op = "PopVar" }))
     ELSE c[i]]

References(codes, b) ==
  Cardinality({ x \in { << k, i >> : k \in DOMAIN codes, i \in 1..RootLength } :
                  /\ x[2] \in DOMAIN codes[x[1]]
                  /\ codes[x[1]][x[2]].op \in {"PushBlock", "Call"}
                  /\ codes[x[1]][x[2]].arg = b })

Table(codes) ==
  [b \in DOMAIN codes |->
     [varCount |-> Cardinality({ i \in DOMAIN codes[b] : codes[b][i].op = "PopVar" }),
      code |-> Numbered(codes[b]),
      calleeCount |-> References(codes, b),
      base |-> 1]]

Programs ==
  { << r, c >> : r \in BoundedSeq(RootOps, RootLength),
                 c \in BoundedSeq(CalleeOps, CalleeLength) }

MCImages == { Linked(<< >>, Table(codes), 1) : codes \in Programs }

AllRootOps ==
  { Inst("PopNull", 0), Inst("PopVar", 0), Inst("PushImm", 1), Inst("PushVar", 0),
    Inst("PushBlock", 2), Inst("Call", 2), Inst("Apply", 0), Inst("Opr", 2) }

AllCalleeOps ==
  { Inst("PopVar", 0), Inst("PushVar", 0), Inst("Call", 1),
    Inst("Call", 2), Inst("Apply", 0), Inst("Opr", 1) }

(* Without recursion and applied blocks: what a run that must end is made of. *)
StraightRootOps ==
  { Inst("PopVar", 0), Inst("PushImm", 1), Inst("PushImm", 2), Inst("PushVar", 0),
    Inst("Call", 2), Inst("Opr", 2) }

StraightCalleeOps == { Inst("PopVar", 0), Inst("PushVar", 0), Inst("PushImm", 1) }

(* Enough to fail inside a call whose caller has bound a variable. *)
FailingRootOps ==
  { Inst("PopVar", 0), Inst("PushImm", 1), Inst("Call", 2), Inst("PushBlock", 2),
    Inst("Apply", 0) }

FailingCalleeOps == { Inst("PopVar", 0), Inst("Opr", 1), Inst("PushVar", 0) }

(***************************************************************************)
(* The part of 1.mana, the program tests/main.c runs, whose last block     *)
(* captures a variable of the block around it:                             *)
(*   { fff fff } [bbb]   ddd: { 100 [bbb] { bbb # } [xxx] xxx }   ddd #    *)
(* Block 2 is { fff fff } with fff left empty, 3 is ddd and 4 { bbb # }.   *)
(***************************************************************************)
CapturingProgram ==
  << << Inst("PushBlock", 2), Inst("PopVar", 0), Inst("Call", 3), Inst("Apply", 0) >>,
     << >>,
     << Inst("PushImm", 1), Inst("PopVar", 0), Inst("PushBlock", 4), Inst("PopVar", 1),
        Inst("PushVar", 1) >>,
     << Inst("PushVar", 0), Inst("Apply", 0) >> >>

CapturingImage == { Linked(<< >>, Table(CapturingProgram), 1) }

(* The test runs its root block once, on a new context. *)
TestSpec ==
  Init /\ [][UNCHANGED code /\ (Step \/ (Len(ds) = 0 /\ vt = << >> /\ Run(1)))]_vars
===============================================================================
