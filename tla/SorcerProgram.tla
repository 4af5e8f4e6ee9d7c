----------------------------- MODULE SorcerProgram -----------------------------
(***************************************************************************)
(* The life of one source: execCode of shell/main.c and test of            *)
(* tests/main.c make a new context, compile, run the root block if there   *)
(* is one, and free the context.  The module composes the compiler         *)
(* (SorcerMana), the link (SorcerBlocks) and the machine (SorcerVM), which *)
(* meet in the block table and in the code.                                *)
(*                                                                         *)
(* The machine's program counter is pc here, for p is the loader's         *)
(* position.  The source (toks) is kept for the properties.                *)
(***************************************************************************)
EXTENDS SorcerMana, SorcerCells

CONSTANTS Numerals, Handles, MaxCells, MaxFrames, MaxVars

ASSUME PoolAssumption  == Handles \subseteq Nat
ASSUME StackAssumption == {MaxCells, MaxFrames, MaxVars} \subseteq Nat

(* The compiler takes a token for a literal when SR_cellNew accepts it; the  *)
(* machine hands the same string to the same constructor.                    *)
ASSUME NumeralsAssumption == \A t \in DOMAIN LiteralOf : LiteralOf[t] \in Numerals

VARIABLES ds, rs, vt, pool, pc, mode, err

VM == INSTANCE SorcerVM WITH
        Images <- {}, OprTable <- ArithOprs, HostCells <- 0,
        ReuseAfterFailure <- FALSE, p <- pc

machineVars == << ds, rs, vt, pool, pc, mode, err >>

programVars == << manaVars, machineVars >>

ProgramInit ==
  /\ LoadInit
  /\ ds = << >> /\ rs = << >> /\ vt = << >> /\ pool = {}
  /\ pc = Wild /\ mode = "idle" /\ err = "NONE"

-------------------------------------------------------------------------------
(* A context that holds blocks of something else is left with the loader.    *)
Alone == prior = 0

Root == Global(1)

Load == LoadStep /\ UNCHANGED machineVars

(* Faulty: the block that is run is the last one the loader made. *)
RunNewest ==
  /\ Alone /\ phase = "loaded"
  /\ phase' = "executed"
  /\ infos' = << >> /\ callStack' = << >>
  /\ CodeUpdate(Len(blockTable))
  /\ VM!Run(blockTable'[Len(blockTable)].base)
  /\ UNCHANGED << toks, prior, p, error >>

(***************************************************************************)
(* The loader returns the root block and frees its tables; SR_run links    *)
(* and starts at the block's base address.                                 *)
(***************************************************************************)
RunRoot ==
  /\ Alone /\ phase = "loaded"
  /\ phase' = "executed"
  /\ infos' = << >> /\ callStack' = << >>
  /\ CodeUpdate(Root)
  /\ VM!Run(blockTable'[Root].base)
  /\ UNCHANGED << toks, prior, p, error >>

Execute == VM!Step /\ UNCHANGED manaVars

(* SR_ctxFree, after an error of the compiler as after a run. *)
Finish ==
  /\ Alone /\ phase \in {"executed", "rejected", "abandoned"}
  /\ VM!CtxFree
  /\ UNCHANGED manaVars

ProgramNext == Load \/ RunRoot \/ Execute \/ Finish

ProgramSpec == ProgramInit /\ [][ProgramNext]_programVars

(* One thread runs it all. *)
FairProgram == ProgramSpec /\ WF_programVars(ProgramNext)

-------------------------------------------------------------------------------
(* The source read without the loader's tables. *)

(* Position k uses a name. *)
Uses(k) == toks[k] \notin Structural \union Quoted \union {"#", "]"} /\ ~ Listed(k)

(* Some word may mean a variable of a block around its own. *)
Captures == \E k \in 1..Len(toks) : Uses(k) /\ OwnBindings(k) = {} /\ Bindings(k) # {}

(* Position k uses the name that position d defines. *)
UsesDef(k, d) == Uses(k) /\ Defines(d) /\ DefOf[toks[d]] = toks[k]

(* Nothing is applied, and definitions are used only before all of them or   *)
(* only after each has ended: no block can call itself in the end.           *)
Loopless ==
  /\ "#" \notin ToSet(toks)
  /\ \/ \A k, d \in 1..Len(toks) : UsesDef(k, d) => k < d
     \/ \A k, d \in 1..Len(toks) : UsesDef(k, d) => k > d /\ d + 1 \notin Around(k)

-------------------------------------------------------------------------------
(* The properties. *)

(***************************************************************************)
(* What the machine is given: the image of a source that compiles ends in  *)
(* Ret, jumps to entries only and has its tail calls eliminated, which is  *)
(* what the theorems about SorcerVM assume of its images; it holds the     *)
(* root and every block that one of its blocks names, each as the compiler *)
(* left it; and unless the source captures a variable, or hides one in     *)
(* braces inside a list, it reads only what its blocks have bound.         *)
(***************************************************************************)
CompiledImage ==
  codeUpdated =>
    /\ Linkage(code) /\ TailCallsEliminated(code)
    /\ Root \in linked /\ FreshImage
    /\ ListsHoldNames /\ ~ Captures => SelfContained(code)

(***************************************************************************)
(* A source that compiles runs without a failed assertion: the literals    *)
(* the compiler accepted are accepted again, frames fit, the fetch stays   *)
(* in the code; and what it reads is there unless it captures a variable   *)
(* (braces inside a list of variables can hide that it does).              *)
(* Taking from an empty stack is all that is left to go wrong.             *)
(***************************************************************************)
ProgramSafe ==
  /\ mode \notin {"assertImm", "assertFrame", "noInst"}
  /\ mode = "noSlot" => Captures \/ ~ ListsHoldNames

(***************************************************************************)
(* Every source is done with: a load ends, recursive and mutually recursive*)
(* definitions are entered once; what was rejected is freed; what compiles *)
(* and has no loops runs to its end (or takes from an empty stack, or      *)
(* reads a captured variable that is not there) and is freed with no       *)
(* variable left, which SR_ctxFree asserts, and every number given back.   *)
(***************************************************************************)
ProgramEnds ==
  <>(\/ phase \in Crashes \/ (~ Alone /\ phase \notin {"tree", "load"})
     \/ mode = "freed" /\ pool = {}
     \/ mode \in {"noCell", "noSlot"}
     \/ mode = "running" /\ ~ Loopless)
===============================================================================
