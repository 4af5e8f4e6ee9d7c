---------------------------- MODULE SorcerContext ----------------------------
(***************************************************************************)
(* A context (SR_Context, sorcer.c) as its host uses it: blocks are built, *)
(* rolled back and run in any order, and every SR_run links first.  The    *)
(* module composes SorcerBlocks (block table and link) and SorcerVM (the   *)
(* loop of SR_run); the two meet in ctx->code and in Run.                  *)
(*                                                                         *)
(* kept holds the block values the host popped and may push back later.    *)
(* The auxiliary variable strayed records that the host, or the program,   *)
(* did one of the things this interface allows and does not survive:       *)
(*   - run a block the up-to-date code does not hold (SR_codeUpdate        *)
(*     returns early);                                                     *)
(*   - link again while a block value is on the data stack (the link       *)
(*     resolves the old code, which is resolved already, a second time);   *)
(*   - push back a block value that it popped before the last link;        *)
(*   - roll back a block that a block that stays names;                    *)
(*   - run again after a failure that left frames on the return stack;     *)
(*   - use a variable the running activation has not bound.                *)
(* The auxiliary variable imageStart is where the last link began.         *)
(***************************************************************************)
EXTENDS SorcerBlocks, SorcerCells

CONSTANTS
  Numerals, Handles, MaxCells, MaxFrames, MaxVars, HostCells,  \* as in SorcerVM
  HostKept    \* bound on the block values the host keeps

ASSUME PoolAssumption  == Handles \subseteq Nat
ASSUME StackAssumption == {MaxCells, MaxFrames, MaxVars, HostCells} \subseteq Nat

VARIABLES ds, rs, vt, pool, p, mode, err, kept, strayed, imageStart

VM == INSTANCE SorcerVM WITH
        Images <- {}, OprTable <- ArithOprs, ReuseAfterFailure <- TRUE

machineVars == << ds, rs, vt, pool, p, mode, err >>

contextVars == << blockVars, machineVars, kept, strayed, imageStart >>

ContextInit ==
  /\ Init
  /\ ds = << >> /\ rs = << >> /\ vt = << >> /\ pool = {}
  /\ p = Wild /\ mode = "idle" /\ err = "NONE"
  /\ kept = {} /\ strayed = FALSE /\ imageStart = 1

-------------------------------------------------------------------------------
(* The block values among the cells of s. *)
BlockValues(s) == { s[i].val : i \in { j \in DOMAIN s : s[j].type = BLOCK } }

(* The ways of starting a run on e that the interface allows but the code   *)
(* does not survive.                                                        *)
Unsafe(e) ==
  \/ codeUpdated /\ e \notin linked
  \/ ~ codeUpdated /\ BlockValues(ds) # {}
  \/ rs # << >>

BuildBlock == Build /\ UNCHANGED strayed

(* SR_ctxBlocksRollback(n) by a host that goes on to use a block that names   *)
(* one it removes.                                                           *)
TearNames(n) ==
  /\ ~ KeepsNames(n)
  /\ BlocksRollback(n)
  /\ strayed' = TRUE

BuildBlocks ==
  /\ mode = "idle"
  /\ BuildBlock \/ \E n \in Blocks : TearNames(n)
  /\ UNCHANGED << machineVars, kept, imageStart >>

(* SR_run up to its loop: link, then start at the block's base address. *)
Run(e) ==
  /\ CodeUpdate(e)
  /\ VM!Run(blockTable'[e].base)
  /\ strayed' = (strayed \/ Unsafe(e))
  /\ imageStart' = IF codeUpdated THEN imageStart ELSE Len(code) + 1
  /\ UNCHANGED kept

Execute ==
  /\ VM!Step
  /\ strayed' = (strayed \/ VM!ReadsUnbound)
  /\ UNCHANGED << blockVars, kept, imageStart >>

(* The address a link found past the end of the table is, if it is one at    *)
(* all, the base that a removed block had: its old code goes on to run.      *)
Land ==
  /\ mode = "running" /\ p = Wild
  /\ p' \in Entries(code)
  /\ UNCHANGED << blockVars, ds, rs, vt, pool, mode, err, kept, strayed, imageStart >>

(* SR_dsPop: the host frees the numbers and may keep the block values.  A    *)
(* number it keeps and pushes back is, up to its handle, one it makes anew.  *)
TakeCells(n) ==
  /\ VM!HostPop(n)
  /\ LET all == kept \union BlockValues(SubSeq(ds, Len(ds) - n + 1, Len(ds)))
     IN kept' = IF Cardinality(all) <= HostKept THEN all ELSE kept
  /\ UNCHANGED strayed

(* SR_dsPush of a block value that SR_dsPop handed out. *)
GiveBack(a) ==
  /\ mode = "idle"
  /\ Len(ds) < HostCells
  /\ VM!PushCell(Blk(a))
  /\ strayed' = (strayed \/ a < imageStart)
  /\ UNCHANGED << rs, vt, p, mode, err, kept >>

UseStack ==
  /\ \/ \E n \in 1..Len(ds) : TakeCells(n)
     \/ \E a \in kept : GiveBack(a)
     \/ VM!HostPush /\ UNCHANGED << kept, strayed >>
     \/ VM!CtxFree /\ kept' = {} /\ UNCHANGED strayed
  /\ UNCHANGED << blockVars, imageStart >>

ContextNext ==
  BuildBlocks \/ (\E e \in Blocks : Run(e)) \/ Execute \/ Land \/ UseStack

ContextSpec == ContextInit /\ [][ContextNext]_contextVars

-------------------------------------------------------------------------------
(* The properties. *)

(***************************************************************************)
(* A host that does none of the six things above gets the machine that     *)
(* SorcerVM promises, across any number of links: control stays in the     *)
(* image the last link made, the variable table is partitioned exactly,    *)
(* and no assertion on a frame fails.                                      *)
(***************************************************************************)
SafeUse ==
  ~ strayed =>
    /\ mode = "running" => p \in imageStart..Len(code)
    /\ VM!ExactFrames
    /\ VM!FrameAssertions

(* The numbers have one owner each whatever is linked, misused or failed. *)
Ownership == VM!Ownership

(***************************************************************************)
(* SR_run never fetches anything but an instruction: the default branch of *)
(* its switch asserts false.                                               *)
(***************************************************************************)
NoStrayFetch == VM!NoStrayFetch
===============================================================================
