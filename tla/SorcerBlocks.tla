----------------------------- MODULE SorcerBlocks -----------------------------
(***************************************************************************)
(* The block table of a context and its link: the SR_block* builders,      *)
(* SR_ctxBlocksRollback and SR_codeUpdate (sorcer.c).                      *)
(*                                                                         *)
(*   blockTable   ctx->blockTable, a sequence of SR_BlockInfo              *)
(*   code         ctx->code, to which every link appends                   *)
(*   codeUpdated  ctx->codeUpdated, cleared by every builder but one       *)
(*                                                                         *)
(* Two auxiliary variables record what the code does not, while it is up   *)
(* to date: the blocks that the last link emitted, and the blocks that     *)
(* changed since without clearing codeUpdated.                             *)
(***************************************************************************)
EXTENDS Integers, SorcerLink

CONSTANTS
  Literals,   \* the literals of PushImm
  Oprs,       \* the operators registered in ctx->oprTable
  Vars,       \* the variables the host passes to SR_blockAddInstPushVar
  MaxBlocks,  \* bound on the block table
  MaxInsts,   \* bound on the instructions of all blocks together,
  MaxInlined, \* and of all blocks after one is inlined
  MaxCallees, \* bound on calleeCount, which a rollback leaves as it is
  MaxCode     \* bound on the code vector when it is outdated

ASSUME PayloadAssumption == Literals \union Oprs \union Vars \subseteq Nat
ASSUME TableAssumption   == {MaxBlocks, MaxInsts, MaxInlined, MaxCallees, MaxCode} \subseteq Nat

VARIABLES blockTable, code, codeUpdated, linked, unlinked

blockVars == << blockTable, code, codeUpdated, linked, unlinked >>

Blocks == 1..Len(blockTable)

TypeOK ==
  /\ blockTable \in Seq(BlockInfo)
  /\ code \in Seq(Instruction)
  /\ codeUpdated \in BOOLEAN
  /\ linked \subseteq Nat
  /\ unlinked \subseteq Blocks

Init ==
  /\ blockTable = << >> /\ code = << >> /\ codeUpdated = FALSE
  /\ linked = {} /\ unlinked = {}

-------------------------------------------------------------------------------
(* The builders. *)

TotalInsts == Len(FlattenSeq([b \in Blocks |-> blockTable[b].code]))

(* SR_codeOutdate: the next run links again, if the bound leaves room for it. *)
Outdate ==
  /\ Len(code) <= MaxCode
  /\ codeUpdated' = FALSE /\ linked' = {} /\ unlinked' = {}
  /\ UNCHANGED code

Emit(b, op, arg) == [blockTable EXCEPT ![b].code = Append(@, Inst(op, arg))]

BlockNew ==
  /\ Len(blockTable) < MaxBlocks
  /\ blockTable' = Append(blockTable,
       [varCount |-> 0, code |-> << >>, calleeCount |-> 0, base |-> 1])
  /\ Outdate

AddInst(b, op, arg) ==
  /\ TotalInsts < MaxInsts
  /\ blockTable' = Emit(b, op, arg)
  /\ Outdate

AddInstPopNull(b)    == AddInst(b, "PopNull", 0)
AddInstPushImm(b, l) == AddInst(b, "PushImm", l)
AddInstPushVar(b, v) == AddInst(b, "PushVar", v)
AddInstApply(b)      == AddInst(b, "Apply", 0)
AddInstOpr(b, o)     == AddInst(b, "Opr", o)

(* The variable's number is the count of those bound before it. *)
AddInstPopVar(b) ==
  /\ TotalInsts < MaxInsts
  /\ blockTable' = [Emit(b, "PopVar", blockTable[b].varCount) EXCEPT ![b].varCount = @ + 1]
  /\ Outdate

(* Faulty: the reference is not counted. *)
AddReferenceUncounted(b, op, x) == AddInst(b, op, x)

(* PushBlock and Call count the reference in the block they name. *)
AddReference(b, op, x) ==
  /\ TotalInsts < MaxInsts
  /\ blockTable[x].calleeCount < MaxCallees
  /\ blockTable' = [Emit(b, op, x) EXCEPT ![x].calleeCount = @ + 1]
  /\ Outdate

AddInstPushBlock(b, x) == AddReference(b, "PushBlock", x)
AddInstCall(b, x)      == AddReference(b, "Call", x)

(* Faulty: the variables of the inlined block keep their numbers. *)
UnshiftedCode(c, n) == c

(* Faulty: they are shifted the wrong way. *)
LoweredCode(c, n) ==
  [i \in 1..Len(c) |->
     IF c[i].op \in {"PopVar", "PushVar"} THEN [c[i] EXCEPT !.arg = @ - n] ELSE c[i]]

(* Faulty: only the bindings are renumbered, not the uses. *)
PopsShiftedCode(c, n) ==
  [i \in 1..Len(c) |-> IF c[i].op = "PopVar" THEN [c[i] EXCEPT !.arg = @ + n] ELSE c[i]]

(* The instructions of an inlined block, its variables renumbered from n. *)
ShiftedCode(c, n) ==
  [i \in 1..Len(c) |->
     IF c[i].op \in {"PopVar", "PushVar"} THEN [c[i] EXCEPT !.arg = @ + n] ELSE c[i]]

(***************************************************************************)
(* SR_blockAddInlineBlock does not call SR_codeOutdate: a linked image     *)
(* goes on to be executed although the block has changed.  Inlining a      *)
(* block into itself (ib = b) never ends in the C, so no state follows it. *)
(***************************************************************************)
AddInlineBlock(b, ib) ==
  /\ ib # b
  /\ TotalInsts + Len(blockTable[ib].code) <= MaxInlined
  /\ blockTable' =
       [blockTable EXCEPT
          ![b].code     = @ \o ShiftedCode(blockTable[ib].code, blockTable[b].varCount),
          ![b].varCount = @ + blockTable[ib].varCount]
  /\ unlinked' = IF codeUpdated THEN unlinked \union {b} ELSE {}
  /\ UNCHANGED << code, codeUpdated, linked >>

(* The blocks the code of block b names. *)
Targets(b) ==
  { blockTable[b].code[i].arg :
      i \in { j \in DOMAIN blockTable[b].code :
                blockTable[b].code[j].op \in {"PushBlock", "Call"} } }

(* A rollback to n blocks leaves no block that names a removed one. *)
KeepsNames(n) == \A b \in 1..n : Targets(b) \subseteq 1..n

(***************************************************************************)
(* SR_ctxBlocksRollback keeps the first n blocks and looks at nothing: the *)
(* code stays up to date if it was, references stay counted in the blocks  *)
(* that stay, and a block that stays may go on naming a removed one.       *)
(***************************************************************************)
BlocksRollback(n) ==
  /\ blockTable' = SubSeq(blockTable, 1, n)
  /\ linked' = linked \intersect (1..n)
  /\ unlinked' = unlinked \intersect (1..n)
  /\ UNCHANGED << code, codeUpdated >>

(***************************************************************************)
(* SR_codeUpdate for entry block e, as SR_run calls it: nothing happens    *)
(* while the code is up to date, even if e was not emitted.                *)
(***************************************************************************)
CodeUpdate(e) ==
  IF codeUpdated
  THEN UNCHANGED blockVars
  ELSE /\ codeUpdated' = TRUE
       /\ blockTable' = Rebased(code, blockTable, e)
       /\ code' = Linked(code, blockTable, e)
       /\ linked' = Emitted(blockTable, e)
       /\ unlinked' = {}

(***************************************************************************)
(* The builders, in any order.  The rollbacks here are those that leave    *)
(* every name its block, as the loader's do: it discards the blocks of a   *)
(* failed load, which no older block names.  SorcerContext has the others. *)
(***************************************************************************)
Build ==
  \/ BlockNew
  \/ \E b \in Blocks :
       \/ AddInstPopNull(b) \/ AddInstPopVar(b) \/ AddInstApply(b)
       \/ \E l \in Literals : AddInstPushImm(b, l)
       \/ \E v \in Vars : AddInstPushVar(b, v)
       \/ \E o \in Oprs : AddInstOpr(b, o)
       \/ \E x \in Blocks :
            AddInstPushBlock(b, x) \/ AddInstCall(b, x) \/ AddInlineBlock(b, x)
  \/ \E n \in 0..(Len(blockTable) - 1) : KeepsNames(n) /\ BlocksRollback(n)

Next == Build \/ \E e \in Blocks : CodeUpdate(e)

Spec == Init /\ [][Next]_blockVars

-------------------------------------------------------------------------------
(* The properties. *)

(***************************************************************************)
(* The variable table has no holes: PopVar appends, so the slot a variable *)
(* gets is its place in the order of binding.  Whatever is inlined into    *)
(* what, the numbers in the code agree with it, and varCount counts them.  *)
(***************************************************************************)
BindersIn(c, i) == { j \in 1..i : c[j].op = "PopVar" }

InOrder(c, varCount) ==
  /\ varCount = Cardinality(BindersIn(c, Len(c)))
  /\ \A i \in 1..Len(c) :
       c[i].op = "PopVar" => c[i].arg = Cardinality(BindersIn(c, i - 1))

SlotsInOrder == \A b \in Blocks : InOrder(blockTable[b].code, blockTable[b].varCount)

(***************************************************************************)
(* Inlining does not change what a variable of the inlined block means: in *)
(* the copy, a use is bound by the copy of what bound it before, never by  *)
(* a binding of the block that receives it; one that nothing bound in its  *)
(* block stays one that nothing binds.                                     *)
(***************************************************************************)
BindersOf(c, i) == { j \in 1..(i - 1) : c[j].op = "PopVar" /\ c[j].arg = c[i].arg }

KeepsReads(c, d, e) ==
  \A i \in 1..Len(d) :
    d[i].op = "PushVar" =>
      BindersOf(e, Len(c) + i) = { Len(c) + j : j \in BindersOf(d, i) }

InlinedReads ==
  [][\A b, ib \in Blocks :
       AddInlineBlock(b, ib) =>
         KeepsReads(blockTable[b].code, blockTable[ib].code, blockTable'[b].code)]_blockVars

(***************************************************************************)
(* Every block that some block names is counted as a callee, through       *)
(* inlining (which counts nothing) and rollback (which gives nothing       *)
(* back), so a link emits every block control can reach: true of hosts     *)
(* whose rollbacks leave every name its block.                             *)
(***************************************************************************)
NamedBlocksCounted ==
  \A b \in Blocks : \A x \in Targets(b) :
    x \in Blocks /\ blockTable[x].calleeCount > 0

(***************************************************************************)
(* While codeUpdated is set, the image of each linked block is what the    *)
(* block says: every instruction in its place, a call turned into a tail   *)
(* call exactly when it is last, Ret after the last one, and every block   *)
(* it names replaced by the place where that block's image starts.  Blocks *)
(* that inlining changed since the link are the exception, see             *)
(* SR_blockAddInlineBlock; the rollbacks are those of Build.               *)
(***************************************************************************)
TailOf == [Call |-> "TailCall", Apply |-> "TailApply"]

ImageMatches(b) ==
  LET src == blockTable[b].code
      at(i) == code[blockTable[b].base + i - 1]
  IN /\ blockTable[b].base + Len(src) \in DOMAIN code
     /\ at(Len(src) + 1).op = "Ret"
     /\ \A i \in 1..Len(src) :
          /\ at(i).op = IF i = Len(src) /\ src[i].op \in DOMAIN TailOf
                        THEN TailOf[src[i].op] ELSE src[i].op
          /\ IF src[i].op \in {"PushBlock", "Call"}
             THEN src[i].arg \in linked /\ at(i).arg = blockTable[src[i].arg].base
             ELSE at(i).arg = src[i].arg

FreshImage ==
  codeUpdated => \A b \in linked \ unlinked : ImageMatches(b)
===============================================================================
