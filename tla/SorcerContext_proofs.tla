------------------------- MODULE SorcerContext_proofs -------------------------
(***************************************************************************)
(* Proofs about SorcerContext, for every payload and every bound.  The     *)
(* numbers of a context have one owner each whatever its host does         *)
(* (Ownership), and a host that does none of the six things SorcerContext  *)
(* names has the machine that SorcerVM promises across any number of links *)
(* (SafeUse).                                                              *)
(*                                                                         *)
(* The proofs are put together from those of the two modules it composes:  *)
(* what SR_codeUpdate leaves behind (SorcerBlocks_proofs) is what the      *)
(* machine needs of its image (SorcerVM_proofs).  The invariant has two    *)
(* parts: types and owners, which no misuse breaks, and what ties the      *)
(* table, the image and the machine together until the host strays.        *)
(***************************************************************************)
EXTENDS SorcerContext, SorcerBlocks_proofs

VMP == INSTANCE SorcerVM_proofs WITH
         Images <- {}, OprTable <- ArithOprs, ReuseAfterFailure <- TRUE

-------------------------------------------------------------------------------
(* The assumptions of SorcerVM hold of the machine of a context. *)

(* The operators of SR_arith are operators. *)
LEMMA ArithOprsFit == ArithOprs \in Seq(Opr)
<1> DEFINE u == Unary
           b == Binary
<1>1. u \in Opr /\ b \in Opr
  BY DEF Unary, Binary, Opr
<1>2. ArithOprs = << u, b, b, b, b >>
  BY DEF ArithOprs
<1> HIDE DEF u, b
<1> DEFINE s == << u, b, b, b, b >>
<1>3. /\ Len(s) = 5 /\ s = [i \in 1..5 |-> s[i]]
      /\ \A i \in 1..5 : s[i] \in Opr
  BY <1>1
<1> HIDE DEF s
<1>4. s \in Seq(Opr)
  BY <1>3
<1> QED
  BY <1>2, <1>4 DEF s

(* The assumptions the ownership proofs make of their constants hold of the *)
(* machine of a context.                                                    *)
LEMMA MachineAssumptions ==
  /\ VMP!ImagesAssumption /\ VMP!OprAssumption /\ VMP!HandlesAssumption
  /\ VMP!BoundsAssumption /\ VMP!ReuseAssumption
<1>1. VMP!ImagesAssumption
  BY DEF VMP!ImagesAssumption
<1>2. VMP!OprAssumption
  BY ArithOprsFit DEF VMP!OprAssumption, VMP!Opr, Opr
<1>3. VMP!HandlesAssumption
  BY PoolAssumption DEF VMP!HandlesAssumption
<1>4. VMP!BoundsAssumption
  BY StackAssumption DEF VMP!BoundsAssumption
<1>5. VMP!ReuseAssumption
  BY DEF VMP!ReuseAssumption
<1> QED
  BY <1>1, <1>2, <1>3, <1>4, <1>5

(* SorcerContext and the proofs about SorcerVM speak of the same machine. *)
LEMMA SameStep == VM!Step <=> VMP!Step
  BY DEF VM!Step, VMP!Step, VM!PopNull, VMP!PopNull, VM!PopVar, VMP!PopVar,
         VM!PopNothing, VMP!PopNothing, VM!PushImm, VMP!PushImm, VM!PushBadImm,
         VMP!PushBadImm, VM!PushVar, VMP!PushVar, VM!ReadsUnbound, VMP!ReadsUnbound,
         VM!PushRemains,
         VMP!PushRemains, VM!PushNothing, VMP!PushNothing, VM!PushBlock,
         VMP!PushBlock, VM!Call, VMP!Call, VM!Apply, VMP!Apply, VM!ApplyFail,
         VMP!ApplyFail, VM!OprRun, VMP!OprRun, VM!OprFail, VMP!OprFail, VM!Ret,
         VMP!Ret, VM!RetEnd, VMP!RetEnd, VM!BadFrame, VMP!BadFrame, VM!TailCall,
         VMP!TailCall, VM!TailApply, VMP!TailApply, VM!TailApplyFail,
         VMP!TailApplyFail, VM!FetchNothing, VMP!FetchNothing, VM!Executing,
         VMP!Executing, VM!Front, VMP!Front, VM!Freed, VMP!Freed, VM!Last,
         VMP!Last, VM!Jump, VMP!Jump, VM!ExecutingOneOf, VMP!ExecutingOneOf,
         VM!VarBase, VMP!VarBase, VM!Fault, VMP!Fault, VM!Arg, VMP!Arg,
         VM!PushCell, VMP!PushCell, VM!Num, VMP!Num, VM!Fresh, VMP!Fresh,
         VM!Slot, VMP!Slot, VM!CellDup, VMP!CellDup, VM!Blk, VMP!Blk,
         VM!Entries, VMP!Entries, VM!PushFrame, VMP!PushFrame, VM!TopIsBlock,
         VMP!TopIsBlock, VM!Fail, VMP!Fail, VM!Free, VMP!Free, VM!OprFits,
         VMP!OprFits, VM!OprResult, VMP!OprResult, VM!OprPool, VMP!OprPool,
         VM!CutVars, VMP!CutVars, VM!Halt, VMP!Halt, VM!Owned, VMP!Owned,
         VM!NUM, VMP!NUM, VM!BLOCK, VMP!BLOCK, VM!Wild, VMP!Wild

(* Two instances of the machine, that of SorcerContext and that of the proofs, *)
(* say the same: here of the host's operations,                                *)
LEMMA SameHost == VM!Host <=> VMP!Host
  BY DEF VM!Host, VMP!Host, VM!HostPush, VMP!HostPush, VM!HostPop, VMP!HostPop,
         VM!CtxFree, VMP!CtxFree, VM!PushCell, VMP!PushCell, VM!Num, VMP!Num,
         VM!Fresh, VMP!Fresh, VM!Freed, VMP!Freed, VM!Free, VMP!Free, VM!Owned,
         VMP!Owned, VM!NUM, VMP!NUM

(* of one of them and of a push alone, *)
LEMMA SameTake == \A n \in 1..Len(ds) : VM!HostPop(n) => VM!Host
  BY DEF VM!Host

LEMMA SamePush == \A a : VM!PushCell(Blk(a)) <=> VMP!PushCell(VMP!Blk(a))
  BY DEF VM!PushCell, VMP!PushCell, VM!Free, VMP!Free, VM!Owned, VMP!Owned,
         VM!NUM, VMP!NUM, Blk, VMP!Blk, VM!Blk, BLOCK, VMP!BLOCK, VM!BLOCK

(* of the start of a run, *)
LEMMA SameRun == \A a : VM!Run(a) <=> VMP!Run(a)
  BY DEF VM!Run, VMP!Run

(* of the owners of numbers, *)
LEMMA SameOwnership == VM!Ownership <=> VMP!Ownership
  BY DEF VM!Ownership, VMP!Ownership, VM!Owned, VMP!Owned, VM!SoleOwner,
         VMP!SoleOwner, VM!NUM, VMP!NUM

(* and of the frames. *)
LEMMA SameFrames ==
  (VM!ExactFrames <=> VMP!ExactFrames) /\ (VM!FrameAssertions <=> VMP!FrameAssertions)
  BY DEF VM!ExactFrames, VMP!ExactFrames, VM!FrameAssertions,
         VMP!FrameAssertions, VM!VarBase, VMP!VarBase, VM!Bound, VMP!Bound,
         VM!Base, VMP!Base, VM!Last, VMP!Last, VM!Cardinality, VMP!Cardinality,
         VM!BindersBefore, VMP!BindersBefore, VM!Straight, VMP!Straight

(* A read past the variables that are bound is what strayed records. *)
LEMMA RemainsStray == VMP!PushRemains => VM!ReadsUnbound
<1>1. VM!PushRemains => VM!ReadsUnbound
  BY DEF VM!PushRemains
<1>2. VM!PushRemains <=> VMP!PushRemains
  BY DEF VM!PushRemains, VMP!PushRemains, VM!ReadsUnbound, VMP!ReadsUnbound,
         VM!Executing, VMP!Executing, VM!Slot, VMP!Slot, VM!Arg, VMP!Arg, VM!Blk, VMP!Blk,
         VM!Entries, VMP!Entries,
         VM!Num, VMP!Num, VM!Fresh, VMP!Fresh, VM!PushCell, VMP!PushCell,
         VM!Jump, VMP!Jump, VM!ExecutingOneOf, VMP!ExecutingOneOf, VM!VarBase,
         VMP!VarBase, VM!BLOCK, VMP!BLOCK, VM!NUM, VMP!NUM, VM!Free, VMP!Free,
         VM!Owned, VMP!Owned, VM!Last, VMP!Last
<1> QED
  BY <1>1, <1>2

(* And of the same instructions, cells and images. *)
LEMMA SameWords ==
  /\ VMP!Instruction = Instruction /\ VMP!BLOCK = BLOCK
  /\ \A c, m : VMP!LinkageFrom(c, m) <=> LinkageFrom(c, m)
  /\ \A c, m : VMP!EntriesFrom(c, m) = EntriesFrom(c, m)
  BY DEF VMP!Instruction, Instruction, VMP!Opcodes, Opcodes, VMP!BLOCK, BLOCK,
         VMP!LinkageFrom, LinkageFrom, VMP!EntriesFrom, EntriesFrom,
         VMP!Entries, Entries

-------------------------------------------------------------------------------
(* The types of the table, whatever a host builds, tears or links. *)

(* One block of the table changes.                                           *)
LEMMA EmitTypes ==
  ASSUME blockTable \in Seq(BlockInfo), NEW b \in Blocks, NEW op \in Opcodes,
         NEW arg \in Nat
  PROVE  Emit(b, op, arg) \in Seq(BlockInfo) /\ Len(Emit(b, op, arg)) = Len(blockTable)
<1> DEFINE t == blockTable
           c == Append(t[b].code, Inst(op, arg))
           r == [t[b] EXCEPT !.code = c]
<1>1. b \in 1..Len(t)
  BY DEF Blocks
<1>2. t[b] \in BlockInfo
  BY <1>1, ElementOfSeq
<1>3. c \in Seq(Instruction)
  <2>1. t[b].code \in Seq(Instruction)
    BY <1>2 DEF BlockInfo
  <2> QED
    BY <2>1, Appended, Zenon
<1>4. Emit(b, op, arg) = [t EXCEPT ![b] = r]
  BY DEF Emit
<1> HIDE DEF c
<1>5. r \in BlockInfo
  BY <1>2, <1>3 DEF BlockInfo
<1> HIDE DEF r, t
<1>6. t \in Seq(BlockInfo)
  BY DEF t
<1>7. [t EXCEPT ![b] = r] \in Seq(BlockInfo) /\ Len([t EXCEPT ![b] = r]) = Len(t)
  BY <1>1, <1>5, <1>6, ExceptSeq
<1> QED
  BY <1>4, <1>7 DEF t

(* An entry that binds once more.                                            *)
LEMMA OneBinding ==
  ASSUME NEW x \in BlockInfo
  PROVE  [x EXCEPT !.varCount = x.varCount + 1] \in BlockInfo
  BY DEF BlockInfo

(* A binding also counts a variable, *)
LEMMA PopVarTypes ==
  ASSUME blockTable \in Seq(BlockInfo), NEW b \in Blocks, AddInstPopVar(b)
  PROVE  blockTable' \in Seq(BlockInfo)
<1> DEFINE u == Emit(b, "PopVar", blockTable[b].varCount)
           r == [u[b] EXCEPT !.varCount = u[b].varCount + 1]
<1>1. blockTable[b].varCount \in Nat
  <2>1. blockTable[b] \in BlockInfo
    BY ElementOfSeq DEF Blocks
  <2> QED
    BY <2>1 DEF BlockInfo
<1>2. u \in Seq(BlockInfo) /\ Len(u) = Len(blockTable)
  <2>1. "PopVar" \in Opcodes
    BY DEF Opcodes
  <2> QED
    BY <1>1, <2>1, EmitTypes
<1>3. blockTable' = [u EXCEPT ![b] = r]
  BY DEF AddInstPopVar
<1> HIDE DEF u
<1>4. b \in 1..Len(u)
  BY <1>2 DEF Blocks
<1>5. u[b] \in BlockInfo
  BY <1>2, <1>4, ElementOfSeq
<1>6. r \in BlockInfo
  BY <1>5, OneBinding
<1> HIDE DEF r
<1> QED
  BY <1>2, <1>3, <1>4, <1>6, ExceptSeq

(* a reference a callee, *)
LEMMA ReferenceTypes ==
  ASSUME blockTable \in Seq(BlockInfo), NEW b \in Blocks, NEW op \in References,
         NEW x \in Blocks, AddReference(b, op, x)
  PROVE  blockTable' \in Seq(BlockInfo)
<1> DEFINE u == Emit(b, op, x)
           r == [u[x] EXCEPT !.calleeCount = u[x].calleeCount + 1]
<1>1. op \in Opcodes /\ x \in Nat
  BY DEF References, Opcodes, Blocks
<1>2. u \in Seq(BlockInfo) /\ Len(u) = Len(blockTable)
  BY <1>1, EmitTypes
<1>3. blockTable' = [u EXCEPT ![x] = r]
  BY DEF AddReference
<1> HIDE DEF u
<1>4. x \in 1..Len(u)
  BY <1>2 DEF Blocks
<1>5. u[x] \in BlockInfo
  BY <1>2, <1>4, ElementOfSeq
<1>6. r \in BlockInfo
  BY <1>5, OneMore
<1> HIDE DEF r
<1> QED
  BY <1>2, <1>3, <1>4, <1>6, ExceptSeq

(* and an inlined block brings both its code and its variables. *)
LEMMA InlineTypes ==
  ASSUME blockTable \in Seq(BlockInfo), NEW b \in Blocks, NEW ib \in Blocks,
         AddInlineBlock(b, ib)
  PROVE  blockTable' \in Seq(BlockInfo)
<1> DEFINE t == blockTable
           n == t[b].varCount
           m == t[ib].varCount
           s == ShiftedCode(t[ib].code, n)
           c == t[b].code \o s
           r == WithCode(t[b], c, n + m)
<1>1. t \in Seq(BlockInfo) /\ b \in 1..Len(t) /\ ib \in 1..Len(t)
  BY DEF Blocks
<1>2. blockTable' = [t EXCEPT ![b] = r]
  BY <1>1 DEF AddInlineBlock, WithCode
<1> HIDE DEF t
<1>3. t[b] \in BlockInfo /\ t[ib] \in BlockInfo
  BY <1>1, ElementOfSeq
<1>4. /\ n \in Nat /\ m \in Nat
      /\ t[b].code \in Seq(Instruction) /\ t[ib].code \in Seq(Instruction)
  BY <1>3 DEF BlockInfo
<1>5. n + m \in Nat
  BY <1>4
<1> HIDE DEF n, m
<1>6. s \in Seq(Instruction)
  BY <1>4, Shifted
<1> HIDE DEF s
<1>7. c \in Seq(Instruction)
  BY <1>4, <1>6, Concatenated, Zenon
<1> HIDE DEF c
<1>8. r \in BlockInfo
  BY <1>3, <1>5, <1>7, Fields
<1> HIDE DEF r
<1>9. [t EXCEPT ![b] = r] \in Seq(BlockInfo)
  BY <1>1, <1>8, ExceptSeq
<1> QED
  BY <1>2, <1>9

(* A rollback keeps what it keeps. *)
LEMMA RollbackTypes ==
  ASSUME blockTable \in Seq(BlockInfo), NEW n \in 0..Len(blockTable), BlocksRollback(n)
  PROVE  blockTable' \in Seq(BlockInfo) /\ code' = code
<1>1. blockTable' = SubSeq(blockTable, 1, n) /\ code' = code
  BY DEF BlocksRollback
<1>2. n \in Nat /\ n <= Len(blockTable)
  OBVIOUS
<1> QED
  BY <1>1, <1>2, SubSeqProperties

(* So the builders keep the table a table and leave the code alone, *)
LEMMA BuildTypes ==
  ASSUME blockTable \in Seq(BlockInfo), Build
  PROVE  blockTable' \in Seq(BlockInfo) /\ code' = code
<1>1. CASE BlockNew
  <2> DEFINE x == [varCount |-> 0, code |-> << >>, calleeCount |-> 0, base |-> 1]
  <2>1. << >> \in Seq(Instruction)
    BY EmptySeq
  <2>2. x \in BlockInfo
    BY <2>1 DEF BlockInfo
  <2>3. blockTable' = Append(blockTable, x) /\ code' = code
    BY <1>1 DEF BlockNew, Outdate
  <2> HIDE DEF x
  <2> QED
    BY <2>2, <2>3, AppendProperties
<1>2. ASSUME NEW b \in Blocks,
             \/ AddInstPopNull(b) \/ AddInstApply(b)
             \/ \E l \in Literals : AddInstPushImm(b, l)
             \/ \E v \in Vars : AddInstPushVar(b, v)
             \/ \E o \in Oprs : AddInstOpr(b, o)
      PROVE  blockTable' \in Seq(BlockInfo) /\ code' = code
  <2>1. PICK op \in {"PopNull", "Apply", "PushImm", "PushVar", "Opr"}, arg \in Nat :
          AddInst(b, op, arg)
    BY <1>2, PayloadAssumption
       DEF AddInstPopNull, AddInstApply, AddInstPushImm, AddInstPushVar, AddInstOpr
  <2>2. op \in Opcodes
    BY DEF Opcodes
  <2>3. blockTable' = Emit(b, op, arg) /\ code' = code
    BY <2>1 DEF AddInst, Outdate
  <2> QED
    BY <2>2, <2>3, EmitTypes
<1>3. ASSUME NEW b \in Blocks, AddInstPopVar(b)
      PROVE  blockTable' \in Seq(BlockInfo) /\ code' = code
  <2>1. code' = code
    BY <1>3 DEF AddInstPopVar, Outdate
  <2> QED
    BY <1>3, <2>1, PopVarTypes
<1>4. ASSUME NEW b \in Blocks, NEW x \in Blocks, AddInstPushBlock(b, x) \/ AddInstCall(b, x)
      PROVE  blockTable' \in Seq(BlockInfo) /\ code' = code
  <2>1. PICK op \in References : AddReference(b, op, x)
    BY <1>4 DEF AddInstPushBlock, AddInstCall, References
  <2>2. code' = code
    BY <2>1 DEF AddReference, Outdate
  <2> QED
    BY <2>1, <2>2, ReferenceTypes
<1>5. ASSUME NEW b \in Blocks, NEW x \in Blocks, AddInlineBlock(b, x)
      PROVE  blockTable' \in Seq(BlockInfo) /\ code' = code
  <2>1. code' = code
    BY <1>5 DEF AddInlineBlock
  <2> QED
    BY <1>5, <2>1, InlineTypes
<1>6. ASSUME NEW n \in 0..(Len(blockTable) - 1), BlocksRollback(n)
      PROVE  blockTable' \in Seq(BlockInfo) /\ code' = code
  <2>1. n \in 0..Len(blockTable)
    OBVIOUS
  <2> QED
    BY <1>6, <2>1, RollbackTypes
<1> QED
  BY <1>1, <1>2, <1>3, <1>4, <1>5, <1>6 DEF Build

(* and a link, whatever it resolves, makes code of a table and code. *)
LEMMA LinkTypes ==
  ASSUME blockTable \in Seq(BlockInfo), code \in Seq(Instruction), NEW e, CodeUpdate(e)
  PROVE  blockTable' \in Seq(BlockInfo) /\ code' \in Seq(Instruction)
<1>1. CASE codeUpdated
  BY <1>1 DEF CodeUpdate, blockVars
<1>2. CASE ~ codeUpdated
  <2>1. /\ blockTable' = Rebased(code, blockTable, e)
        /\ code' = Linked(code, blockTable, e)
    BY <1>2 DEF CodeUpdate
  <2>2. Rebased(code, blockTable, e) \in Seq(BlockInfo)
    BY RebasedIs
  <2>3. LinkedIs(Linked(code, blockTable, e), blockTable, code, e)
    BY LinkedHolds
  <2>4. Linked(code, blockTable, e) \in Seq(Instruction)
    BY <2>3 DEF LinkedIs
  <2> QED
    BY <2>1, <2>2, <2>4
<1> QED
  BY <1>1, <1>2

-------------------------------------------------------------------------------
(* The invariant. *)

(* Every block of lk starts a block of the image of code c that starts at m. *)
AnchoredAt(t, c, lk, m) ==
  LinkageFrom(c, m) /\ \A b \in lk : t[b].base \in EntriesFrom(c, m)

(* The last image starts at imageStart and holds the linked blocks. *)
Anchored ==
  codeUpdated => AnchoredAt(blockTable, code, linked, imageStart)

(* A block value the host keeps is from an older image, or starts a block of *)
(* the last one.                                                             *)
KeptFits ==
  \A a \in kept : /\ a \in 1..Len(code)
                  /\ a >= imageStart => a \in EntriesFrom(code, imageStart)

(***************************************************************************)
(* What is true of a context whatever its host does: the table and the     *)
(* stacks are of their types, and every number has one owner.              *)
(***************************************************************************)
Always ==
  /\ blockTable \in Seq(BlockInfo)
  /\ imageStart \in Nat
  /\ kept \subseteq Nat
  /\ VMP!OwnInv

(***************************************************************************)
(* And until the host strays, the table and the image are as SorcerBlocks  *)
(* keeps them, a run is of code that is up to date, and the machine runs   *)
(* on the last image.                                                      *)
(***************************************************************************)
Tame ==
  /\ IInv
  /\ Anchored
  /\ KeptFits
  /\ mode = "running" => codeUpdated
  /\ VMP!Machine(imageStart)

ContextInv == Always /\ (~ strayed => Tame)

(* The invariant gives the two properties the runs check. *)
LEMMA ContextInvIsEnough ==
  ASSUME ContextInv
  PROVE  SafeUse /\ Ownership
<1>1. Ownership
  BY SameOwnership, MachineAssumptions, VMP!OwnInvIsEnough
     DEF ContextInv, Always, Ownership
<1>2. ASSUME ~ strayed
      PROVE  /\ mode = "running" => p \in imageStart..Len(code)
             /\ VM!ExactFrames /\ VM!FrameAssertions
  <2>1. VMP!Machine(imageStart)
    BY <1>2 DEF ContextInv, Tame
  <2>2. VMP!ExactFrames
    BY <2>1, MachineAssumptions, VMP!MachineExact
  <2>3. VMP!FrameAssertions
    BY <2>1 DEF VMP!Machine, VMP!FrameAssertions
  <2>4. mode = "running" => p \in imageStart..Len(code)
    BY <2>1 DEF VMP!Machine
  <2> QED
    BY <2>2, <2>3, <2>4, SameFrames
<1> QED
  BY <1>1, <1>2 DEF SafeUse

-------------------------------------------------------------------------------
(* The steps. *)

(* What none of the variables says anything about stays as it is. *)
LEMMA MachineUnchanged ==
  ASSUME NEW m, VMP!Machine(m), UNCHANGED machineVars, code' = code
  PROVE  VMP!Machine(m)'
  BY DEF VMP!Machine, VMP!TypeOK, machineVars

(* What leaves the machine and the image alone leaves the owners alone. *)
LEMMA OwnersUnchanged ==
  ASSUME VMP!OwnInv, UNCHANGED machineVars, code' = code
  PROVE  VMP!OwnInv'
  BY DEF VMP!OwnInv, machineVars

(* The start of the image can be taken for a constant while it does not move.*)
LEMMA MachineStays ==
  ASSUME NEW m, imageStart = m, imageStart' = m, VMP!Machine(m)'
  PROVE  VMP!Machine(imageStart)'
  BY DEF VMP!Machine

(* What the host keeps fits as long as the image stays. *)
LEMMA KeptStays ==
  ASSUME KeptFits, code' = code, imageStart' = imageStart, kept' \subseteq kept
  PROVE  KeptFits'
  BY DEF KeptFits

(* A builder leaves what is linked where it is. *)
LEMMA BuildAnchored ==
  ASSUME IInv, Anchored, Build, imageStart' = imageStart
  PROVE  Anchored'
<1>1. CASE Outdate
  BY <1>1 DEF Outdate, Anchored
<1>2. ASSUME NEW b \in Blocks, NEW ib \in Blocks, AddInlineBlock(b, ib)
      PROVE  Anchored'
  <2>1. code' = code /\ codeUpdated' = codeUpdated /\ linked' = linked
    BY <1>2 DEF AddInlineBlock
  <2>2. \A x \in Blocks : blockTable'[x].base = blockTable[x].base
    BY <1>2, InlineChanges
  <2>3. codeUpdated => linked \subseteq Blocks
    BY DEF IInv, ImageInv
  <2> QED
    BY <2>1, <2>2, <2>3 DEF Anchored, AnchoredAt
<1>3. ASSUME NEW n \in 0..(Len(blockTable) - 1), BlocksRollback(n)
      PROVE  Anchored'
  <2>1. /\ code' = code /\ codeUpdated' = codeUpdated
        /\ linked' = linked \intersect (1..n)
        /\ blockTable' = SubSeq(blockTable, 1, n)
    BY <1>3 DEF BlocksRollback
  <2>2. blockTable \in Seq(BlockInfo) /\ n \in Nat /\ n <= Len(blockTable)
    BY DEF IInv, TableInv
  <2>3. \A x \in 1..n : blockTable'[x] = blockTable[x]
    BY <2>1, <2>2, SubSeqProperties
  <2> QED
    BY <2>1, <2>3 DEF Anchored, AnchoredAt
<1> QED
  BY <1>1, <1>2, <1>3, BuildIs

(* A link starts an image of its own. *)
LEMMA LinkAnchors ==
  ASSUME IInv, NEW e \in Blocks, CodeUpdate(e), ~ codeUpdated, NEW m, m = Len(code) + 1
  PROVE  /\ AnchoredAt(blockTable', code', linked', m) /\ e \in linked' /\ codeUpdated'
         /\ Len(code') \in Nat /\ Len(code') >= Len(code)
<1> DEFINE t == blockTable
           u == Rebased(code, t, e)
           c == Linked(code, t, e)
<1>1. /\ blockTable' = u /\ code' = c /\ codeUpdated' = TRUE
      /\ linked' = Emitted(t, e)
  BY DEF CodeUpdate
<1>2. /\ t \in Seq(BlockInfo) /\ SourceTable(t) /\ e \in 1..Len(t)
      /\ code \in Seq(Instruction) /\ EndsInRet(code)
  BY TableInvIsEnough DEF IInv, TableInv, ImageInv, Blocks
<1> HIDE DEF t
<1>3. LinkageFrom(c, m)
  BY <1>2, LinkSound
<1>4. LinkedIs(c, t, code, e)
  BY <1>2, LinkedHolds
<1> HIDE DEF c
<1>5. \A b \in Emitted(t, e) : u[b].base \in EntriesFrom(c, m)
  BY <1>2, <1>4, BlockStarts
<1>6. e \in Emitted(t, e)
  BY <1>2 DEF Emitted
<1>7. Len(c) \in Nat /\ Len(c) >= Len(code)
  <2>1. m \in 1..Len(c) /\ c \in Seq(Instruction)
    BY <1>3, <1>4 DEF LinkageFrom, Entries, LinkedIs
  <2>2. Len(c) \in Nat /\ Len(code) \in Nat
    BY <1>2, <2>1
  <2> QED
    BY <2>1, <2>2
<1> QED
  BY <1>1, <1>3, <1>5, <1>6, <1>7 DEF AnchoredAt

(* Building blocks keeps the invariant of the context. *)
LEMMA BuildBlocksKeeps ==
  ASSUME ContextInv, BuildBlocks
  PROVE  ContextInv'
<1>1. /\ UNCHANGED machineVars /\ mode = "idle" /\ kept' = kept
      /\ imageStart' = imageStart
      /\ BuildBlock \/ \E n \in Blocks : TearNames(n)
  BY DEF BuildBlocks
<1>2. blockTable' \in Seq(BlockInfo) /\ code' = code
  <2>1. CASE BuildBlock
    BY <2>1, BuildTypes DEF BuildBlock, ContextInv, Always
  <2>2. ASSUME NEW n \in Blocks, TearNames(n)
        PROVE  blockTable' \in Seq(BlockInfo) /\ code' = code
    <3>1. n \in 0..Len(blockTable)
      BY DEF Blocks
    <3> QED
      BY <2>2, <3>1, RollbackTypes DEF TearNames, ContextInv, Always
  <2> QED
    BY <1>1, <2>1, <2>2
<1>3. VMP!OwnInv'
  BY <1>1, <1>2, OwnersUnchanged DEF ContextInv, Always
<1>4. Always'
  BY <1>1, <1>2, <1>3 DEF ContextInv, Always
<1>5. ASSUME ~ strayed'
      PROVE  Tame'
  <2>1. Build /\ ~ strayed
    BY <1>1, <1>5 DEF BuildBlock, TearNames
  <2>2. Tame
    BY <2>1 DEF ContextInv
  <2>3. IInv' /\ Anchored' /\ KeptFits'
    BY <1>1, <1>2, <2>1, <2>2, BuildKeeps, BuildAnchored, KeptStays DEF Tame
  <2>4. PICK m : m = imageStart
    OBVIOUS
  <2>5. VMP!Machine(m)
    BY <2>2, <2>4 DEF Tame
  <2>6. VMP!Machine(imageStart)'
    BY <1>1, <1>2, <2>4, <2>5, MachineUnchanged, MachineStays
  <2> QED
    BY <1>1, <2>3, <2>6 DEF Tame, machineVars
<1> QED
  BY <1>4, <1>5 DEF ContextInv

(* An instruction of a run that has not strayed keeps to the last image. *)
LEMMA ExecuteKeeps ==
  ASSUME ContextInv, Execute
  PROVE  ContextInv'
<1>1. /\ VMP!Step /\ UNCHANGED blockVars /\ imageStart' = imageStart /\ kept' = kept
      /\ strayed' = (strayed \/ VM!ReadsUnbound)
  BY SameStep DEF Execute
<1>2. /\ code' = code /\ codeUpdated' = codeUpdated /\ blockTable' = blockTable
      /\ linked' = linked
  BY <1>1 DEF blockVars
<1>3. mode = "running"
  BY <1>1, MachineAssumptions, VMP!StepRuns
<1>4. VMP!OwnInv'
  BY <1>1, <1>2, MachineAssumptions, VMP!StepOwnInv DEF ContextInv, Always
<1>5. Always'
  BY <1>1, <1>2, <1>4 DEF ContextInv, Always
<1>6. ASSUME ~ strayed'
      PROVE  Tame'
  <2>1. PICK m \in Nat : m = imageStart
    BY DEF ContextInv, Always
  <2>2. ~ strayed /\ ~ VMP!PushRemains
    BY <1>1, <1>6, RemainsStray
  <2>3. Tame
    BY <2>2 DEF ContextInv
  <2>4. VMP!Machine(m) /\ VMP!LinkageFrom(code, m) /\ codeUpdated
    BY <1>3, <2>1, <2>3, SameWords DEF Tame, Anchored, AnchoredAt
  <2>5. VMP!Machine(m)'
    BY <1>1, <1>2, <2>2, <2>4, MachineAssumptions, VMP!StepMachine
  <2>6. VMP!Machine(imageStart)'
    BY <1>1, <2>1, <2>5, MachineStays
  <2>7. IInv' /\ KeptFits'
    BY <1>1, <1>2, <2>3, StutterKeeps, KeptStays DEF Tame
  <2>8. Anchored'
    BY <1>1, <1>2, <2>3 DEF Tame, Anchored
  <2> QED
    BY <1>2, <2>4, <2>6, <2>7, <2>8 DEF Tame
<1> QED
  BY <1>5, <1>6 DEF ContextInv

(* A host that has not strayed never sees control land in old code: control  *)
(* is at no unknown address.                                                 *)
LEMMA LandKeeps ==
  ASSUME ContextInv, Land
  PROVE  ContextInv'
<1>1. /\ mode = "running" /\ p = Wild
      /\ UNCHANGED << blockVars, ds, rs, vt, pool, kept, strayed, imageStart >>
  BY DEF Land
<1>2. code' = code /\ blockTable' = blockTable
  BY <1>1 DEF blockVars
<1>3. Always'
  BY <1>1, <1>2 DEF ContextInv, Always, VMP!OwnInv
<1>4. strayed
  <2> SUFFICES ASSUME ~ strayed PROVE FALSE
    OBVIOUS
  <2>1. /\ VMP!Machine(imageStart) /\ LinkageFrom(code, imageStart)
    BY <1>1 DEF ContextInv, Tame, Anchored, AnchoredAt
  <2>2. imageStart \in 1..Len(code)
    BY <2>1 DEF LinkageFrom, Entries
  <2>3. p \in imageStart..Len(code)
    BY <1>1, <2>1 DEF VMP!Machine
  <2> QED
    BY <1>1, <2>2, <2>3 DEF Wild
<1> QED
  BY <1>1, <1>3, <1>4 DEF ContextInv

(* The block values of a stack of the image are entries of it. *)
LEMMA ValuesFit ==
  ASSUME NEW c, NEW m, NEW s \in Seq(VMP!Cell), VMP!BlockCells(c, m, s),
         NEW n \in 1..Len(s)
  PROVE  BlockValues(SubSeq(s, Len(s) - n + 1, Len(s))) \subseteq EntriesFrom(c, m)
<1> DEFINE k == Len(s) - n + 1
           q == SubSeq(s, k, Len(s))
<1>1. Len(s) \in Nat /\ k \in 1..Len(s)
  OBVIOUS
<1> HIDE DEF k
<1>2. DOMAIN q = 1..(Len(s) - k + 1) /\ \A i \in DOMAIN q : q[i] = s[k + i - 1]
  BY <1>1
<1> HIDE DEF q
<1>3. \A i \in DOMAIN q : q[i].type = BLOCK => q[i].val \in EntriesFrom(c, m)
  <2>1. \A i \in DOMAIN q : k + i - 1 \in 1..Len(s)
    BY <1>1, <1>2
  <2>2. \A i \in 1..Len(s) : s[i].type = BLOCK => s[i].val \in EntriesFrom(c, m)
    BY SameWords DEF VMP!BlockCells
  <2> QED
    BY <1>2, <2>1, <2>2
<1>4. BlockValues(q) \subseteq EntriesFrom(c, m)
  BY <1>3 DEF BlockValues
<1> QED
  BY <1>4 DEF q, k

(* Whatever they are, they are numbers. *)
LEMMA ValuesNat ==
  ASSUME NEW s \in Seq(VMP!Cell), NEW n \in 1..Len(s)
  PROVE  BlockValues(SubSeq(s, Len(s) - n + 1, Len(s))) \subseteq Nat
<1> DEFINE k == Len(s) - n + 1
           q == SubSeq(s, k, Len(s))
<1>1. Len(s) \in Nat /\ k \in 1..Len(s)
  OBVIOUS
<1> HIDE DEF k
<1>2. DOMAIN q = 1..(Len(s) - k + 1) /\ \A i \in DOMAIN q : q[i] = s[k + i - 1]
  BY <1>1
<1> HIDE DEF q
<1>3. \A i \in DOMAIN q : q[i] \in VMP!Cell
  <2>1. \A i \in DOMAIN q : k + i - 1 \in 1..Len(s)
    BY <1>1, <1>2
  <2>2. \A i \in 1..Len(s) : s[i] \in VMP!Cell
    BY ElementOfSeq
  <2> QED
    BY <1>2, <2>1, <2>2
<1>4. BlockValues(q) \subseteq Nat
  BY <1>3 DEF BlockValues, VMP!Cell
<1> QED
  BY <1>4 DEF q, k

(* The host's own operations keep the invariant if what they add to what it  *)
(* keeps does.                                                               *)
LEMMA HostKeeps ==
  ASSUME ContextInv, VMP!Host, UNCHANGED << blockVars, imageStart, strayed >>,
         kept' \subseteq Nat, ~ strayed => KeptFits'
  PROVE  ContextInv'
<1>1. /\ code' = code /\ codeUpdated' = codeUpdated /\ blockTable' = blockTable
      /\ linked' = linked
  BY DEF blockVars
<1>2. mode' # "running"
  BY DEF VMP!Host, VMP!HostPush, VMP!HostPop, VMP!CtxFree
<1>3. VMP!OwnInv'
  BY <1>1, MachineAssumptions, VMP!HostOwnInv DEF ContextInv, Always
<1>4. Always'
  BY <1>1, <1>3 DEF ContextInv, Always
<1>5. ASSUME ~ strayed'
      PROVE  Tame'
  <2>1. PICK m : m = imageStart
    OBVIOUS
  <2>2. Tame /\ VMP!Machine(m)
    BY <1>5, <2>1 DEF ContextInv, Tame
  <2>3. VMP!Machine(m)'
    BY <1>1, <2>2, MachineAssumptions, VMP!HostMachine
  <2>4. VMP!Machine(imageStart)'
    BY <2>1, <2>3, MachineStays
  <2>5. IInv'
    BY <2>2, StutterKeeps DEF Tame
  <2>6. Anchored'
    BY <1>1, <2>2 DEF Tame, Anchored
  <2> QED
    BY <1>2, <1>5, <2>4, <2>5, <2>6 DEF Tame
<1> QED
  BY <1>4, <1>5 DEF ContextInv

(* What the host pops and keeps are blocks of the image. *)
LEMMA TakeCellsKeeps ==
  ASSUME ContextInv, NEW n \in 1..Len(ds), TakeCells(n),
         UNCHANGED << blockVars, imageStart >>
  PROVE  ContextInv'
<1> DEFINE new == BlockValues(SubSeq(ds, Len(ds) - n + 1, Len(ds)))
<1>1. /\ VM!HostPop(n) /\ strayed' = strayed
      /\ kept' \subseteq kept \union new
  BY DEF TakeCells
<1>2. VMP!Host
  BY <1>1, SameTake, SameHost
<1>3. ds \in Seq(VMP!Cell) /\ kept \subseteq Nat /\ imageStart \in Nat
  BY DEF ContextInv, Always, VMP!OwnInv
<1>4. new \subseteq Nat
  BY <1>3, ValuesNat
<1>5. ASSUME ~ strayed
      PROVE  KeptFits'
  <2>1. KeptFits /\ VMP!BlockCells(code, imageStart, ds)
    BY <1>5 DEF ContextInv, Tame, VMP!Machine
  <2>2. PICK m \in Nat : m = imageStart
    BY <1>3
  <2>3. new \subseteq EntriesFrom(code, m)
    <3>1. VMP!BlockCells(code, m, ds)
      BY <2>1, <2>2
    <3> QED
      BY <1>3, <3>1, ValuesFit
  <2>4. EntriesFrom(code, m) \subseteq 1..Len(code)
    BY DEF EntriesFrom, Entries
  <2>5. code' = code /\ imageStart' = m
    BY <2>2 DEF blockVars
  <2> HIDE DEF new
  <2> QED
    BY <1>1, <2>1, <2>2, <2>3, <2>4, <2>5 DEF KeptFits
<1> QED
  BY <1>1, <1>2, <1>3, <1>4, <1>5, HostKeeps

(* A block value that is pushed back starts a block of the last image, or    *)
(* the host strays.                                                          *)
LEMMA GiveBackKeeps ==
  ASSUME ContextInv, NEW a \in kept, GiveBack(a), UNCHANGED << blockVars, imageStart >>
  PROVE  ContextInv'
<1>1. /\ mode = "idle" /\ VMP!PushCell(VMP!Blk(a))
      /\ strayed' = (strayed \/ a < imageStart)
      /\ rs' = rs /\ vt' = vt /\ p' = p /\ mode' = mode /\ err' = err /\ kept' = kept
  BY SamePush DEF GiveBack
<1>2. /\ code' = code /\ codeUpdated' = codeUpdated /\ blockTable' = blockTable
      /\ linked' = linked /\ imageStart' = imageStart
  BY DEF blockVars
<1>3. VMP!OwnInv /\ a \in Nat /\ imageStart \in Nat
  BY DEF ContextInv, Always
<1>4. VMP!Blk(a) \in VMP!Cell /\ VMP!Owned(<< VMP!Blk(a) >>) = {}
  BY <1>3, MachineAssumptions, VMP!PushedCells
<1>5. VMP!OwnInv'
  <2>1. VMP!Owned(<< VMP!Blk(a) >>) \subseteq {VMP!Fresh}
    BY <1>4
  <2> QED
    BY <1>1, <1>2, <1>3, <1>4, <2>1, MachineAssumptions, VMP!PushKeeps
<1>6. Always'
  BY <1>1, <1>2, <1>5 DEF ContextInv, Always
<1>7. ASSUME ~ strayed'
      PROVE  Tame'
  <2>1. ~ strayed /\ a >= imageStart
    <3>1. ~ strayed /\ ~ (a < imageStart)
      BY <1>1, <1>7, Zenon
    <3> QED
      BY <1>3, <3>1
  <2>2. Tame
    BY <2>1 DEF ContextInv
  <2>3. PICK m \in Nat : m = imageStart
    BY <1>3
  <2>4. VMP!Machine(m) /\ a \in VMP!EntriesFrom(code, m)
    BY <2>1, <2>2, <2>3, SameWords DEF Tame, KeptFits
  <2>5. /\ ds' \in Seq(VMP!Cell) /\ VMP!BlockCells(code, m, ds')
        /\ pool' \subseteq Handles
    <3>1. VMP!Blk(a) \in {VMP!Blk(b) : b \in VMP!EntriesFrom(code, m)}
      BY <2>4
    <3> QED
      BY <1>1, <2>4, <3>1, MachineAssumptions, VMP!Pushed
  <2>6. VMP!Machine(m)'
    <3>1. VMP!TypeOK'
      BY <1>1, <1>2, <2>4, <2>5 DEF VMP!Machine, VMP!TypeOK
    <3> QED
      BY <1>1, <1>2, <2>4, <2>5, <3>1 DEF VMP!Machine
  <2>7. VMP!Machine(imageStart)'
    BY <1>2, <2>3, <2>6, MachineStays
  <2>8. IInv' /\ KeptFits'
    BY <1>1, <1>2, <2>2, StutterKeeps, KeptStays DEF Tame
  <2>9. Anchored'
    BY <1>2, <2>2 DEF Tame, Anchored
  <2> QED
    BY <1>1, <2>7, <2>8, <2>9 DEF Tame
<1> QED
  BY <1>6, <1>7 DEF ContextInv

(* So every use of the data stack keeps the invariant. *)
LEMMA UseStackKeeps ==
  ASSUME ContextInv, UseStack
  PROVE  ContextInv'
<1>1. UNCHANGED << blockVars, imageStart >>
  BY DEF UseStack
<1>2. kept \subseteq Nat
  BY DEF ContextInv, Always
<1>3. ASSUME VM!HostPush \/ VM!CtxFree, kept' \subseteq kept, strayed' = strayed
      PROVE  ContextInv'
  <2>1. VMP!Host
    BY <1>3, SameHost DEF VM!Host
  <2>2. ~ strayed => KeptFits'
    BY <1>1, <1>3, KeptStays DEF ContextInv, Tame, blockVars
  <2> QED
    BY <1>1, <1>2, <1>3, <2>1, <2>2, HostKeeps
<1> QED
  BY <1>1, <1>3, TakeCellsKeeps, GiveBackKeeps DEF UseStack

(* A run of code that is up to date starts in the image it has. *)
LEMMA RunAgain ==
  ASSUME ContextInv, NEW e \in Blocks, Run(e), codeUpdated
  PROVE  ContextInv'
<1>1. /\ UNCHANGED blockVars /\ imageStart' = imageStart /\ kept' = kept
      /\ strayed' = (strayed \/ Unsafe(e))
  BY DEF Run, CodeUpdate
<1> DEFINE a == blockTable[e].base
<1>2. /\ VMP!Run(a) /\ code' = code /\ codeUpdated' = codeUpdated
      /\ blockTable' = blockTable /\ linked' = linked
  BY <1>1, SameRun DEF Run, blockVars
<1> HIDE DEF a
<1>3. VMP!OwnInv'
  <2>1. code' \in Seq(VMP!Instruction)
    BY <1>2 DEF ContextInv, Always, VMP!OwnInv
  <2> QED
    BY <1>2, <2>1, MachineAssumptions, VMP!RunOwnInv DEF ContextInv, Always
<1>4. Always'
  BY <1>1, <1>2, <1>3 DEF ContextInv, Always
<1>5. ASSUME ~ strayed'
      PROVE  Tame'
  <2>1. PICK m : m = imageStart
    OBVIOUS
  <2>2. ~ strayed /\ e \in linked /\ rs = << >>
    BY <1>1, <1>5 DEF Unsafe
  <2>3. Tame
    BY <2>2 DEF ContextInv
  <2>4. VMP!Machine(m) /\ a \in VMP!EntriesFrom(code, m)
    BY <2>1, <2>2, <2>3, SameWords DEF Tame, Anchored, AnchoredAt, a
  <2>5. VMP!Machine(m)'
    BY <1>2, <2>2, <2>4, MachineAssumptions, VMP!RunMachine
  <2>6. VMP!Machine(imageStart)'
    BY <1>1, <2>1, <2>5, MachineStays
  <2>7. IInv' /\ KeptFits'
    BY <1>1, <1>2, <2>3, StutterKeeps, KeptStays DEF Tame
  <2>8. Anchored'
    BY <1>1, <1>2, <2>3 DEF Tame, Anchored
  <2> QED
    BY <1>2, <2>6, <2>7, <2>8 DEF Tame
<1> QED
  BY <1>4, <1>5 DEF ContextInv

(* A run of code that is not links first.  No block value of an older image  *)
(* is on the data stack, and what the host keeps of one it does not push     *)
(* back, so whatever lies before the new image is never reached.             *)
LEMMA RunLinking ==
  ASSUME ContextInv, NEW e \in Blocks, Run(e), ~ codeUpdated
  PROVE  ContextInv'
<1>1. /\ CodeUpdate(e) /\ imageStart' = Len(code) + 1 /\ kept' = kept
      /\ strayed' = (strayed \/ Unsafe(e))
  BY DEF Run
<1>2. PICK a : a = blockTable'[e].base
  OBVIOUS
<1>3. VMP!Run(a)
  BY <1>2, SameRun DEF Run
<1>4. code \in Seq(Instruction)
  BY SameWords DEF ContextInv, Always, VMP!OwnInv
<1>5. PICK m \in Nat : m = Len(code) + 1
  BY <1>4
<1>6. blockTable' \in Seq(BlockInfo) /\ code' \in Seq(VMP!Instruction)
  BY <1>1, <1>4, LinkTypes, SameWords DEF ContextInv, Always
<1>7. VMP!OwnInv'
  BY <1>3, <1>6, MachineAssumptions, VMP!RunOwnInv DEF ContextInv, Always
<1>8. Always'
  BY <1>1, <1>5, <1>6, <1>7 DEF ContextInv, Always
<1>9. ASSUME ~ strayed'
      PROVE  Tame'
  <2>1. ~ strayed /\ BlockValues(ds) = {} /\ rs = << >>
    BY <1>1, <1>9 DEF Unsafe
  <2>2. Tame
    BY <2>1 DEF ContextInv
  <2>3. /\ IInv' /\ codeUpdated' /\ e \in linked'
        /\ AnchoredAt(blockTable', code', linked', m)
        /\ Len(code') \in Nat /\ Len(code') >= Len(code)
    BY <1>1, <1>5, <2>2, LinkAnchors, CodeUpdateKeeps DEF Tame
  <2>4. imageStart' = m
    BY <1>1, <1>5
  <2>5. PICK k : k = imageStart
    OBVIOUS
  <2>6. VMP!Machine(k)
    BY <2>2, <2>5 DEF Tame
  <2>7. VMP!BlockCells(code', m, ds)
    <3>1. ds \in Seq(VMP!Cell)
      BY DEF ContextInv, Always, VMP!OwnInv
    <3>2. \A i \in DOMAIN ds : ds[i].type = BLOCK => ds[i].val \in BlockValues(ds)
      BY DEF BlockValues
    <3>3. \A i \in 1..Len(ds) : ds[i].type # BLOCK
      BY <2>1, <3>1, <3>2
    <3> QED
      BY <3>3, SameWords DEF VMP!BlockCells
  <2>8. a \in VMP!EntriesFrom(code', m)
    BY <1>2, <2>3, SameWords DEF AnchoredAt
  <2>9. VMP!Machine(m)'
    BY <1>3, <1>6, <2>1, <2>6, <2>7, <2>8, MachineAssumptions, VMP!StartMachine
  <2>10. VMP!Machine(imageStart)'
    BY <2>4, <2>9 DEF VMP!Machine
  <2>11. KeptFits'
    <3>1. \A x \in kept : x \in 1..Len(code)
      BY <2>2 DEF Tame, KeptFits
    <3>2. \A x \in kept : x \in 1..Len(code') /\ ~ (x >= m)
      BY <1>4, <1>5, <2>3, <3>1
    <3> QED
      BY <1>1, <2>4, <3>2 DEF KeptFits
  <2>12. Anchored'
    BY <2>3, <2>4 DEF Anchored
  <2> QED
    BY <2>3, <2>10, <2>11, <2>12 DEF Tame
<1> QED
  BY <1>8, <1>9 DEF ContextInv

(* So does every step of the context. *)
LEMMA ContextNextKeeps ==
  ASSUME ContextInv, [ContextNext]_contextVars
  PROVE  ContextInv'
<1>1. CASE UNCHANGED contextVars
  <2>1. /\ UNCHANGED blockVars /\ UNCHANGED machineVars /\ code' = code
        /\ blockTable' = blockTable /\ codeUpdated' = codeUpdated /\ linked' = linked
        /\ strayed' = strayed /\ imageStart' = imageStart /\ kept' = kept
        /\ mode' = mode
    BY <1>1 DEF contextVars, blockVars, machineVars
  <2>2. VMP!OwnInv'
    BY <2>1, OwnersUnchanged DEF ContextInv, Always
  <2>3. Always'
    BY <2>1, <2>2 DEF ContextInv, Always
  <2>4. ASSUME ~ strayed'
        PROVE  Tame'
    <3>1. PICK m : m = imageStart
      OBVIOUS
    <3>2. Tame /\ VMP!Machine(m)
      BY <2>1, <2>4, <3>1 DEF ContextInv, Tame
    <3>3. VMP!Machine(imageStart)'
      BY <2>1, <3>1, <3>2, MachineUnchanged, MachineStays
    <3>4. IInv' /\ KeptFits'
      BY <2>1, <3>2, StutterKeeps, KeptStays DEF Tame
    <3>5. Anchored'
      BY <2>1, <3>2 DEF Tame, Anchored
    <3> QED
      BY <2>1, <3>2, <3>3, <3>4, <3>5 DEF Tame
  <2> QED
    BY <2>3, <2>4 DEF ContextInv
<1> QED
  BY <1>1, BuildBlocksKeeps, RunAgain, RunLinking, ExecuteKeeps, LandKeeps, UseStackKeeps
     DEF ContextNext

(* A new context satisfies it. *)
LEMMA ContextInitInv == ContextInit => ContextInv
<1> SUFFICES ASSUME ContextInit PROVE ContextInv
  OBVIOUS
<1>1. IInv
  BY InitIInv DEF ContextInit
<1>2. /\ code = << >> /\ codeUpdated = FALSE /\ imageStart = 1 /\ kept = {}
      /\ ds = << >> /\ rs = << >> /\ vt = << >> /\ pool = {}
      /\ p = Wild /\ mode = "idle" /\ err = "NONE"
  BY DEF ContextInit, Init
<1>3. /\ << >> \in Seq(VMP!Instruction) /\ << >> \in Seq(VMP!Cell)
      /\ << >> \in Seq(VMP!Frame) /\ Len(<< >>) = 0
  BY EmptySeq
<1>4. VMP!OwnInv
  <2>1. VMP!Owned(<< >>) = {} /\ VMP!SoleOwner(<< >>)
    BY DEF VMP!Owned, VMP!SoleOwner
  <2> QED
    BY <1>2, <1>3, <2>1 DEF VMP!OwnInv, VMP!Owners
<1>5. VMP!Machine(1)
  <2>1. VMP!TypeOK
    BY <1>2, <1>3 DEF VMP!TypeOK, Wild
  <2> QED
    BY <1>2, <1>3, <2>1 DEF VMP!Machine, VMP!CallSites, VMP!BlockCells
<1>6. VMP!Machine(imageStart)
  BY <1>2, <1>5
<1>7. blockTable \in Seq(BlockInfo)
  BY <1>1 DEF IInv, TableInv
<1>8. Always /\ KeptFits /\ Anchored
  BY <1>2, <1>4, <1>7 DEF Always, KeptFits, Anchored
<1> QED
  BY <1>1, <1>2, <1>6, <1>8 DEF ContextInv, Tame

-------------------------------------------------------------------------------
(* The theorems. *)

(***************************************************************************)
(* The invariant of a context holds whatever a host does in whatever order *)
(* it builds, rolls back, links, runs, links again after a run, pops,      *)
(* pushes back and frees (src/sorcer.c, SR_ctxNew to SR_run): types and    *)
(* owners always; until it strays, also the builders' and the machine's    *)
(* invariants with what ties them (Tame).                                  *)
(***************************************************************************)
THEOREM ContextInvariance == ContextSpec => []ContextInv
  BY ContextInitInv, ContextNextKeeps, PTL DEF ContextSpec

(***************************************************************************)
(* The numbers of a context have one owner each: whatever is built, linked *)
(* and run in whatever order, and however its interface is misused, none   *)
(* leaks and none is freed twice.                                          *)
(***************************************************************************)
THEOREM ContextOwnership == ContextSpec => []Ownership
  BY ContextInvariance, ContextInvIsEnough, PTL

(***************************************************************************)
(* A host that does none of the six things SorcerContext names - run a     *)
(* block the up-to-date code does not hold, link over a block value on the *)
(* stack, push back one from before a link, roll back a block that stays   *)
(* named, run on leftover frames, use an unbound variable - runs every     *)
(* block in the image that the last link made: SR_run never leaves it, its *)
(* variable table is partitioned exactly and its assertions on frames      *)
(* hold, however many links, rollbacks and failed runs came before.        *)
(***************************************************************************)
THEOREM ContextSafeUse == ContextSpec => []SafeUse
  BY ContextInvariance, ContextInvIsEnough, PTL
===============================================================================
