------------------------------ MODULE SorcerCode ------------------------------
(***************************************************************************)
(* The instruction set of the sorcer virtual machine and the vocabulary    *)
(* the other modules use to talk about a code image: an image is the       *)
(* sequence of instructions that SR_codeUpdate appends to ctx->code.       *)
(*                                                                         *)
(* Sequences count from 1, so address a here is address a - 1 in C, and a  *)
(* block, an operator or a literal with index i here has index i - 1 in C. *)
(* Variable slots and type ids keep their values.                          *)
(***************************************************************************)
EXTENDS Naturals, FiniteSets, Sequences

(***************************************************************************)
(* SR_OP_Nop is absent: no function of the library ever emits it.          *)
(***************************************************************************)
Opcodes == { "PopNull", "PopVar", "PushImm", "PushVar", "PushBlock", "Call",
             "Apply", "Opr", "Ret", "TailCall", "TailApply" }

(***************************************************************************)
(* The union SR_Inst.arg: its members share their storage, so one number   *)
(* stands for all of them (literal, variable slot, block, operator,        *)
(* address).  That is what lets a second link misread an address as a      *)
(* block id.                                                               *)
(***************************************************************************)
Instruction == [op : Opcodes, arg : Nat]

Inst(op, arg) == [op |-> op, arg |-> arg]

(* The address no instruction has: what an out-of-range lookup yields. *)
Wild == 0

(* Type ids: SR_Type_Block is 0, and SR_arith registers "num" next. *)
BLOCK == 0
NUM == 1

(***************************************************************************)
(* A cell is a type id and a value: the entry address of a block, or the   *)
(* handle of a number allocated from the type's pool.                      *)
(***************************************************************************)
Cell == [type : {BLOCK, NUM}, val : Nat]

Blk(a) == [type |-> BLOCK, val |-> a]
Num(h) == [type |-> NUM, val |-> h]

-------------------------------------------------------------------------------
(* Vocabulary over an image c. *)

(* Addresses where a block's code starts: each block's code ends in Ret. *)
Entries(c) == { a \in 1..Len(c) : a = 1 \/ c[a - 1].op = "Ret" }

(* Control can run from address j straight down to address a. *)
Straight(c, j, a) == \A k \in j..(a - 1) : c[k].op # "Ret"

(* The variables a block has bound when control is at its address a. *)
BindersBefore(c, a) ==
  { j \in 1..(a - 1) : c[j].op = "PopVar" /\ Straight(c, j, a) }

Bound(c, a) == Cardinality(BindersBefore(c, a))

EntriesFrom(c, s) == { a \in Entries(c) : a >= s }

(***************************************************************************)
(* What a link that appends from address s on leaves behind when every     *)
(* block it reaches was emitted: the image ends in Ret and every jump      *)
(* target in it is the entry of one of its blocks.                         *)
(***************************************************************************)
LinkageFrom(c, s) ==
  /\ s \in Entries(c)
  /\ c[Len(c)].op = "Ret"
  /\ \A a \in s..Len(c) :
       c[a].op \in {"PushBlock", "Call", "TailCall"} => c[a].arg \in EntriesFrom(c, s)

(* The same of code that is one image. *)
Linkage(c) == LinkageFrom(c, 1)

(***************************************************************************)
(* What tail call elimination leaves behind: a call whose block has        *)
(* nothing left to do is a tail call, and no other is.                     *)
(***************************************************************************)
TailCallsEliminated(c) ==
  \A a \in 1..(Len(c) - 1) :
    /\ c[a].op \in {"Call", "Apply"} => c[a + 1].op # "Ret"
    /\ c[a].op \in {"TailCall", "TailApply"} => c[a + 1].op = "Ret"

(***************************************************************************)
(* A program that only uses variables of the block it uses them in, and    *)
(* after their binding: no block captures a variable of an outer block.    *)
(***************************************************************************)
SelfContained(c) ==
  \A a \in 1..Len(c) : c[a].op = "PushVar" => c[a].arg < Bound(c, a)

(***************************************************************************)
(* A program whose calls go forward only and that applies no block value:  *)
(* nothing in it can loop.                                                 *)
(***************************************************************************)
LoopFree(c) ==
  \A a \in 1..Len(c) :
    /\ c[a].op \notin {"Apply", "TailApply"}
    /\ c[a].op \in {"Call", "TailCall"} => c[a].arg > a
===============================================================================
