---------------------------- MODULE SorcerVMMeaning ----------------------------
(***************************************************************************)
(* SorcerVM implements SorcerSemantics: what an image, an address, the     *)
(* return stack and the variable table stand for.                          *)
(***************************************************************************)
EXTENDS SorcerVM

(* The ends of the blocks before address a of the image c. *)
EndsBefore(c, a) == { j \in 1..(a - 1) : c[j].op = "Ret" }

(* The block that address a lies in, counted from the start of the image. *)
BlockAt(c, a) == Cardinality(EndsBefore(c, a)) + 1

(* Where in its block address a lies: from as many addresses control runs    *)
(* straight down to it.                                                      *)
PlaceAt(c, a) == Cardinality({ k \in 1..a : Straight(c, k, a) })

(* The instruction that was linked to inst. *)
SourceInst(c, inst) ==
  CASE inst.op \in {"Call", "TailCall"} -> Inst("Call", BlockAt(c, inst.arg))
    [] inst.op = "TailApply"            -> Inst("Apply", inst.arg)
    [] inst.op = "PushBlock"            -> Inst("PushBlock", BlockAt(c, inst.arg))
    [] OTHER                            -> inst

(* The addresses of the block that starts at e, without its Ret. *)
Body(c, e) == { k \in e..Len(c) : Straight(c, e, k + 1) }

(* The instructions of that block. *)
SourceBlock(c, e) == [i \in 1..Cardinality(Body(c, e)) |-> SourceInst(c, c[e + i - 1])]

EntryOf(c, b) == CHOOSE e \in Entries(c) : BlockAt(c, e) = b

SourceBlocks(c) == [b \in 1..BlockAt(c, Len(c)) |-> SourceBlock(c, EntryOf(c, b))]

(* A block value names its block, a number is its handle. *)
Meaning(c, x) == IF x.type = BLOCK THEN Blk(BlockAt(c, x.val)) ELSE x

Meanings(c, s) == [i \in 1..Len(s) |-> Meaning(c, s[i])]

(* An activation at address a whose variables are those of v after from. *)
ActivationAt(c, v, a, from, to) ==
  [block |-> BlockAt(c, a), at |-> PlaceAt(c, a),
   vars |-> Meanings(c, SubSeq(v, from + 1, to))]

(* The activation that runs, and those whose frames are on the return stack. *)
Running == ActivationAt(code, vt, p, VarBase, Len(vt))

Suspended ==
  [k \in 1..Len(rs) |->
     ActivationAt(code, vt, rs[k].address, Base(k - 1), rs[k].varBase)]

Status ==
  CASE mode = "idle" /\ err # "NONE" -> "failed"
    [] mode \in Faults               -> "stopped"
    [] OTHER                         -> mode

InRun == mode \in {"running"} \union Faults

Nobody == [block |-> 0, at |-> 1, vars |-> << >>]

Semantics == INSTANCE SorcerSemantics WITH
               blocks    <- SourceBlocks(code),
               stack     <- Meanings(code, ds),
               current   <- IF InRun THEN Running ELSE Nobody,
               suspended <- IF InRun THEN Suspended ELSE << >>,
               status    <- Status

(***************************************************************************)
(* The machine means what its blocks say: each activation finds its own    *)
(* variables with the values it bound, whatever it called in between, goes *)
(* on where it left off, and no step of the machine is anything else than  *)
(* one of the language - in particular no assertion on a frame fails and   *)
(* no fetch leaves the image.                                              *)
(***************************************************************************)
ImplementsSemantics == Semantics!Spec
===============================================================================
