------------------------------ MODULE SorcerLink ------------------------------
(***************************************************************************)
(* SR_codeUpdate (sorcer.c) as operators: how the block table is laid out  *)
(* into the code image a run executes.                                     *)
(*                                                                         *)
(* A block table is a sequence of SR_BlockInfo records                     *)
(*   [varCount, code, calleeCount, base].                                  *)
(***************************************************************************)
EXTENDS SorcerCode, SequencesExt

BlockInfo ==
  [varCount : Nat, code : Seq(Instruction), calleeCount : Nat, base : Nat]

(* Tail call elimination rewrites a call that is a block's last instruction. *)
TailForm(inst) ==
  CASE inst.op = "Call"  -> [inst EXCEPT !.op = "TailCall"]
    [] inst.op = "Apply" -> [inst EXCEPT !.op = "TailApply"]
    [] OTHER             -> inst

(* Faulty: the tail position is taken to be the instruction before the last. *)
ImageOfEarlyTail(c) ==
  Append([i \in 1..Len(c) |-> IF i + 1 = Len(c) THEN TailForm(c[i]) ELSE c[i]],
         Inst("Ret", 0))

(* The instructions one block contributes to the image, before resolution. *)
ImageOf(c) ==
  Append([i \in 1..Len(c) |-> IF i = Len(c) THEN TailForm(c[i]) ELSE c[i]],
         Inst("Ret", 0))

(* Faulty: the entry block is emitted only when some block names it. *)
EmittedIfCalled(bt, e) == { b \in 1..Len(bt) : bt[b].calleeCount > 0 }

(* The blocks a link for entry block e emits: e and every referenced block. *)
Emitted(bt, e) == { b \in 1..Len(bt) : bt[b].calleeCount > 0 \/ b = e }

(* The image of the first n blocks, in block order, skipping the others. *)
Layout(bt, e, n) ==
  FlattenSeq([b \in 1..n |->
                IF b \in Emitted(bt, e) THEN ImageOf(bt[b].code) ELSE << >>])

(* The table with the base address of every emitted block, when the code    *)
(* already in ctx->code is old: a link appends, it never clears.            *)
Rebased(old, bt, e) ==
  [b \in 1..Len(bt) |->
     IF b \in Emitted(bt, e)
     THEN [bt[b] EXCEPT !.base = Len(old) + Len(Layout(bt, e, b - 1)) + 1]
     ELSE bt[b]]

(***************************************************************************)
(* The second loop replaces block ids by base addresses in the WHOLE code  *)
(* vector.  Instructions of an earlier link already hold an address, which *)
(* is read as a block id once more; past the end of the table the lookup   *)
(* is out of range and the address it yields is unknown.                   *)
(***************************************************************************)
Resolved(bt, c) ==
  [i \in 1..Len(c) |->
     IF c[i].op \in {"PushBlock", "Call", "TailCall"}
     THEN [c[i] EXCEPT !.arg =
             IF c[i].arg \in 1..Len(bt) THEN bt[c[i].arg].base ELSE Wild]
     ELSE c[i]]

Linked(old, bt, e) ==
  Resolved(Rebased(old, bt, e), old \o Layout(bt, e, Len(bt)))
===============================================================================
