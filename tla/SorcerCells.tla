------------------------------ MODULE SorcerCells ------------------------------
(***************************************************************************)
(* Cells and the resources they own: SR_cellNew, SR_cellFree, SR_cellDup   *)
(* (sorcer.c) for the two types of the repository, "block" (no constructor,*)
(* destructor or copier) and "num" (sorcer_arith.c), and the operators     *)
(* SR_arith registers.  A number is a handle into the pool of its type;    *)
(* its value is abstracted away, the life of its handle is not.            *)
(***************************************************************************)
EXTENDS SorcerCode

(* The handles a sequence of cells owns. *)
Owned(s) == { s[i].val : i \in { j \in DOMAIN s : s[j].type = NUM } }

(* SR_cellFree on every cell of s: only numbers have a destructor. *)
Freed(pool, s) == pool \ Owned(s)

(* Faulty: the copier is forgotten and the copy shares the original's handle. *)
SharedDup(c, h) == c

(* SR_cellDup: a number is copied into a new handle h, a block by value. *)
CellDup(c, h) == IF c.type = NUM THEN Num(h) ELSE c

(***************************************************************************)
(* The operators of SR_arith, by SR_ArithOpr: neg reuses its argument's    *)
(* number in place, the binary ones allocate the result and then free both *)
(* arguments.  Each takes and returns numbers only, and one that works in  *)
(* place has no second argument to lose.                                   *)
(***************************************************************************)
Opr == { o \in [numIns : {1, 2}, inPlace : BOOLEAN] : o.inPlace => o.numIns = 1 }

Unary  == [numIns |-> 1, inPlace |-> TRUE]
Binary == [numIns |-> 2, inPlace |-> FALSE]

ArithOprs == << Unary, Binary, Binary, Binary, Binary >>

(* The result of operator o on the cells args, h being a free handle. *)
OprResult(o, args, h) == IF o.inPlace THEN args[1] ELSE Num(h)

(* The pool once operator o has run. *)
OprPool(o, args, h, pool) ==
  IF o.inPlace THEN pool ELSE Freed(pool \union {h}, args)
===============================================================================
