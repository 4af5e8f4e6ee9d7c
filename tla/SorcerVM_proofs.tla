--------------------------- MODULE SorcerVM_proofs ---------------------------
(***************************************************************************)
(* Proofs about SorcerVM, for every set of images, every operator table    *)
(* and every bound: the variable table is partitioned exactly among the    *)
(* activations (ExactFrames), so the assertions of SR_run on return frames *)
(* never fail, and control never leaves the image; and every live number   *)
(* has exactly one owner (Ownership).                                      *)
(***************************************************************************)
EXTENDS SorcerVM, SequenceTheorems, FiniteSetTheorems, TLAPS

-------------------------------------------------------------------------------
(* Facts about sequences. *)

(* Cutting a sequence at n keeps its first n elements. *)
LEMMA Cut ==
  ASSUME NEW S, NEW s \in Seq(S), NEW n \in Nat, n <= Len(s)
  PROVE  /\ SubSeq(s, 1, n) \in Seq(S)
         /\ Len(SubSeq(s, 1, n)) = n
         /\ \A i \in 1..n : SubSeq(s, 1, n)[i] = s[i]
<1>1. \A i \in 1..n : s[i] \in S
  BY ElementOfSeq
<1>2. /\ SubSeq(s, 1, n) \in Seq(S)
      /\ Len(SubSeq(s, 1, n)) = IF 1 <= n THEN n - 1 + 1 ELSE 0
      /\ \A i \in 1..(n - 1 + 1) : SubSeq(s, 1, n)[i] = s[1 + i - 1]
  BY <1>1, SubSeqProperties
<1> QED
  BY <1>2

(* Front drops the last element, which Last returns. *)
LEMMA FrontLast ==
  ASSUME NEW S, NEW s \in Seq(S), s # << >>
  PROVE  /\ Len(s) \in Nat \ {0}
         /\ Front(s) \in Seq(S)
         /\ Len(Front(s)) = Len(s) - 1
         /\ \A i \in 1..(Len(s) - 1) : Front(s)[i] = s[i]
         /\ Last(s) = s[Len(s)]
         /\ Last(s) \in S
<1>1. Len(s) \in Nat \ {0}
  BY EmptySeq
<1>2. Len(s) - 1 \in Nat /\ Len(s) - 1 <= Len(s)
  BY <1>1
<1>3. Front(s) = SubSeq(s, 1, Len(s) - 1)
  BY DEF Front
<1>4. /\ Front(s) \in Seq(S)
      /\ Len(Front(s)) = Len(s) - 1
      /\ \A i \in 1..(Len(s) - 1) : Front(s)[i] = s[i]
  <2> DEFINE n == Len(s) - 1
  <2>1. n \in Nat /\ n <= Len(s)
    BY <1>2
  <2> HIDE DEF n
  <2>2. /\ SubSeq(s, 1, n) \in Seq(S)
        /\ Len(SubSeq(s, 1, n)) = n
        /\ \A i \in 1..n : SubSeq(s, 1, n)[i] = s[i]
    BY <2>1, Cut
  <2> QED
    BY <1>3, <2>2 DEF n
<1>5. Last(s) = s[Len(s)]
  BY DEF Last
<1>6. s[Len(s)] \in S
  BY <1>1, ElementOfSeq
<1> QED
  BY <1>1, <1>4, <1>5, <1>6

-------------------------------------------------------------------------------
(* Facts about an image. *)

(* A block has no variable bound where it starts. *)
LEMMA NothingBoundAtEntry ==
  ASSUME NEW c \in Seq(Instruction), NEW a \in Entries(c)
  PROVE  Bound(c, a) = 0
<1>1. BindersBefore(c, a) = {}
  BY DEF BindersBefore, Straight, Entries
<1> QED
  BY <1>1, FS_EmptySet DEF Bound

(* The number of bound variables is finite. *)
LEMMA BoundNat ==
  ASSUME NEW c, NEW a \in Nat
  PROVE  IsFiniteSet(BindersBefore(c, a)) /\ Bound(c, a) \in Nat
<1>1. IsFiniteSet(1..(a - 1))
  BY FS_Interval
<1>2. IsFiniteSet(BindersBefore(c, a))
  BY <1>1, FS_Subset DEF BindersBefore
<1> QED
  BY <1>2, FS_CardinalityType DEF Bound

(* Control that passes an instruction other than Ret binds one variable if   *)
(* the instruction is PopVar, and none otherwise.                            *)
LEMMA BoundNext ==
  ASSUME NEW c \in Seq(Instruction), NEW a \in 1..Len(c), c[a].op # "Ret"
  PROVE  Bound(c, a + 1) = Bound(c, a) + IF c[a].op = "PopVar" THEN 1 ELSE 0
<1>1. a \in Nat /\ a + 1 - 1 = a
  OBVIOUS
<1>2. \A j \in 1..(a - 1) : Straight(c, j, a + 1) <=> Straight(c, j, a)
  BY DEF Straight
<1>3. Straight(c, a, a + 1)
  BY DEF Straight
<1>4. CASE c[a].op = "PopVar"
  <2>1. BindersBefore(c, a + 1) = BindersBefore(c, a) \union {a}
    BY <1>2, <1>3, <1>4 DEF BindersBefore
  <2>2. a \notin BindersBefore(c, a)
    BY DEF BindersBefore
  <2> QED
    BY <1>1, <1>4, <2>1, <2>2, BoundNat, FS_AddElement DEF Bound
<1>5. CASE c[a].op # "PopVar"
  <2>1. BindersBefore(c, a + 1) = BindersBefore(c, a)
    BY <1>2, <1>5 DEF BindersBefore
  <2> QED
    BY <1>1, <1>5, <2>1, BoundNat DEF Bound
<1> QED
  BY <1>4, <1>5

-------------------------------------------------------------------------------
(* The invariant, in parts that speak of one image, one variable table and   *)
(* one return stack, so that each way to move control is a lemma of its own. *)

BaseOf(r, k) == IF k = 0 THEN 0 ELSE r[k].varBase

(* The variable table v is partitioned by the frames r and the block running *)
(* at address a.                                                             *)
Exact(c, v, r, a) ==
  /\ Len(v) = BaseOf(r, Len(r)) + Bound(c, a)
  /\ \A k \in 1..Len(r) :
       r[k].varBase = BaseOf(r, k - 1) + Bound(c, r[k].address)

(* Every frame resumes just after a call, in the image that starts at m. *)
CallSites(c, m, r) ==
  \A k \in 1..Len(r) :
    /\ r[k].address \in (m + 1)..Len(c)
    /\ c[r[k].address - 1].op \in {"Call", "Apply"}

(* Every block value is the entry of a block of that image. *)
BlockCells(c, m, s) ==
  \A i \in 1..Len(s) : s[i].type = BLOCK => s[i].val \in EntriesFrom(c, m)

(***************************************************************************)
(* The machine on the image that starts at m.  A context that has linked   *)
(* several times has older images before it; with one image, m is 1.       *)
(***************************************************************************)
Machine(m) ==
  /\ TypeOK
  /\ CallSites(code, m, rs)
  /\ BlockCells(code, m, ds)
  /\ BlockCells(code, m, vt)
  /\ mode = "running" => p \in m..Len(code) /\ Exact(code, vt, rs, p)
  /\ mode = "idle" => vt = << >> /\ (err = "NONE" => rs = << >>)
  /\ mode # "assertFrame"

IInv == code \in Images /\ Machine(1)

(* Where the running block's variables start, as SR_run computes it. *)
LEMMA BaseIsLast ==
  ASSUME NEW r \in Seq(Frame)
  PROVE  /\ BaseOf(r, Len(r)) = IF r = << >> THEN 0 ELSE Last(r).varBase
         /\ BaseOf(r, Len(r)) \in Nat
<1>1. CASE r = << >>
  BY <1>1 DEF BaseOf
<1>2. CASE r # << >>
  <2>1. Len(r) \in Nat \ {0} /\ Last(r) = r[Len(r)] /\ Last(r) \in Frame
    BY <1>2, FrontLast
  <2> QED
    BY <1>2, <2>1 DEF BaseOf, Frame
<1> QED
  BY <1>1, <1>2

(* Falling through an instruction keeps the partition: a PopVar adds the     *)
(* variable it binds.                                                        *)
LEMMA ExactNext ==
  ASSUME NEW c \in Seq(Instruction), NEW v \in Seq(Cell), NEW r \in Seq(Frame),
         NEW a \in 1..Len(c), c[a].op # "Ret", Exact(c, v, r, a),
         NEW w \in Seq(Cell),
         Len(w) = Len(v) + IF c[a].op = "PopVar" THEN 1 ELSE 0
  PROVE  Exact(c, w, r, a + 1)
<1>1. Bound(c, a + 1) = Bound(c, a) + IF c[a].op = "PopVar" THEN 1 ELSE 0
  BY BoundNext
<1>2. Bound(c, a) \in Nat /\ BaseOf(r, Len(r)) \in Nat
  BY BoundNat, BaseIsLast
<1> QED
  BY <1>1, <1>2 DEF Exact

(* A call suspends the running block where it will resume and starts another *)
(* with no variable of its own.                                              *)
LEMMA ExactCall ==
  ASSUME NEW c \in Seq(Instruction), NEW v \in Seq(Cell), NEW r \in Seq(Frame),
         NEW a \in 1..Len(c), c[a].op \in {"Call", "Apply"}, Exact(c, v, r, a),
         NEW e \in Entries(c)
  PROVE  Exact(c, v, Append(r, [address |-> a + 1, varBase |-> Len(v)]), e)
<1> DEFINE f == [address |-> a + 1, varBase |-> Len(v)]
           q == Append(r, f)
<1>1. f \in Frame
  BY DEF Frame
<1>2. /\ q \in Seq(Frame)
      /\ Len(q) = Len(r) + 1
      /\ \A k \in 1..Len(r) : q[k] = r[k]
      /\ q[Len(r) + 1] = f
  BY <1>1, AppendProperties
<1>3. Bound(c, a + 1) = Bound(c, a)
  <2>1. c[a].op # "Ret" /\ c[a].op # "PopVar"
    OBVIOUS
  <2>2. Bound(c, a) \in Nat
    BY BoundNat
  <2> QED
    BY <2>1, <2>2, BoundNext
<1>4. Bound(c, e) = 0
  BY NothingBoundAtEntry
<1>5. \A k \in 0..Len(r) : BaseOf(q, k) = BaseOf(r, k)
  BY <1>2 DEF BaseOf
<1>6. Len(v) = BaseOf(q, Len(q)) + Bound(c, e)
  BY <1>2, <1>4 DEF BaseOf
<1>7. ASSUME NEW k \in 1..Len(q)
      PROVE  q[k].varBase = BaseOf(q, k - 1) + Bound(c, q[k].address)
  <2>1. CASE k \in 1..Len(r)
    <3>1. r[k].varBase = BaseOf(r, k - 1) + Bound(c, r[k].address)
      BY <2>1 DEF Exact
    <3>2. q[k] = r[k] /\ BaseOf(q, k - 1) = BaseOf(r, k - 1)
      BY <1>2, <1>5, <2>1
    <3> QED
      BY <3>1, <3>2
  <2>2. CASE k = Len(r) + 1
    <3>1. Len(v) = BaseOf(r, Len(r)) + Bound(c, a)
      BY DEF Exact
    <3>2. BaseOf(q, k - 1) = BaseOf(r, Len(r))
      BY <1>5, <2>2
    <3>3. q[k] = f
      BY <1>2, <2>2
    <3> QED
      BY <1>3, <3>1, <3>2, <3>3
  <2> QED
    BY <1>2, <2>1, <2>2
<1> QED
  BY <1>6, <1>7 DEF Exact

(* Ret drops the variables of the block that ends and resumes its caller     *)
(* with exactly the variables it had.                                        *)
LEMMA ExactRet ==
  ASSUME NEW c \in Seq(Instruction), NEW v \in Seq(Cell), NEW r \in Seq(Frame),
         NEW a \in Nat, Exact(c, v, r, a), r # << >>
  PROVE  /\ Last(r).varBase <= Len(v)
         /\ Exact(c, SubSeq(v, 1, Last(r).varBase), Front(r), Last(r).address)
<1> DEFINE n == Len(r)
           b == Last(r).varBase
<1>1. /\ n \in Nat \ {0} /\ Last(r) = r[n] /\ Last(r) \in Frame
      /\ Front(r) \in Seq(Frame) /\ Len(Front(r)) = n - 1
      /\ \A i \in 1..(n - 1) : Front(r)[i] = r[i]
  BY FrontLast
<1>2. b \in Nat /\ Last(r).address \in Nat
  BY <1>1 DEF Frame
<1>3. b <= Len(v)
  <2>1. Len(v) = BaseOf(r, n) + Bound(c, a)
    BY DEF Exact
  <2>2. BaseOf(r, n) = b
    BY <1>1 DEF BaseOf
  <2> QED
    BY <1>2, <2>1, <2>2, BoundNat
<1>4. Len(SubSeq(v, 1, b)) = b
  BY <1>2, <1>3, Cut
<1>5. \A k \in 0..(n - 1) : BaseOf(Front(r), k) = BaseOf(r, k)
  BY <1>1 DEF BaseOf
<1>6. b = BaseOf(Front(r), n - 1) + Bound(c, Last(r).address)
  <2>1. r[n].varBase = BaseOf(r, n - 1) + Bound(c, r[n].address)
    BY <1>1 DEF Exact
  <2> QED
    BY <1>1, <1>5, <2>1
<1>7. ASSUME NEW k \in 1..(n - 1)
      PROVE  Front(r)[k].varBase
               = BaseOf(Front(r), k - 1) + Bound(c, Front(r)[k].address)
  <2>1. k \in 1..n /\ k - 1 \in 0..(n - 1)
    BY <1>1
  <2>2. r[k].varBase = BaseOf(r, k - 1) + Bound(c, r[k].address)
    BY <2>1 DEF Exact
  <2>3. Front(r)[k] = r[k] /\ BaseOf(Front(r), k - 1) = BaseOf(r, k - 1)
    BY <1>1, <1>5, <2>1
  <2> QED
    BY <2>2, <2>3
<1> QED
  BY <1>1, <1>3, <1>4, <1>6, <1>7 DEF Exact

(* A tail call drops the variables of the block it replaces. *)
LEMMA ExactTail ==
  ASSUME NEW c \in Seq(Instruction), NEW v \in Seq(Cell), NEW r \in Seq(Frame),
         NEW a \in Nat, Exact(c, v, r, a), NEW e \in Entries(c)
  PROVE  /\ BaseOf(r, Len(r)) <= Len(v)
         /\ Exact(c, SubSeq(v, 1, BaseOf(r, Len(r))), r, e)
<1>1. BaseOf(r, Len(r)) \in Nat /\ Bound(c, a) \in Nat
  BY BaseIsLast, BoundNat
<1>2. BaseOf(r, Len(r)) <= Len(v)
  BY <1>1 DEF Exact
<1>3. Len(SubSeq(v, 1, BaseOf(r, Len(r)))) = BaseOf(r, Len(r))
  BY <1>1, <1>2, Cut
<1>4. Bound(c, e) = 0
  BY NothingBoundAtEntry
<1> QED
  BY <1>1, <1>2, <1>3, <1>4 DEF Exact

(* A new cell on a stack, and a stack cut short, keep block values good. *)
LEMMA BlockCellsAppend ==
  ASSUME NEW c, NEW m, NEW s \in Seq(Cell), NEW x \in Cell, BlockCells(c, m, s),
         x.type = BLOCK => x.val \in EntriesFrom(c, m)
  PROVE  Append(s, x) \in Seq(Cell) /\ BlockCells(c, m, Append(s, x))
  BY AppendProperties DEF BlockCells

(* What is left of a stack still holds blocks of the image only, *)
LEMMA BlockCellsCut ==
  ASSUME NEW c, NEW m, NEW s \in Seq(Cell), NEW n \in Nat, n <= Len(s),
         BlockCells(c, m, s)
  PROVE  SubSeq(s, 1, n) \in Seq(Cell) /\ BlockCells(c, m, SubSeq(s, 1, n))
  BY Cut DEF BlockCells

(* and what is popped is one of them. *)
LEMMA BlockCellsFront ==
  ASSUME NEW c, NEW m, NEW s \in Seq(Cell), s # << >>, BlockCells(c, m, s)
  PROVE  /\ Front(s) \in Seq(Cell) /\ BlockCells(c, m, Front(s))
         /\ Last(s) \in Cell
         /\ Last(s).type = BLOCK => Last(s).val \in EntriesFrom(c, m) /\ Last(s).val \in Entries(c)
<1>1. /\ Len(s) \in Nat \ {0}
      /\ Front(s) \in Seq(Cell)
      /\ Len(Front(s)) = Len(s) - 1
      /\ \A i \in 1..(Len(s) - 1) : Front(s)[i] = s[i]
      /\ Last(s) = s[Len(s)]
      /\ Last(s) \in Cell
  BY FrontLast
<1> QED
  BY <1>1 DEF BlockCells, EntriesFrom

-------------------------------------------------------------------------------
(* What the invariant says of the instruction being executed. *)

(* It is in the image, and so is what follows it and what it names. *)
LEMMA CurrentFrom ==
  ASSUME NEW m \in Nat, LinkageFrom(code, m), Machine(m), mode = "running"
  PROVE  /\ p \in m..Len(code) /\ code \in Seq(Instruction) /\ Len(code) \in Nat
         /\ m \in 1..Len(code) /\ p \in 1..Len(code)
         /\ Exact(code, vt, rs, p)
         /\ Arg \in Nat
         /\ code[p].op \in {"PushBlock", "Call", "TailCall"} => Arg \in EntriesFrom(code, m)
         /\ code[p].op # "Ret" => p + 1 \in m..Len(code)
         /\ EntriesFrom(code, m) \subseteq m..Len(code)
         /\ EntriesFrom(code, m) \subseteq Entries(code)
         /\ VarBase = BaseOf(rs, Len(rs)) /\ VarBase \in Nat
         /\ VarBase <= Len(vt)
<1>1. code \in Seq(Instruction) /\ Len(code) \in Nat
  BY DEF Machine, TypeOK
<1>2. m \in 1..Len(code) /\ code[Len(code)].op = "Ret"
  BY DEF LinkageFrom, Entries
<1>3. p \in m..Len(code) /\ p \in 1..Len(code) /\ Exact(code, vt, rs, p)
  BY <1>1, <1>2 DEF Machine
<1>4. code[p] \in Instruction
  BY <1>1, <1>3, ElementOfSeq
<1>5. Arg \in Nat
  BY <1>4 DEF Arg, Instruction
<1>6. code[p].op \in {"PushBlock", "Call", "TailCall"} => Arg \in EntriesFrom(code, m)
  BY <1>3 DEF LinkageFrom, Arg
<1>7. code[p].op # "Ret" => p + 1 \in m..Len(code)
  BY <1>1, <1>2, <1>3
<1>8. /\ EntriesFrom(code, m) \subseteq m..Len(code)
      /\ EntriesFrom(code, m) \subseteq Entries(code)
  BY <1>1 DEF EntriesFrom, Entries
<1>9. VarBase = BaseOf(rs, Len(rs)) /\ VarBase \in Nat
  BY BaseIsLast DEF Machine, TypeOK, VarBase
<1>10. VarBase <= Len(vt)
  BY <1>3, <1>9, BoundNat DEF Exact, Machine, TypeOK
<1> QED
  BY <1>1, <1>2, <1>3, <1>5, <1>6, <1>7, <1>8, <1>9, <1>10

(* With one image. *)
LEMMA Current ==
  ASSUME IInv, mode = "running"
  PROVE  /\ p \in 1..Len(code) /\ code \in Seq(Instruction) /\ Len(code) \in Nat
         /\ Exact(code, vt, rs, p)
         /\ Arg \in Nat
         /\ code[p].op \in {"PushBlock", "Call", "TailCall"} => Arg \in Entries(code)
         /\ code[p].op # "Ret" => p + 1 \in 1..Len(code)
         /\ Entries(code) \subseteq 1..Len(code)
         /\ VarBase = BaseOf(rs, Len(rs)) /\ VarBase \in Nat
         /\ VarBase <= Len(vt)
<1>1. LinkageFrom(code, 1) /\ Machine(1) /\ 1 \in Nat
  BY ImagesAssumption DEF IInv, Linkage
<1>2. Entries(code) \subseteq 1..Len(code)
  BY DEF Entries
<1> QED
  BY <1>1, <1>2, CurrentFrom

(* The handle a constructor returns is one of the pool's. *)
LEMMA FreshHandle ==
  ASSUME Free # {}
  PROVE  /\ Fresh \in Handles /\ Fresh \notin pool
         /\ Num(Fresh) \in Cell
         /\ Num(Fresh).type # BLOCK
<1>1. Fresh \in Handles /\ Fresh \notin pool
  BY DEF Free, Fresh
<1> QED
  BY <1>1, HandlesAssumption DEF Num, Cell, NUM, BLOCK

(* Pushing a fresh number or a block keeps the data stack and the pool good. *)
LEMMA Pushed ==
  ASSUME NEW m, Machine(m), NEW c, PushCell(c),
         c = Num(Fresh) \/ c \in {Blk(a) : a \in EntriesFrom(code, m)}
  PROVE  ds' \in Seq(Cell) /\ BlockCells(code, m, ds') /\ pool' \subseteq Handles
<1>1. Fresh \in Handles /\ Num(Fresh) \in Cell /\ Num(Fresh).type # BLOCK
  BY FreshHandle DEF PushCell
<1>2. c \in Cell /\ (c.type = BLOCK => c.val \in EntriesFrom(code, m))
  BY <1>1 DEF Blk, Cell, BLOCK, EntriesFrom, Entries
<1>3. c.type = NUM => c.val \in Handles
  BY <1>1 DEF Blk, Num, BLOCK, NUM
<1>4. Owned(<< c >>) \subseteq Handles
  BY <1>3 DEF Owned
<1>5. ds \in Seq(Cell) /\ BlockCells(code, m, ds) /\ pool \subseteq Handles
  BY DEF Machine, TypeOK
<1>6. ds' = Append(ds, c) /\ pool' = pool \union Owned(<< c >>)
  BY DEF PushCell
<1> QED
  BY <1>2, <1>4, <1>5, <1>6, BlockCellsAppend

(* Cutting the variable table keeps it and the pool good. *)
LEMMA VarsCut ==
  ASSUME NEW m, Machine(m),
         NEW n \in Nat, n <= Len(vt), CutVars(n)
  PROVE  /\ vt' \in Seq(Cell) /\ BlockCells(code, m, vt') /\ Len(vt') = n
         /\ pool' \subseteq Handles
<1>1. vt \in Seq(Cell) /\ BlockCells(code, m, vt) /\ pool \subseteq Handles
  BY DEF Machine, TypeOK
<1> QED
  BY <1>1, BlockCellsCut, Cut DEF CutVars, Freed
-------------------------------------------------------------------------------
(* The ways a step moves control. *)

(* An instruction that falls through to the next one. *)
LEMMA FallsThrough ==
  ASSUME NEW m \in Nat, LinkageFrom(code, m), Machine(m),
         mode = "running", code[p].op # "Ret",
         Jump(p + 1), rs' = rs, code' = code,
         ds' \in Seq(Cell), BlockCells(code, m, ds'),
         pool' \subseteq Handles,
         \/ code[p].op # "PopVar" /\ vt' = vt
         \/ /\ code[p].op = "PopVar"
            /\ vt' \in Seq(Cell) /\ BlockCells(code, m, vt') /\ Len(vt') = Len(vt) + 1
  PROVE  Machine(m)'
<1>1. /\ p \in 1..Len(code) /\ code \in Seq(Instruction) /\ Exact(code, vt, rs, p)
      /\ p + 1 \in 1..Len(code)
  BY CurrentFrom
<1>2. /\ rs \in Seq(Frame) /\ vt \in Seq(Cell) /\ Len(vt) \in Nat
      /\ BlockCells(code, m, vt)
  BY DEF Machine, TypeOK
<1>3. /\ vt' \in Seq(Cell) /\ BlockCells(code, m, vt')
      /\ Len(vt') = Len(vt) + IF code[p].op = "PopVar" THEN 1 ELSE 0
  BY <1>2
<1>4. Exact(code, vt', rs, p + 1)
  BY <1>1, <1>2, <1>3, ExactNext
<1>5. TypeOK'
  BY <1>1, <1>3 DEF Jump, Machine, TypeOK
<1> QED
  BY <1>1, <1>3, <1>4, <1>5 DEF Jump, Machine

(* A failed assertion other than those on frames, or a fatal read. *)
LEMMA Stops ==
  ASSUME NEW m, Machine(m),
         NEW f \in Faults \ {"assertFrame"}, Fault(f), code' = code
  PROVE  Machine(m)'
<1>1. f \notin {"running", "idle", "assertFrame"}
  BY DEF Faults
<1>2. TypeOK'
  BY DEF Fault, Machine, TypeOK
<1> QED
  BY <1>1, <1>2 DEF Fault, Machine

(* A run that ends, with an error or without, leaves no variable behind. *)
LEMMA Ends ==
  ASSUME NEW m, Machine(m),
         NEW e \in {"NONE", "OprArgs"}, CutVars(0), Halt(e),
         code' = code, ds' = ds, rs' \in Seq(Frame), CallSites(code, m, rs'),
         e = "NONE" => rs' = << >>
  PROVE  Machine(m)'
<1>1. /\ vt' \in Seq(Cell) /\ BlockCells(code, m, vt') /\ Len(vt') = 0
      /\ pool' \subseteq Handles
  <2>1. vt \in Seq(Cell)
    BY DEF Machine, TypeOK
  <2>2. 0 \in Nat /\ 0 <= Len(vt)
    BY <2>1
  <2> QED
    BY <2>2, VarsCut
<1>2. vt' = << >>
  BY <1>1, EmptySeq
<1>3. TypeOK'
  BY <1>1 DEF Halt, Wild, Machine, TypeOK
<1> QED
  BY <1>1, <1>2, <1>3 DEF Halt, Machine

(* The frame a call pushes resumes just after it. *)
LEMMA FramePushed ==
  ASSUME NEW m \in Nat, LinkageFrom(code, m), Machine(m),
         mode = "running", code[p].op \in {"Call", "Apply"}, PushFrame
  PROVE  rs' \in Seq(Frame) /\ CallSites(code, m, rs')
<1> DEFINE f == [address |-> p + 1, varBase |-> Len(vt)]
<1>1. p \in m..Len(code) /\ Len(code) \in Nat /\ p + 1 \in m..Len(code)
  BY CurrentFrom
<1>2. rs \in Seq(Frame) /\ vt \in Seq(Cell) /\ CallSites(code, m, rs)
  BY DEF Machine, TypeOK
<1>3. f \in Frame
  BY <1>1, <1>2 DEF Frame
<1>4. rs' = Append(rs, f)
  BY DEF PushFrame
<1>5. /\ rs' \in Seq(Frame)
      /\ Len(rs') = Len(rs) + 1
      /\ \A k \in 1..Len(rs) : rs'[k] = rs[k]
      /\ rs'[Len(rs) + 1] = f
  BY <1>2, <1>3, <1>4, AppendProperties
<1>6. f.address \in (m + 1)..Len(code) /\ code[f.address - 1].op \in {"Call", "Apply"}
  BY <1>1
<1> HIDE DEF f
<1>7. ASSUME NEW k \in 1..Len(rs')
      PROVE  /\ rs'[k].address \in (m + 1)..Len(code)
             /\ code[rs'[k].address - 1].op \in {"Call", "Apply"}
  <2>1. CASE k \in 1..Len(rs)
    BY <1>2, <1>5, <2>1 DEF CallSites
  <2>2. CASE k = Len(rs) + 1
    BY <1>5, <1>6, <2>2
  <2> QED
    BY <1>2, <1>5, <2>1, <2>2
<1> QED
  BY <1>5, <1>7 DEF CallSites

(* A call: a frame is pushed and control goes to the entry of a block. *)
LEMMA Calls ==
  ASSUME NEW m \in Nat, LinkageFrom(code, m), Machine(m),
         mode = "running", code[p].op \in {"Call", "Apply"},
         NEW e \in EntriesFrom(code, m), PushFrame, Jump(e), code' = code, vt' = vt,
         ds' \in Seq(Cell), BlockCells(code, m, ds'), pool' = pool
  PROVE  Machine(m)'
<1>1. /\ p \in 1..Len(code) /\ code \in Seq(Instruction) /\ Exact(code, vt, rs, p)
      /\ p + 1 \in m..Len(code) /\ e \in m..Len(code) /\ Len(code) \in Nat
      /\ e \in Entries(code)
  BY CurrentFrom
<1>2. rs \in Seq(Frame) /\ vt \in Seq(Cell)
  BY DEF Machine, TypeOK
<1>3. Exact(code, vt', rs', e)
  BY <1>1, <1>2, ExactCall DEF PushFrame
<1>4. rs' \in Seq(Frame) /\ CallSites(code, m, rs')
  BY FramePushed
<1>5. TypeOK'
  BY <1>1, <1>4 DEF Jump, Machine, TypeOK
<1> QED
  BY <1>1, <1>3, <1>4, <1>5 DEF Jump, Machine

(* A tail call: the frame is the caller's, control goes to the entry of a    *)
(* block.                                                                    *)
LEMMA TailCalls ==
  ASSUME NEW m \in Nat, LinkageFrom(code, m), Machine(m),
         mode = "running", NEW e \in EntriesFrom(code, m), CutVars(VarBase),
         Jump(e), code' = code, rs' = rs, ds' \in Seq(Cell), BlockCells(code, m, ds')
  PROVE  Machine(m)'
<1>1. /\ p \in 1..Len(code) /\ code \in Seq(Instruction) /\ Exact(code, vt, rs, p)
      /\ e \in m..Len(code) /\ e \in Entries(code) /\ Len(code) \in Nat
      /\ VarBase = BaseOf(rs, Len(rs)) /\ VarBase \in Nat /\ VarBase <= Len(vt)
  BY CurrentFrom
<1>2. rs \in Seq(Frame) /\ vt \in Seq(Cell)
  BY DEF Machine, TypeOK
<1>3. Exact(code, vt', rs, e)
  BY <1>1, <1>2, ExactTail DEF CutVars
<1>4. vt' \in Seq(Cell) /\ BlockCells(code, m, vt') /\ pool' \subseteq Handles
  BY <1>1, VarsCut
<1>5. TypeOK'
  BY <1>1, <1>4 DEF Jump, Machine, TypeOK
<1> QED
  BY <1>1, <1>3, <1>4, <1>5 DEF Jump, Machine
-------------------------------------------------------------------------------
(* The invariant is inductive. *)

(* It holds before the first run. *)
LEMMA InitIInv ==
  ASSUME Init
  PROVE  IInv
<1>1. code \in Images /\ code \in Seq(Instruction)
  BY ImagesAssumption DEF Init
<1>2. TypeOK
  BY <1>1 DEF Init, TypeOK, Wild
<1> QED
  BY <1>1, <1>2 DEF Init, IInv, Machine, CallSites, BlockCells

(* Only a run executes instructions. *)
LEMMA StepRuns ==
  ASSUME Step
  PROVE  mode = "running"
  BY DEF Step, PopNull, PopVar, PopNothing, PushImm, PushBadImm, PushVar,
         PushRemains, ReadsUnbound, PushNothing, PushBlock, Call, Apply, ApplyFail, OprRun,
         OprFail, Ret, RetEnd, BadFrame, TailCall, TailApply, TailApplyFail,
         FetchNothing, Executing, ExecutingOneOf

(* Every instruction keeps it. *)
LEMMA StepMachine ==
  ASSUME NEW m \in Nat, LinkageFrom(code, m), Machine(m),
         Step, code' = code, m = 1 \/ ~ PushRemains
  PROVE  Machine(m)'
<1> USE DEF Executing, ExecutingOneOf
<1>1. mode = "running"
  BY StepRuns
<1>2. /\ p \in 1..Len(code) /\ code \in Seq(Instruction) /\ Arg \in Nat
      /\ Exact(code, vt, rs, p)
      /\ VarBase = BaseOf(rs, Len(rs)) /\ VarBase \in Nat /\ VarBase <= Len(vt)
      /\ code[p].op \in {"PushBlock", "Call", "TailCall"} => Arg \in EntriesFrom(code, m)
  BY <1>1, CurrentFrom
<1>3. /\ ds \in Seq(Cell) /\ BlockCells(code, m, ds)
      /\ vt \in Seq(Cell) /\ BlockCells(code, m, vt)
      /\ rs \in Seq(Frame) /\ CallSites(code, m, rs)
      /\ pool \subseteq Handles /\ Len(vt) \in Nat /\ Len(ds) \in Nat
  BY DEF Machine, TypeOK
<1>4. CASE PopNull
  <2>1. ds' \in Seq(Cell) /\ BlockCells(code, m, ds') /\ pool' \subseteq Handles
    BY <1>3, <1>4, BlockCellsFront DEF PopNull, Freed
  <2>2. code[p].op # "Ret" /\ code[p].op # "PopVar"
    BY <1>4 DEF PopNull
  <2>3. Jump(p + 1) /\ rs' = rs /\ vt' = vt
    BY <1>4 DEF PopNull
  <2> QED
    BY <1>1, <2>1, <2>2, <2>3, FallsThrough
<1>5. CASE PopVar
  <2>1. /\ ds' \in Seq(Cell) /\ BlockCells(code, m, ds')
        /\ Last(ds) \in Cell
        /\ Last(ds).type = BLOCK => Last(ds).val \in EntriesFrom(code, m)
    BY <1>3, <1>5, BlockCellsFront DEF PopVar
  <2>2. vt' \in Seq(Cell) /\ BlockCells(code, m, vt') /\ Len(vt') = Len(vt) + 1
    BY <1>3, <1>5, <2>1, BlockCellsAppend, AppendProperties DEF PopVar
  <2>3. code[p].op = "PopVar" /\ code[p].op # "Ret"
    BY <1>5 DEF PopVar
  <2>4. Jump(p + 1) /\ rs' = rs /\ pool' \subseteq Handles
    BY <1>3, <1>5 DEF PopVar
  <2> QED
    BY <1>1, <2>1, <2>2, <2>3, <2>4, FallsThrough
<1>6. CASE PushImm
  <2>1. ds' \in Seq(Cell) /\ BlockCells(code, m, ds') /\ pool' \subseteq Handles
    BY <1>6, Pushed DEF PushImm
  <2>2. code[p].op # "Ret" /\ code[p].op # "PopVar"
    BY <1>6 DEF PushImm
  <2>3. Jump(p + 1) /\ rs' = rs /\ vt' = vt
    BY <1>6 DEF PushImm
  <2> QED
    BY <1>1, <2>1, <2>2, <2>3, FallsThrough
<1>7. CASE PushVar
  <2> DEFINE x == vt[Slot(Arg)]
             y == CellDup(x, Fresh)
  <2>1. Slot(Arg) \in 1..Len(vt)
    BY <1>2, <1>3, <1>7 DEF PushVar, Slot
  <2>2. x \in Cell /\ (x.type = BLOCK => x.val \in EntriesFrom(code, m))
    BY <1>3, <2>1, ElementOfSeq DEF BlockCells
  <2>3. y = Num(Fresh) \/ y \in {Blk(a) : a \in EntriesFrom(code, m)}
    BY <2>2 DEF CellDup, Blk, Cell
  <2>4. ds' \in Seq(Cell) /\ BlockCells(code, m, ds') /\ pool' \subseteq Handles
    BY <1>7, <2>3, Pushed DEF PushVar
  <2>5. code[p].op # "Ret" /\ code[p].op # "PopVar"
    BY <1>7 DEF PushVar
  <2>6. Jump(p + 1) /\ rs' = rs /\ vt' = vt
    BY <1>7 DEF PushVar
  <2> QED
    BY <1>1, <2>4, <2>5, <2>6, FallsThrough
<1>8. CASE PushRemains
  <2>0. Entries(code) = EntriesFrom(code, m)
    BY <1>2, <1>8 DEF EntriesFrom, Entries
  <2>1. PICK x \in {Blk(a) : a \in EntriesFrom(code, m)} \union {Num(Fresh)} : PushCell(x)
    BY <1>8, <2>0 DEF PushRemains, ReadsUnbound
  <2>2. ds' \in Seq(Cell) /\ BlockCells(code, m, ds') /\ pool' \subseteq Handles
    BY <2>1, Pushed
  <2>3. code[p].op # "Ret" /\ code[p].op # "PopVar"
    BY <1>8 DEF PushRemains, ReadsUnbound
  <2>4. Jump(p + 1) /\ rs' = rs /\ vt' = vt
    BY <1>8 DEF PushRemains, ReadsUnbound
  <2> QED
    BY <1>1, <2>2, <2>3, <2>4, FallsThrough
<1>9. CASE PushBlock
  <2>1. code[p].op = "PushBlock"
    BY <1>9 DEF PushBlock
  <2>2. Blk(Arg) \in {Blk(a) : a \in EntriesFrom(code, m)}
    BY <1>2, <2>1
  <2>3. ds' \in Seq(Cell) /\ BlockCells(code, m, ds') /\ pool' \subseteq Handles
    BY <1>9, <2>2, Pushed DEF PushBlock
  <2>4. Jump(p + 1) /\ rs' = rs /\ vt' = vt
    BY <1>9 DEF PushBlock
  <2>5. code[p].op # "Ret" /\ code[p].op # "PopVar"
    BY <2>1
  <2> QED
    BY <1>1, <2>3, <2>5, <2>4, FallsThrough
<1>10. CASE OprRun
  <2> DEFINE o    == OprTable[Arg]
             rest == Len(ds) - o.numIns
             args == SubSeq(ds, rest + 1, Len(ds))
             y    == OprResult(o, args, Fresh)
  <2>1. o \in Opr
    BY <1>10, OprAssumption, ElementOfSeq DEF OprRun
  <2>2. /\ o.numIns \in {1, 2} /\ rest \in Nat
        /\ rest <= Len(ds) /\ rest + 1 \in (rest + 1)..Len(ds)
        /\ \A i \in (rest + 1)..Len(ds) : ds[i].type = NUM
    <3>1. OprFits(o)
      BY <1>10 DEF OprRun
    <3>2. o.numIns \in {1, 2}
      BY <2>1 DEF Opr
    <3>3. Len(ds) \in Nat /\ o.numIns <= Len(ds)
      BY <1>3, <3>1 DEF OprFits
    <3> HIDE DEF o
    <3>4. rest \in Nat /\ rest <= Len(ds) /\ rest + 1 \in (rest + 1)..Len(ds)
      BY <3>2, <3>3
    <3>5. \A i \in (rest + 1)..Len(ds) : ds[i].type = NUM
      BY <3>1 DEF OprFits
    <3> QED
      BY <3>2, <3>4, <3>5
  <2>3. args[1] \in Cell /\ args[1].type = NUM
    <3>1. \A i \in (rest + 1)..Len(ds) : ds[i] \in Cell
      BY <1>3, <2>2, ElementOfSeq
    <3>2. args[1] = ds[rest + 1]
      <4>1. /\ rest + 1 \in Nat /\ Len(ds) \in Nat
            /\ 1 \in 1..(Len(ds) - (rest + 1) + 1) /\ rest + 1 + 1 - 1 = rest + 1
        BY <1>3, <2>2
      <4> HIDE DEF rest
      <4>2. \A i \in 1..(Len(ds) - (rest + 1) + 1) : args[i] = ds[rest + 1 + i - 1]
        BY <3>1, <4>1, SubSeqProperties
      <4> QED
        BY <4>1, <4>2
    <3> QED
      BY <2>2, <3>1, <3>2
  <2>4. Fresh \in Handles /\ Num(Fresh) \in Cell /\ Num(Fresh).type # BLOCK
    BY <1>10, FreshHandle DEF OprRun
  <2>5. y \in Cell /\ y.type # BLOCK
    <3>1. y = args[1] \/ y = Num(Fresh)
      BY DEF OprResult
    <3>2. NUM # BLOCK
      BY DEF NUM, BLOCK
    <3> HIDE DEF y, args
    <3> QED
      BY <2>3, <2>4, <3>1, <3>2
  <2>6. /\ SubSeq(ds, 1, rest) \in Seq(Cell)
        /\ BlockCells(code, m, SubSeq(ds, 1, rest))
    BY <1>3, <2>2, BlockCellsCut
  <2>7. ds' = Append(SubSeq(ds, 1, rest), y) /\ pool' = OprPool(o, args, Fresh, pool)
    BY <1>10 DEF OprRun
  <2>8. ds' \in Seq(Cell) /\ BlockCells(code, m, ds')
    BY <2>5, <2>6, <2>7, BlockCellsAppend
  <2>9. pool' \subseteq Handles
    BY <1>3, <2>4, <2>7 DEF OprPool, Freed
  <2>10. code[p].op # "Ret" /\ code[p].op # "PopVar"
    BY <1>10 DEF OprRun
  <2>11. Jump(p + 1) /\ rs' = rs /\ vt' = vt
    BY <1>10 DEF OprRun
  <2> QED
    BY <1>1, <2>8, <2>9, <2>10, <2>11, FallsThrough
<1>11. CASE PopNothing
  BY <1>11, Stops DEF PopNothing, Faults
<1>12. CASE PushBadImm
  BY <1>12, Stops DEF PushBadImm, Faults
<1>13. CASE PushNothing
  BY <1>13, Stops DEF PushNothing, ReadsUnbound, Faults
<1>14. CASE FetchNothing
  BY <1>14, Stops DEF FetchNothing, Faults
<1>15. CASE BadFrame
  <2>1. VarBase > Len(vt)
    BY <1>15 DEF BadFrame
  <2> QED
    BY <1>2, <1>3, <2>1
<1>16. CASE Call
  <2>1. code[p].op = "Call" /\ Arg \in EntriesFrom(code, m)
    BY <1>2, <1>16 DEF Call
  <2> QED
    BY <1>1, <1>3, <1>16, <2>1, Calls DEF Call
<1>17. CASE Apply
  <2>1. code[p].op = "Apply"
    BY <1>17 DEF Apply
  <2>2. ds' \in Seq(Cell) /\ BlockCells(code, m, ds') /\ Last(ds).val \in EntriesFrom(code, m)
    BY <1>3, <1>17, BlockCellsFront DEF Apply, TopIsBlock
  <2> QED
    BY <1>1, <1>17, <2>1, <2>2, Calls DEF Apply
<1>18. CASE ApplyFail
  <2>1. code[p].op \in {"Call", "Apply"}
    BY <1>18 DEF ApplyFail
  <2>2. rs' \in Seq(Frame) /\ CallSites(code, m, rs')
    BY <1>1, <1>18, <2>1, FramePushed DEF ApplyFail
  <2> QED
    BY <1>18, <2>2, Ends DEF ApplyFail, Fail
<1>19. CASE OprFail
  BY <1>3, <1>19, Ends DEF OprFail, Fail
<1>20. CASE Ret
  <2>1. VarBase = Last(rs).varBase /\ rs # << >>
    BY <1>20 DEF Ret, VarBase
  <2>2. /\ Len(rs) \in Nat \ {0}
        /\ Front(rs) \in Seq(Frame)
        /\ Len(Front(rs)) = Len(rs) - 1
        /\ \A k \in 1..(Len(rs) - 1) : Front(rs)[k] = rs[k]
        /\ Last(rs) = rs[Len(rs)]
    BY <1>3, <2>1, FrontLast
  <2>3. CallSites(code, m, Front(rs)) /\ Last(rs).address \in (m + 1)..Len(code)
    BY <1>3, <2>2 DEF CallSites
  <2>4. Exact(code, SubSeq(vt, 1, VarBase), Front(rs), Last(rs).address)
    BY <1>2, <1>3, <2>1, ExactRet
  <2>5. /\ vt' \in Seq(Cell) /\ BlockCells(code, m, vt') /\ pool' \subseteq Handles
        /\ vt' = SubSeq(vt, 1, VarBase)
    BY <1>2, <1>20, VarsCut DEF Ret, CutVars
  <2>6. /\ rs' = Front(rs) /\ ds' = ds /\ p' = Last(rs).address
        /\ mode' = mode /\ err' = err
    BY <1>20 DEF Ret, Jump
  <2>7. p' \in m..Len(code) /\ p' \in Nat
    BY <1>2, <2>3, <2>6
  <2>8. TypeOK'
    BY <1>2, <2>2, <2>5, <2>6, <2>7 DEF Machine, TypeOK
  <2> QED
    BY <1>1, <1>3, <2>3, <2>4, <2>5, <2>6, <2>7, <2>8 DEF Machine
<1>21. CASE RetEnd
  <2>1. rs' \in Seq(Frame) /\ CallSites(code, m, rs') /\ rs' = << >>
    BY <1>3, <1>21 DEF RetEnd
  <2> QED
    BY <1>21, <2>1, Ends DEF RetEnd
<1>22. CASE TailCall
  <2>1. Arg \in EntriesFrom(code, m)
    BY <1>2, <1>22 DEF TailCall
  <2> QED
    BY <1>1, <1>3, <1>22, <2>1, TailCalls DEF TailCall
<1>23. CASE TailApply
  <2>1. ds' \in Seq(Cell) /\ BlockCells(code, m, ds') /\ Last(ds).val \in EntriesFrom(code, m)
    BY <1>3, <1>23, BlockCellsFront DEF TailApply, TopIsBlock
  <2> QED
    BY <1>1, <1>23, <2>1, TailCalls DEF TailApply
<1>24. CASE TailApplyFail
  BY <1>3, <1>24, Ends DEF TailApplyFail, Fail
<1> QED
  BY <1>4, <1>5, <1>6, <1>7, <1>8, <1>9, <1>10, <1>11, <1>12, <1>13, <1>14,
     <1>15, <1>16, <1>17, <1>18, <1>19, <1>20, <1>21, <1>22, <1>23, <1>24 DEF Step

(* So does what the host does between runs. *)
LEMMA HostMachine ==
  ASSUME NEW m, Machine(m), Host, code' = code
  PROVE  Machine(m)'
<1>1. /\ ds \in Seq(Cell) /\ BlockCells(code, m, ds) /\ Len(ds) \in Nat
      /\ pool \subseteq Handles
  BY DEF Machine, TypeOK
<1>2. CASE HostPush
  <2>1. ds' \in Seq(Cell) /\ BlockCells(code, m, ds') /\ pool' \subseteq Handles
    BY <1>2, Pushed DEF HostPush
  <2>2. TypeOK'
    BY <1>2, <2>1 DEF HostPush, Machine, TypeOK
  <2> QED
    BY <1>2, <2>1, <2>2 DEF HostPush, Machine
<1>3. ASSUME NEW n \in 1..Len(ds), HostPop(n)
      PROVE  Machine(m)'
  <2>1. ds' \in Seq(Cell) /\ BlockCells(code, m, ds')
    BY <1>1, <1>3, BlockCellsCut DEF HostPop
  <2>2. pool' \subseteq Handles
    BY <1>1, <1>3 DEF HostPop, Freed
  <2>3. TypeOK'
    BY <1>3, <2>1, <2>2 DEF HostPop, Machine, TypeOK
  <2> QED
    BY <1>3, <2>1, <2>3 DEF HostPop, Machine
<1>4. CASE CtxFree
  <2>1. << >> \in Seq(Cell) /\ << >> \in Seq(Frame)
    OBVIOUS
  <2>2. TypeOK'
    BY <1>1, <1>4, <2>1 DEF CtxFree, Freed, Machine, TypeOK
  <2>3. CallSites(code, m, << >>) /\ BlockCells(code, m, << >>)
    BY DEF CallSites, BlockCells
  <2> QED
    BY <1>4, <2>2, <2>3 DEF CtxFree, Machine
<1> QED
  BY <1>2, <1>3, <1>4 DEF Host

(* A run that finds no frame left over starts well, on the image that a link *)
(* leaves behind if no block value is from an older one.                     *)
LEMMA StartMachine ==
  ASSUME NEW k, Machine(k), rs = << >>, NEW m,
         code' \in Seq(Instruction), BlockCells(code', m, ds),
         NEW a, a \in EntriesFrom(code', m), Run(a)
  PROVE  Machine(m)'
<1>1. /\ mode = "idle" /\ p' = a /\ mode' = "running" /\ err' = "NONE"
      /\ ds' = ds /\ rs' = << >> /\ vt' = vt /\ pool' = pool
  BY DEF Run
<1>2. vt = << >> /\ TypeOK
  BY <1>1 DEF Machine
<1>3. a \in m..Len(code') /\ a \in Entries(code') /\ a \in Nat
  <2>1. a \in Entries(code') /\ a >= m
    BY DEF EntriesFrom
  <2>2. a \in 1..Len(code') /\ Len(code') \in Nat
    BY <2>1 DEF Entries
  <2> QED
    BY <2>1, <2>2
<1>4. Exact(code', << >>, << >>, a)
  BY <1>3, NothingBoundAtEntry DEF Exact, BaseOf
<1>5. TypeOK'
  BY <1>1, <1>2, <1>3 DEF TypeOK
<1>6. CallSites(code', m, << >>) /\ BlockCells(code', m, << >>)
  BY DEF CallSites, BlockCells
<1> QED
  BY <1>1, <1>2, <1>3, <1>4, <1>5, <1>6 DEF Machine

(* A run started at a block of the image starts the machine properly. *)
LEMMA RunMachine ==
  ASSUME NEW m, Machine(m), rs = << >>, NEW a \in EntriesFrom(code, m), Run(a),
         code' = code
  PROVE  Machine(m)'
<1>1. code' \in Seq(Instruction) /\ BlockCells(code', m, ds) /\ a \in EntriesFrom(code', m)
  BY DEF Machine, TypeOK
<1> QED
  BY <1>1, StartMachine

(* Together they keep the invariant, if the host never runs a context whose  *)
(* last run failed.                                                          *)
LEMMA NextIInv ==
  ASSUME ~ ReuseAfterFailure, IInv, [Next]_vars
  PROVE  IInv'
<1>1. code \in Images /\ LinkageFrom(code, 1) /\ Machine(1) /\ 1 \in Nat
  BY ImagesAssumption DEF IInv, Linkage
<1>2. CASE Step /\ code' = code
  BY <1>1, <1>2, StepMachine DEF IInv
<1>3. CASE Host /\ code' = code
  BY <1>1, <1>3, HostMachine DEF IInv
<1>4. ASSUME NEW a \in Entries(code), Run(a), code' = code
      PROVE  IInv'
  <2>1. a \in EntriesFrom(code, 1)
    BY DEF EntriesFrom, Entries
  <2>2. rs = << >>
    BY <1>1, <1>4 DEF Run, Machine, TypeOK
  <2> QED
    BY <1>1, <1>4, <2>1, <2>2, RunMachine DEF IInv
<1>5. CASE UNCHANGED vars
  BY <1>1, <1>5 DEF vars, IInv, Machine, TypeOK
<1> QED
  BY <1>2, <1>3, <1>4, <1>5 DEF Next

(* The partition is exact on whatever image the machine runs. *)
LEMMA MachineExact ==
  ASSUME NEW m, Machine(m)
  PROVE  ExactFrames
<1> SUFFICES ASSUME mode = "running"
             PROVE  /\ Len(vt) = VarBase + Bound(code, p)
                    /\ \A k \in 1..Len(rs) :
                         rs[k].varBase = Base(k - 1) + Bound(code, rs[k].address)
  BY DEF ExactFrames
<1>1. Exact(code, vt, rs, p) /\ VarBase = BaseOf(rs, Len(rs))
  BY BaseIsLast DEF Machine, TypeOK, VarBase
<1>2. \A k \in 1..Len(rs) : BaseOf(rs, k - 1) = Base(k - 1)
  BY DEF BaseOf, Base
<1> QED
  BY <1>1, <1>2 DEF Exact

(* On whatever image, a program that captures nothing reads what its running *)
(* activation has bound.                                                     *)
LEMMA MachineReads ==
  ASSUME NEW m \in Nat, LinkageFrom(code, m), Machine(m), SelfContained(code),
         Executing("PushVar")
  PROVE  Slot(Arg) \in (VarBase + 1)..Len(vt)
<1>1. mode = "running" /\ code[p].op = "PushVar"
  BY DEF Executing, ExecutingOneOf
<1>2. p \in 1..Len(code) /\ Arg \in Nat /\ VarBase \in Nat
  BY <1>1, CurrentFrom
<1>3. Arg < Bound(code, p) /\ Bound(code, p) \in Nat
  BY <1>1, <1>2, BoundNat DEF SelfContained, Arg
<1>4. Len(vt) = VarBase + Bound(code, p)
  BY <1>1, MachineExact DEF ExactFrames
<1> QED
  BY <1>2, <1>3, <1>4 DEF Slot

(* The instruction a fault of a run is due to. *)
LEMMA StepFaults ==
  ASSUME Step
  PROVE  /\ mode' = "assertImm" => PushBadImm
         /\ mode' = "noSlot" => PushNothing
         /\ mode' = "noInst" => FetchNothing
<1>1. mode = "running"
  BY StepRuns
<1> QED
  BY <1>1 DEF Step, PopNull, PopVar, PopNothing, PushImm, PushVar, PushRemains, ReadsUnbound,
              PushBadImm, PushNothing, PushBlock, Call, Apply, ApplyFail, OprRun, OprFail,
              Ret, RetEnd, BadFrame, TailCall, TailApply, TailApplyFail, FetchNothing,
              Jump, Halt, Fault, Fail

(* Each property follows from it. *)
LEMMA Consequences ==
  ASSUME IInv
  PROVE  /\ TypeOK /\ ExactFrames /\ FrameAssertions /\ CleanReturn /\ NoStrayFetch
         /\ OwnVariables
<1>1. ExactFrames
  BY MachineExact DEF IInv
<1>2. ASSUME SelfContained(code), Executing("PushVar")
      PROVE  Slot(Arg) \in (VarBase + 1)..Len(vt)
  <2>1. LinkageFrom(code, 1) /\ Machine(1) /\ 1 \in Nat
    BY ImagesAssumption DEF IInv, Linkage
  <2> QED
    BY <1>2, <2>1, MachineReads
<1> QED
  BY <1>1, <1>2 DEF IInv, Machine, FrameAssertions, CleanReturn, NoStrayFetch, OwnVariables

-------------------------------------------------------------------------------
(* The theorems. *)

(* IInv holds in every state, if no context is run again after a failure. *)
THEOREM Invariance ==
  ASSUME ~ ReuseAfterFailure
  PROVE  Spec => []IInv
<1>1. Init => IInv
  BY InitIInv
<1>2. IInv /\ [Next]_vars => IInv'
  BY NextIInv
<1> QED
  BY <1>1, <1>2, PTL DEF Spec

(* The data stack, the return stack, the variable table and the pool keep    *)
(* their types through every instruction: no frame, cell or handle SR_run    *)
(* builds is malformed.                                                      *)
THEOREM TypeCorrect ==
  ASSUME ~ ReuseAfterFailure
  PROVE  Spec => []TypeOK
<1>1. IInv => TypeOK
  BY Consequences
<1> QED
  BY <1>1, Invariance, PTL

(* The variable table is partitioned exactly among the running block and the *)
(* suspended ones, by varBase of SR_Ret (sorcer.c).                          *)
THEOREM FramesExact ==
  ASSUME ~ ReuseAfterFailure
  PROVE  Spec => []ExactFrames
<1>1. IInv => ExactFrames
  BY Consequences
<1> QED
  BY <1>1, Invariance, PTL

(* SR_run's assertions vt->length >= ret.varBase never fail. *)
THEOREM FrameAssertionsHold ==
  ASSUME ~ ReuseAfterFailure
  PROVE  Spec => []FrameAssertions
<1>1. IInv => FrameAssertions
  BY Consequences
<1> QED
  BY <1>1, Invariance, PTL

(* In a program without captured variables PushVar only reads variables of   *)
(* the activation that executes it.                                          *)
THEOREM ReadsOwnVariables ==
  ASSUME ~ ReuseAfterFailure
  PROVE  Spec => []OwnVariables
<1>1. IInv => OwnVariables
  BY Consequences
<1> QED
  BY <1>1, Invariance, PTL

(* SR_run leaves no variable behind, and no frame unless it fails. *)
THEOREM ReturnsClean ==
  ASSUME ~ ReuseAfterFailure
  PROVE  Spec => []CleanReturn
<1>1. IInv => CleanReturn
  BY Consequences
<1> QED
  BY <1>1, Invariance, PTL

(* Control stays inside the code vector: every jump, call, return and applied*)
(* block value leads to an instruction of the image.                         *)
THEOREM FetchesInside ==
  ASSUME ~ ReuseAfterFailure
  PROVE  Spec => []NoStrayFetch
<1>1. IInv => NoStrayFetch
  BY Consequences
<1> QED
  BY <1>1, Invariance, PTL

(* Tail call elimination is complete: if the linker left no call right before*)
(* a Ret, every frame of SR_run has something left to do when it is resumed. *)
THEOREM NoFrameIdle ==
  ASSUME ~ ReuseAfterFailure, \A c \in Images : TailCallsEliminated(c)
  PROVE  Spec => []NoIdleFrames
<1>1. IInv => NoIdleFrames
  <2> SUFFICES ASSUME IInv, NEW k \in 1..Len(rs)
               PROVE  /\ code[rs[k].address - 1].op \in {"Call", "Apply"}
                      /\ code[rs[k].address].op # "Ret"
    BY DEF NoIdleFrames
  <2> DEFINE a == rs[k].address - 1
  <2>1. rs[k].address \in 2..Len(code) /\ code[a].op \in {"Call", "Apply"}
    BY DEF IInv, Machine, CallSites
  <2>2. code \in Seq(Instruction) /\ TailCallsEliminated(code)
    BY ImagesAssumption DEF IInv
  <2>3. a \in 1..(Len(code) - 1) /\ a + 1 = rs[k].address
    BY <2>1, <2>2
  <2> HIDE DEF a
  <2>4. code[a + 1].op # "Ret"
    BY <2>1, <2>2, <2>3 DEF TailCallsEliminated
  <2> QED
    BY <2>1, <2>3, <2>4 DEF a
<1> QED
  BY <1>1, Invariance, PTL

-------------------------------------------------------------------------------
(* Owners.  Every live number has exactly one owner (Ownership), whether or   *)
(* not a context is run again after a failed run: SR_cellNew, SR_cellDup, the *)
(* move of PopVar, the operators, the cuts of both stacks and SR_ctxFree.     *)
-------------------------------------------------------------------------------
(* What the cells of a sequence own. *)

(* One cell owns its handle if it is a number, and nothing otherwise. *)
LEMMA OwnedOne ==
  ASSUME NEW x
  PROVE  Owned(<< x >>) = IF x.type = NUM THEN {x.val} ELSE {}
<1>1. DOMAIN << x >> = {1} /\ << x >>[1] = x
  OBVIOUS
<1> QED
  BY <1>1 DEF Owned

(* Membership in Owned, by index. *)
LEMMA OwnedAt ==
  ASSUME NEW s \in Seq(Cell)
  PROVE  \A h : h \in Owned(s) <=> \E i \in 1..Len(s) : s[i].type = NUM /\ s[i].val = h
  BY DEF Owned

(* The last element, cut out of a sequence. *)
LEMMA LastAlone ==
  ASSUME NEW s \in Seq(Cell), NEW n \in Nat, n >= 1, n = Len(s)
  PROVE  SubSeq(s, n, n) = << s[n] >>
<1>1. s[n] \in Cell
  BY ElementOfSeq
<1>2. /\ SubSeq(s, n, n) \in Seq(Cell)
      /\ Len(SubSeq(s, n, n)) = 1
      /\ SubSeq(s, n, n)[1] = s[n]
  <2>1. \A i \in n..n : s[i] \in Cell
    BY <1>1
  <2>2. /\ SubSeq(s, n, n) \in Seq(Cell)
        /\ Len(SubSeq(s, n, n)) = IF n <= n THEN n - n + 1 ELSE 0
        /\ \A i \in 1..(n - n + 1) : SubSeq(s, n, n)[i] = s[n + i - 1]
    BY <2>1, SubSeqProperties
  <2>3. 1 \in 1..(n - n + 1) /\ n + 1 - 1 = n /\ n - n + 1 = 1
    OBVIOUS
  <2> QED
    BY <2>2, <2>3
<1>3. << s[n] >> \in Seq(Cell) /\ Len(<< s[n] >>) = 1 /\ << s[n] >>[1] = s[n]
  BY <1>1
<1> DEFINE t == SubSeq(s, n, n)
           u == << s[n] >>
<1>4. /\ t \in Seq(Cell) /\ u \in Seq(Cell) /\ Len(t) = Len(u)
      /\ \A i \in 1..Len(t) : t[i] = u[i]
  BY <1>2, <1>3
<1> HIDE DEF t, u
<1>5. t = u
  BY <1>4, SeqEqual
<1> QED
  BY <1>5 DEF t, u

(* A cell on top of a sequence adds what it owns, and keeps owners single if *)
(* nobody owned that.                                                        *)
LEMMA OwnedAppend ==
  ASSUME NEW s \in Seq(Cell), NEW x \in Cell
  PROVE  /\ Append(s, x) \in Seq(Cell)
         /\ Owned(Append(s, x)) = Owned(s) \union Owned(<< x >>)
         /\ SoleOwner(s) /\ Owned(s) \intersect Owned(<< x >>) = {}
              => SoleOwner(Append(s, x))
<1> DEFINE t == Append(s, x)
           n == Len(s)
<1>1. /\ n \in Nat /\ t \in Seq(Cell) /\ Len(t) = n + 1
      /\ \A i \in 1..n : t[i] = s[i]
      /\ t[n + 1] = x
  BY AppendProperties
<1> HIDE DEF t
<1>2. \A h : h \in Owned(<< x >>) <=> x.type = NUM /\ x.val = h
  BY OwnedOne
<1>3. ASSUME NEW h
      PROVE  h \in Owned(t) <=> h \in Owned(s) \union Owned(<< x >>)
  <2>1. h \in Owned(t) <=> \E i \in 1..(n + 1) : t[i].type = NUM /\ t[i].val = h
    BY <1>1, OwnedAt
  <2>2. h \in Owned(s) <=> \E i \in 1..n : s[i].type = NUM /\ s[i].val = h
    BY OwnedAt
  <2>3. 1..(n + 1) = (1..n) \union {n + 1}
    BY <1>1
  <2> QED
    BY <1>1, <1>2, <2>1, <2>2, <2>3
<1>4. \A i \in 1..n : s[i].type = NUM => s[i].val \in Owned(s)
  BY OwnedAt
<1>5. ASSUME SoleOwner(s), Owned(s) \intersect Owned(<< x >>) = {},
             NEW i \in 1..(n + 1), NEW j \in 1..(n + 1),
             t[i].type = NUM, t[j].type = NUM, t[i].val = t[j].val
      PROVE  i = j
  <2>1. CASE i \in 1..n /\ j \in 1..n
    BY <1>1, <1>5, <2>1 DEF SoleOwner
  <2>2. CASE i \in 1..n /\ j = n + 1
    <3>1. t[i] = s[i] /\ t[j] = x
      BY <1>1, <2>2
    <3>2. x.val \in Owned(s) /\ x.val \in Owned(<< x >>)
      BY <1>2, <1>5, <2>2, <3>1, <1>4
    <3> QED
      BY <1>5, <3>2
  <2>3. CASE i = n + 1 /\ j \in 1..n
    <3>1. t[j] = s[j] /\ t[i] = x
      BY <1>1, <2>3
    <3>2. x.val \in Owned(s) /\ x.val \in Owned(<< x >>)
      BY <1>2, <1>5, <2>3, <3>1, <1>4
    <3> QED
      BY <1>5, <3>2
  <2> QED
    BY <1>1, <2>1, <2>2, <2>3
<1> QED
  BY <1>1, <1>3, <1>5 DEF t, SoleOwner

(* Cutting a sequence at n leaves it what the rest did not own. *)
LEMMA OwnedCut ==
  ASSUME NEW s \in Seq(Cell), NEW n \in Nat, n <= Len(s), SoleOwner(s)
  PROVE  /\ SubSeq(s, 1, n) \in Seq(Cell)
         /\ Owned(SubSeq(s, 1, n)) = Owned(s) \ Owned(SubSeq(s, n + 1, Len(s)))
         /\ Owned(SubSeq(s, n + 1, Len(s))) \subseteq Owned(s)
         /\ SoleOwner(SubSeq(s, 1, n))
<1> DEFINE t == SubSeq(s, 1, n)
           r == SubSeq(s, n + 1, Len(s))
           m == Len(s)
<1>1. m \in Nat /\ \A i \in 1..m : s[i] \in Cell
  BY ElementOfSeq
<1>2. t \in Seq(Cell) /\ Len(t) = n /\ \A i \in 1..n : t[i] = s[i]
  BY Cut
<1>3. /\ r \in Seq(Cell) /\ Len(r) = m - n
      /\ \A i \in 1..(m - n) : r[i] = s[n + i]
  <2>1. \A i \in (n + 1)..m : s[i] \in Cell
    BY <1>1
  <2>2. /\ r \in Seq(Cell)
        /\ Len(r) = IF n + 1 <= m THEN m - (n + 1) + 1 ELSE 0
        /\ \A i \in 1..(m - (n + 1) + 1) : r[i] = s[n + 1 + i - 1]
    BY <1>1, <2>1, SubSeqProperties
  <2>3. Len(r) = m - n
    BY <1>1, <2>2
  <2>4. \A i \in 1..(m - n) : r[i] = s[n + i]
    BY <1>1, <2>2
  <2> QED
    BY <2>2, <2>3, <2>4
<1> HIDE DEF t, r
<1>4. \A h : h \in Owned(t) <=> \E i \in 1..n : s[i].type = NUM /\ s[i].val = h
  BY <1>2, OwnedAt
<1>5. \A h : h \in Owned(r) <=> \E i \in (n + 1)..m : s[i].type = NUM /\ s[i].val = h
  <2>1. \A h : h \in Owned(r) <=> \E i \in 1..(m - n) : r[i].type = NUM /\ r[i].val = h
    <3>1. \A h : h \in Owned(r) <=> \E i \in 1..Len(r) : r[i].type = NUM /\ r[i].val = h
      BY <1>3, OwnedAt
    <3> QED
      BY <1>3, <3>1
  <2>2. \A i \in (n + 1)..m : i - n \in 1..(m - n) /\ s[i] = r[i - n]
    BY <1>1, <1>3
  <2>3. \A i \in 1..(m - n) : n + i \in (n + 1)..m /\ r[i] = s[n + i]
    BY <1>1, <1>3
  <2>4. ASSUME NEW h, NEW i \in (n + 1)..m, s[i].type = NUM, s[i].val = h
        PROVE  h \in Owned(r)
    <3>1. i - n \in 1..(m - n) /\ r[i - n].type = NUM /\ r[i - n].val = h
      BY <2>2, <2>4
    <3> QED
      BY <2>1, <3>1
  <2>5. ASSUME NEW h \in Owned(r)
        PROVE  \E i \in (n + 1)..m : s[i].type = NUM /\ s[i].val = h
    <3>1. PICK i \in 1..(m - n) : r[i].type = NUM /\ r[i].val = h
      BY <2>1
    <3>2. n + i \in (n + 1)..m /\ s[n + i].type = NUM /\ s[n + i].val = h
      BY <2>3, <3>1
    <3> QED
      BY <3>2
  <2> QED
    BY <2>4, <2>5
<1>6. \A h : h \in Owned(s) <=> \E i \in 1..m : s[i].type = NUM /\ s[i].val = h
  BY OwnedAt
<1>7. 1..m = (1..n) \union ((n + 1)..m) /\ (1..n) \intersect ((n + 1)..m) = {}
  BY <1>1
<1>8. Owned(t) = Owned(s) \ Owned(r)
  <2>1. \A h : ~ (h \in Owned(t) /\ h \in Owned(r))
    BY <1>4, <1>5, <1>7 DEF SoleOwner
  <2> QED
    BY <1>4, <1>5, <1>6, <1>7, <2>1
<1>9. Owned(r) \subseteq Owned(s)
  BY <1>5, <1>6, <1>7
<1>10. SoleOwner(t)
  BY <1>2, <1>7 DEF SoleOwner
<1> QED
  BY <1>2, <1>8, <1>9, <1>10 DEF t, r

(* Dropping the last cell leaves a sequence what that cell did not own. *)
LEMMA OwnedFront ==
  ASSUME NEW s \in Seq(Cell), s # << >>, SoleOwner(s)
  PROVE  /\ Front(s) \in Seq(Cell) /\ Last(s) \in Cell
         /\ Owned(Front(s)) = Owned(s) \ Owned(<< Last(s) >>)
         /\ Owned(<< Last(s) >>) \subseteq Owned(s)
         /\ SoleOwner(Front(s))
<1> DEFINE n == Len(s)
           t == Front(s)
           x == Last(s)
<1>1. /\ n \in Nat \ {0} /\ t \in Seq(Cell) /\ Len(t) = n - 1
      /\ \A i \in 1..(n - 1) : t[i] = s[i]
      /\ x = s[n] /\ x \in Cell
  BY FrontLast
<1> HIDE DEF t, x
<1>2. \A h : h \in Owned(t) <=> \E i \in 1..(n - 1) : s[i].type = NUM /\ s[i].val = h
  BY <1>1, OwnedAt
<1>3. \A h : h \in Owned(<< x >>) <=> s[n].type = NUM /\ s[n].val = h
  BY <1>1, OwnedOne
<1>4. \A h : h \in Owned(s) <=> \E i \in 1..n : s[i].type = NUM /\ s[i].val = h
  BY OwnedAt
<1>5. 1..n = (1..(n - 1)) \union {n} /\ n \notin 1..(n - 1)
  BY <1>1
<1>6. \A h : ~ (h \in Owned(t) /\ h \in Owned(<< x >>))
  BY <1>1, <1>2, <1>3, <1>5 DEF SoleOwner
<1>7. Owned(t) = Owned(s) \ Owned(<< x >>) /\ Owned(<< x >>) \subseteq Owned(s)
  BY <1>2, <1>3, <1>4, <1>5, <1>6
<1>8. SoleOwner(t)
  BY <1>1, <1>5 DEF SoleOwner
<1> QED
  BY <1>1, <1>7, <1>8 DEF t, x

-------------------------------------------------------------------------------
(* Ownership of a data stack d, a variable table v and a pool q.             *)

Owners(d, v, q) ==
  /\ q = Owned(d) \union Owned(v)
  /\ Owned(d) \intersect Owned(v) = {}
  /\ SoleOwner(d) /\ SoleOwner(v)

(* A cell that owns something nobody owned is pushed. *)
LEMMA OwnersPush ==
  ASSUME NEW d \in Seq(Cell), NEW v \in Seq(Cell), NEW q, Owners(d, v, q),
         NEW x \in Cell, Owned(<< x >>) \intersect q = {}
  PROVE  /\ Append(d, x) \in Seq(Cell)
         /\ Owners(Append(d, x), v, q \union Owned(<< x >>))
<1>1. Owned(d) \intersect Owned(<< x >>) = {} /\ Owned(v) \intersect Owned(<< x >>) = {}
  BY DEF Owners
<1>2. /\ Append(d, x) \in Seq(Cell)
      /\ Owned(Append(d, x)) = Owned(d) \union Owned(<< x >>)
      /\ SoleOwner(Append(d, x))
  BY <1>1, OwnedAppend DEF Owners
<1> QED
  BY <1>1, <1>2 DEF Owners

(* The top of the data stack is dropped and what it owned is freed. *)
LEMMA OwnersPop ==
  ASSUME NEW d \in Seq(Cell), NEW v \in Seq(Cell), NEW q, Owners(d, v, q), d # << >>
  PROVE  /\ Front(d) \in Seq(Cell) /\ Last(d) \in Cell
         /\ Owners(Front(d), v, Freed(q, << Last(d) >>))
         /\ Owned(<< Last(d) >>) \subseteq q
<1>1. /\ Front(d) \in Seq(Cell) /\ Last(d) \in Cell
      /\ Owned(Front(d)) = Owned(d) \ Owned(<< Last(d) >>)
      /\ Owned(<< Last(d) >>) \subseteq Owned(d)
      /\ SoleOwner(Front(d))
  BY OwnedFront DEF Owners
<1> QED
  BY <1>1 DEF Owners, Freed

(* A stack is cut at n and what the rest owned is freed. *)
LEMMA OwnersCut ==
  ASSUME NEW d \in Seq(Cell), NEW v \in Seq(Cell), NEW q, Owners(d, v, q),
         NEW n \in Nat, n <= Len(d)
  PROVE  /\ SubSeq(d, 1, n) \in Seq(Cell)
         /\ Owners(SubSeq(d, 1, n), v, Freed(q, SubSeq(d, n + 1, Len(d))))
         /\ Owned(SubSeq(d, n + 1, Len(d))) \subseteq q
<1>1. /\ SubSeq(d, 1, n) \in Seq(Cell)
      /\ Owned(SubSeq(d, 1, n)) = Owned(d) \ Owned(SubSeq(d, n + 1, Len(d)))
      /\ Owned(SubSeq(d, n + 1, Len(d))) \subseteq Owned(d)
      /\ SoleOwner(SubSeq(d, 1, n))
  BY OwnedCut DEF Owners
<1> QED
  BY <1>1 DEF Owners, Freed

(* The two stacks have the same part in it. *)
LEMMA OwnersSwap ==
  ASSUME NEW d, NEW v, NEW q, Owners(d, v, q)
  PROVE  Owners(v, d, q)
  BY DEF Owners

(* The top of the data stack moves to the variable table. *)
LEMMA OwnersMove ==
  ASSUME NEW d \in Seq(Cell), NEW v \in Seq(Cell), NEW q, Owners(d, v, q), d # << >>
  PROVE  /\ Front(d) \in Seq(Cell) /\ Append(v, Last(d)) \in Seq(Cell)
         /\ Owners(Front(d), Append(v, Last(d)), q)
<1> DEFINE x == Last(d)
           r == Freed(q, << x >>)
<1>1. /\ Front(d) \in Seq(Cell) /\ x \in Cell
      /\ Owners(Front(d), v, r) /\ Owned(<< x >>) \subseteq q
  BY OwnersPop
<1>2. Owners(v, Front(d), r) /\ Owned(<< x >>) \intersect r = {}
  BY <1>1, OwnersSwap DEF Freed
<1>3. r \union Owned(<< x >>) = q
  BY <1>1 DEF Freed
<1> HIDE DEF x, r
<1>4. /\ Append(v, x) \in Seq(Cell)
      /\ Owners(Append(v, x), Front(d), r \union Owned(<< x >>))
  BY <1>1, <1>2, OwnersPush
<1> QED
  BY <1>1, <1>3, <1>4, OwnersSwap DEF x

-------------------------------------------------------------------------------
(* The invariant: owners are single, and the stacks are stacks. *)

OwnInv ==
  /\ code \in Seq(Instruction)
  /\ ds \in Seq(Cell) /\ vt \in Seq(Cell) /\ rs \in Seq(Frame)
  /\ Owners(ds, vt, pool)

(* Where the running block's variables start is a number, and so is the      *)
(* argument of the instruction being executed.                               *)
LEMMA Numbers ==
  ASSUME OwnInv
  PROVE  /\ VarBase \in Nat
         /\ p \in 1..Len(code) => p \in Nat /\ Arg \in Nat
<1>1. VarBase \in Nat
  BY BaseIsLast DEF VarBase, OwnInv
<1>2. ASSUME p \in 1..Len(code)
      PROVE  p \in Nat /\ Arg \in Nat
  <2>1. code \in Seq(Instruction)
    BY DEF OwnInv
  <2>2. code[p] \in Instruction
    BY <1>2, <2>1, ElementOfSeq
  <2> QED
    BY <1>2, <2>2 DEF Arg, Instruction
<1> QED
  BY <1>1, <1>2

(* A push of a block, or of a number in the fresh handle. *)
LEMMA PushKeeps ==
  ASSUME OwnInv, NEW x \in Cell, Owned(<< x >>) \subseteq {Fresh}, PushCell(x),
         code' = code, rs' = rs, vt' = vt
  PROVE  OwnInv'
<1>1. Fresh \notin pool
  BY FreshHandle DEF PushCell
<1>2. Owned(<< x >>) \intersect pool = {}
  BY <1>1
<1>3. /\ Append(ds, x) \in Seq(Cell)
      /\ Owners(Append(ds, x), vt, pool \union Owned(<< x >>))
  BY <1>2, OwnersPush DEF OwnInv
<1>4. ds' = Append(ds, x) /\ pool' = pool \union Owned(<< x >>)
  BY DEF PushCell
<1> QED
  BY <1>3, <1>4 DEF OwnInv

(* A number in the fresh handle, and a block, are cells that own that much. *)
LEMMA PushedCells ==
  ASSUME OwnInv
  PROVE  /\ Free # {} => /\ Num(Fresh) \in Cell
                         /\ Owned(<< Num(Fresh) >>) = {Fresh}
         /\ \A a \in Nat : Blk(a) \in Cell /\ Owned(<< Blk(a) >>) = {}
<1>1. ASSUME Free # {}
      PROVE  Num(Fresh) \in Cell /\ Owned(<< Num(Fresh) >>) = {Fresh}
  <2>1. Num(Fresh) \in Cell
    BY <1>1, FreshHandle
  <2>2. Num(Fresh).type = NUM /\ Num(Fresh).val = Fresh
    BY DEF Num
  <2> QED
    BY <2>1, <2>2, OwnedOne
<1>2. ASSUME NEW a \in Nat
      PROVE  Blk(a) \in Cell /\ Owned(<< Blk(a) >>) = {}
  <2>1. Blk(a) \in Cell /\ Blk(a).type # NUM
    BY DEF Blk, Cell, BLOCK, NUM
  <2> QED
    BY <2>1, OwnedOne
<1> QED
  BY <1>1, <1>2

(* A block ends: its variables are cut off and freed. *)
LEMMA CutKeeps ==
  ASSUME OwnInv, NEW n \in Nat, n <= Len(vt), CutVars(n), ds' = ds, code' = code,
         rs' \in Seq(Frame)
  PROVE  OwnInv'
<1>1. Owners(vt, ds, pool)
  BY OwnersSwap DEF OwnInv
<1>2. /\ SubSeq(vt, 1, n) \in Seq(Cell)
      /\ Owners(SubSeq(vt, 1, n), ds, Freed(pool, SubSeq(vt, n + 1, Len(vt))))
  BY <1>1, OwnersCut DEF OwnInv
<1>3. /\ vt' = SubSeq(vt, 1, n)
      /\ pool' = Freed(pool, SubSeq(vt, n + 1, Len(vt)))
  BY DEF CutVars
<1>4. Owners(ds, vt', pool')
  BY <1>2, <1>3, OwnersSwap
<1> QED
  BY <1>2, <1>3, <1>4 DEF OwnInv

(* An applied block leaves the data stack and owned nothing. *)
LEMMA BlockDropped ==
  ASSUME OwnInv, TopIsBlock
  PROVE  /\ Front(ds) \in Seq(Cell)
         /\ Owners(Front(ds), vt, pool)
<1>1. ds # << >> /\ Last(ds).type # NUM
  BY DEF TopIsBlock, BLOCK, NUM
<1>2. /\ Front(ds) \in Seq(Cell)
      /\ Owners(Front(ds), vt, Freed(pool, << Last(ds) >>))
  BY <1>1, OwnersPop DEF OwnInv
<1>3. Owned(<< Last(ds) >>) = {}
  BY <1>1, OwnedOne
<1>4. Freed(pool, << Last(ds) >>) = pool
  BY <1>3 DEF Freed
<1> QED
  BY <1>2, <1>4

(* The frame a call pushes is one. *)
LEMMA FrameKept ==
  ASSUME OwnInv, p \in 1..Len(code), PushFrame
  PROVE  rs' \in Seq(Frame)
<1> DEFINE f == [address |-> p + 1, varBase |-> Len(vt)]
<1>1. p \in Nat /\ Len(vt) \in Nat
  BY Numbers DEF OwnInv
<1>2. f \in Frame
  BY <1>1 DEF Frame
<1>3. rs' = Append(rs, f) /\ rs \in Seq(Frame)
  BY DEF PushFrame, OwnInv
<1> HIDE DEF f
<1> QED
  BY <1>2, <1>3, AppendProperties

(* The operators: one that works in place keeps its argument's number, the   *)
(* others free their arguments and return a fresh one.                       *)
LEMMA OprKeeps ==
  ASSUME OwnInv, OprRun, code' = code
  PROVE  OwnInv'
<1> DEFINE o    == OprTable[Arg]
           rest == Len(ds) - o.numIns
           args == SubSeq(ds, rest + 1, Len(ds))
           y    == OprResult(o, args, Fresh)
           q    == Freed(pool, args)
<1>1. o \in Opr
  BY OprAssumption, ElementOfSeq DEF OprRun
<1>2. /\ ds \in Seq(Cell) /\ vt \in Seq(Cell) /\ Len(ds) \in Nat
      /\ Owners(ds, vt, pool)
  BY DEF OwnInv
<1>3. rest \in Nat /\ rest <= Len(ds) /\ o.numIns \in {1, 2}
      /\ (o.inPlace => rest + 1 = Len(ds))
  BY <1>1, <1>2 DEF OprRun, OprFits, Opr
<1>4. Free # {} /\ Fresh \notin pool
  BY FreshHandle DEF OprRun
<1>5. /\ ds' = Append(SubSeq(ds, 1, rest), y)
      /\ pool' = OprPool(o, args, Fresh, pool)
      /\ rs' = rs /\ vt' = vt
  BY DEF OprRun
<1>6. /\ SubSeq(ds, 1, rest) \in Seq(Cell)
      /\ Owners(SubSeq(ds, 1, rest), vt, q)
      /\ Owned(args) \subseteq pool
  <2> HIDE DEF rest
  <2> QED
    BY <1>2, <1>3, OwnersCut
<1>7. CASE o.inPlace
  <2>1. ds[Len(ds)] \in Cell
    BY <1>2, <1>3, ElementOfSeq
  <2>2. args = << ds[Len(ds)] >>
    <3>1. rest + 1 = Len(ds) /\ Len(ds) \in Nat /\ Len(ds) >= 1
      BY <1>2, <1>3, <1>7
    <3>2. args = SubSeq(ds, Len(ds), Len(ds))
      BY <3>1
    <3>3. SubSeq(ds, Len(ds), Len(ds)) = << ds[Len(ds)] >>
      BY <1>2, <2>1, <3>1, LastAlone
    <3> QED
      BY <3>2, <3>3
  <2>3. y = ds[Len(ds)]
    <3>1. y = args[1]
      BY <1>7 DEF OprResult
    <3> HIDE DEF y, args
    <3> QED
      BY <2>2, <3>1
  <2>4. Owned(<< y >>) = Owned(args)
    BY <2>2, <2>3
  <2>5. Owned(<< y >>) \intersect q = {} /\ q \union Owned(<< y >>) = pool
    BY <1>6, <2>4 DEF Freed
  <2>6. pool' = pool
    BY <1>5, <1>7 DEF OprPool
  <2>7. y \in Cell
    BY <2>1, <2>3
  <2> HIDE DEF y, q, rest
  <2>8. /\ Append(SubSeq(ds, 1, rest), y) \in Seq(Cell)
        /\ Owners(Append(SubSeq(ds, 1, rest), y), vt, q \union Owned(<< y >>))
    BY <1>2, <1>6, <2>5, <2>7, OwnersPush
  <2> QED
    BY <1>5, <2>5, <2>6, <2>8 DEF OwnInv
<1>8. CASE ~ o.inPlace
  <2>1. y = Num(Fresh) /\ pool' = Freed(pool \union {Fresh}, args)
    BY <1>5, <1>8 DEF OprResult, OprPool
  <2>2. y \in Cell /\ Owned(<< y >>) = {Fresh}
    BY <1>4, <2>1, PushedCells
  <2>3. Owned(<< y >>) \intersect q = {} /\ pool' = q \union Owned(<< y >>)
    BY <1>4, <1>6, <2>1, <2>2 DEF Freed
  <2> HIDE DEF y, q, rest
  <2>4. /\ Append(SubSeq(ds, 1, rest), y) \in Seq(Cell)
        /\ Owners(Append(SubSeq(ds, 1, rest), y), vt, q \union Owned(<< y >>))
    BY <1>2, <1>6, <2>2, <2>3, OwnersPush
  <2> QED
    BY <1>5, <2>3, <2>4 DEF OwnInv
<1> QED
  BY <1>7, <1>8

-------------------------------------------------------------------------------
(* The invariant is inductive. *)

(* It holds before the first run. *)
LEMMA InitOwnInv ==
  ASSUME Init
  PROVE  OwnInv
<1>1. Owned(<< >>) = {} /\ SoleOwner(<< >>)
  BY DEF Owned, SoleOwner
<1> QED
  BY <1>1, ImagesAssumption DEF Init, OwnInv, Owners

(* What a step leaves alone the invariant does not lose. *)
LEMMA SameStacks ==
  ASSUME OwnInv, code' = code, ds' = ds, vt' = vt, pool' = pool, rs' \in Seq(Frame)
  PROVE  OwnInv'
  BY DEF OwnInv

(* Every instruction keeps it, the ways to fail included. *)
LEMMA StepOwnInv ==
  ASSUME OwnInv, Step, code' = code
  PROVE  OwnInv'
<1> USE DEF Executing, ExecutingOneOf
<1>1. /\ ds \in Seq(Cell) /\ vt \in Seq(Cell) /\ rs \in Seq(Frame)
      /\ Owners(ds, vt, pool)
      /\ Len(vt) \in Nat /\ VarBase \in Nat
  BY Numbers DEF OwnInv
<1>2. CASE PopNull
  BY <1>1, <1>2, OwnersPop DEF PopNull, OwnInv
<1>3. CASE PopVar
  BY <1>1, <1>3, OwnersMove DEF PopVar, OwnInv
<1>4. CASE PushImm
  <2>1. Num(Fresh) \in Cell /\ Owned(<< Num(Fresh) >>) \subseteq {Fresh}
    BY <1>4, PushedCells DEF PushImm, PushCell
  <2> QED
    BY <1>4, <2>1, PushKeeps DEF PushImm
<1>5. CASE PushVar
  <2> DEFINE x == vt[Slot(Arg)]
             y == CellDup(x, Fresh)
  <2>1. p \in 1..Len(code) /\ Arg \in Nat
    BY <1>5, Numbers DEF PushVar
  <2>2. Slot(Arg) \in 1..Len(vt)
    BY <1>1, <1>5, <2>1 DEF PushVar, Slot
  <2>3. x \in Cell
    BY <1>1, <2>2, ElementOfSeq
  <2>4. CASE x.type = NUM
    <3>1. y = Num(Fresh)
      BY <2>4 DEF CellDup
    <3>2. y \in Cell /\ Owned(<< y >>) \subseteq {Fresh}
      BY <1>5, <3>1, PushedCells DEF PushVar, PushCell
    <3> HIDE DEF x, y
    <3>3. PushCell(y)
      BY <1>5 DEF PushVar, x, y
    <3> QED
      BY <1>5, <3>2, <3>3, PushKeeps DEF PushVar
  <2>5. CASE x.type # NUM
    <3>1. y = x
      BY <2>5 DEF CellDup
    <3>2. y \in Cell /\ Owned(<< y >>) \subseteq {Fresh}
      BY <2>3, <2>5, <3>1, OwnedOne
    <3> HIDE DEF x, y
    <3>3. PushCell(y)
      BY <1>5 DEF PushVar, x, y
    <3> QED
      BY <1>5, <3>2, <3>3, PushKeeps DEF PushVar
  <2> QED
    BY <2>4, <2>5
<1>6. CASE PushRemains
  <2>1. PICK x \in {Blk(a) : a \in Entries(code)} \union {Num(Fresh)} : PushCell(x)
    BY <1>6 DEF PushRemains, ReadsUnbound
  <2>2. Free # {}
    BY <2>1 DEF PushCell
  <2>3. x \in Cell /\ Owned(<< x >>) \subseteq {Fresh}
    BY <2>2, PushedCells DEF Entries
  <2> QED
    BY <1>6, <2>1, <2>3, PushKeeps DEF PushRemains, ReadsUnbound
<1>7. CASE PushBlock
  <2>1. Arg \in Nat
    BY <1>7, Numbers DEF PushBlock
  <2>2. Blk(Arg) \in Cell /\ Owned(<< Blk(Arg) >>) \subseteq {Fresh}
    BY <2>1, PushedCells
  <2> QED
    BY <1>7, <2>2, PushKeeps DEF PushBlock
<1>8. CASE Call
  BY <1>8, FrameKept, SameStacks DEF Call
<1>9. CASE Apply
  <2>1. rs' \in Seq(Frame)
    BY <1>9, FrameKept DEF Apply
  <2>2. Front(ds) \in Seq(Cell) /\ Owners(Front(ds), vt, pool)
    BY <1>9, BlockDropped DEF Apply
  <2> QED
    BY <1>1, <1>9, <2>1, <2>2 DEF Apply, OwnInv
<1>10. CASE ApplyFail
  <2>1. rs' \in Seq(Frame)
    BY <1>10, FrameKept DEF ApplyFail
  <2> QED
    BY <1>1, <1>10, <2>1, CutKeeps DEF ApplyFail, Fail
<1>11. CASE OprRun
  BY <1>11, OprKeeps
<1>12. CASE OprFail
  BY <1>1, <1>12, CutKeeps DEF OprFail, Fail
<1>13. CASE Ret
  <2>1. rs' \in Seq(Frame)
    BY <1>1, <1>13, FrontLast DEF Ret
  <2> QED
    BY <1>1, <1>13, <2>1, CutKeeps DEF Ret
<1>14. CASE RetEnd
  BY <1>1, <1>14, CutKeeps DEF RetEnd
<1>15. CASE TailCall
  BY <1>1, <1>15, CutKeeps DEF TailCall
<1>16. CASE TailApply
  <2> DEFINE n == VarBase
             cut == SubSeq(vt, n + 1, Len(vt))
  <2>1. Front(ds) \in Seq(Cell) /\ Owners(Front(ds), vt, pool)
    BY <1>16, BlockDropped DEF TailApply
  <2>2. /\ SubSeq(vt, 1, n) \in Seq(Cell)
        /\ Owners(SubSeq(vt, 1, n), Front(ds), Freed(pool, cut))
    <3>1. Owners(vt, Front(ds), pool)
      BY <2>1, OwnersSwap
    <3>2. n \in Nat /\ n <= Len(vt)
      BY <1>1, <1>16 DEF TailApply
    <3> HIDE DEF n
    <3> QED
      BY <1>1, <2>1, <3>1, <3>2, OwnersCut
  <2>3. Owners(Front(ds), SubSeq(vt, 1, n), Freed(pool, cut))
    BY <2>2, OwnersSwap
  <2>4. /\ ds' = Front(ds) /\ vt' = SubSeq(vt, 1, n)
        /\ pool' = Freed(pool, cut) /\ rs' = rs
    BY <1>16 DEF TailApply, CutVars
  <2> HIDE DEF n, cut
  <2> QED
    BY <1>1, <2>1, <2>2, <2>3, <2>4 DEF OwnInv
<1>17. CASE TailApplyFail
  BY <1>1, <1>17, CutKeeps DEF TailApplyFail, Fail
<1>18. CASE PopNothing \/ PushBadImm \/ PushNothing \/ BadFrame \/ FetchNothing
  BY <1>1, <1>18, SameStacks
     DEF PopNothing, PushBadImm, PushNothing, ReadsUnbound, BadFrame, FetchNothing, Fault
<1> QED
  BY <1>2, <1>3, <1>4, <1>5, <1>6, <1>7, <1>8, <1>9, <1>10, <1>11, <1>12, <1>13,
     <1>14, <1>15, <1>16, <1>17, <1>18 DEF Step

(* So does the host between runs, who also ends the context. *)
LEMMA HostOwnInv ==
  ASSUME OwnInv, Host, code' = code
  PROVE  OwnInv'
<1>1. /\ ds \in Seq(Cell) /\ vt \in Seq(Cell) /\ rs \in Seq(Frame)
      /\ Owners(ds, vt, pool)
      /\ Len(ds) \in Nat
  BY DEF OwnInv
<1>2. CASE HostPush
  <2>1. Num(Fresh) \in Cell /\ Owned(<< Num(Fresh) >>) \subseteq {Fresh}
    BY <1>2, PushedCells DEF HostPush, PushCell
  <2> QED
    BY <1>2, <2>1, PushKeeps DEF HostPush
<1>3. ASSUME NEW n \in 1..Len(ds), HostPop(n)
      PROVE  OwnInv'
  <2> DEFINE m == Len(ds) - n
  <2>1. m \in Nat /\ m <= Len(ds) /\ Len(ds) - n + 1 = m + 1
    BY <1>1
  <2>2. /\ ds' = SubSeq(ds, 1, m)
        /\ pool' = Freed(pool, SubSeq(ds, m + 1, Len(ds)))
        /\ rs' = rs /\ vt' = vt
    BY <1>3, <2>1 DEF HostPop
  <2> HIDE DEF m
  <2>3. /\ SubSeq(ds, 1, m) \in Seq(Cell)
        /\ Owners(SubSeq(ds, 1, m), vt, Freed(pool, SubSeq(ds, m + 1, Len(ds))))
    BY <1>1, <2>1, OwnersCut
  <2> QED
    BY <1>1, <1>3, <2>2, <2>3 DEF OwnInv
<1>4. CASE CtxFree
  <2>1. Owned(<< >>) = {} /\ SoleOwner(<< >>)
    BY DEF Owned, SoleOwner
  <2>2. /\ ds' = << >> /\ rs' = << >> /\ vt' = vt /\ vt = << >>
        /\ pool' = Freed(pool, ds)
    BY <1>4 DEF CtxFree
  <2>3. pool' = {}
    BY <1>1, <2>1, <2>2 DEF Owners, Freed
  <2>4. Owners(ds', vt', pool')
    BY <2>1, <2>2, <2>3 DEF Owners
  <2>5. << >> \in Seq(Cell) /\ << >> \in Seq(Frame)
    OBVIOUS
  <2> QED
    BY <1>4, <2>2, <2>4, <2>5 DEF OwnInv
<1> QED
  BY <1>2, <1>3, <1>4 DEF Host

(* A run starts with the stacks as they are, whatever was linked before it. *)
LEMMA RunOwnInv ==
  ASSUME OwnInv, NEW a, Run(a), code' \in Seq(Instruction)
  PROVE  OwnInv'
  BY DEF Run, OwnInv

(* Every step of the machine keeps the owners apart. *)
LEMMA NextOwnInv ==
  ASSUME OwnInv, [Next]_vars
  PROVE  OwnInv'
<1>1. CASE UNCHANGED vars
  BY <1>1 DEF vars, OwnInv
<1>2. ASSUME NEW a \in Entries(code), Run(a), code' = code
      PROVE  OwnInv'
  BY <1>2, RunOwnInv DEF OwnInv
<1> QED
  BY <1>1, <1>2, StepOwnInv, HostOwnInv DEF Next

(* The invariant says that every live number has one owner. *)
LEMMA OwnInvIsEnough ==
  ASSUME OwnInv
  PROVE  Ownership
  BY DEF OwnInv, Owners, Ownership

-------------------------------------------------------------------------------
(* The theorems. *)

(* Every live number has exactly one owner through every instruction, failure*)
(* and host operation: nothing leaks and nothing is freed twice.             *)
THEOREM OneOwner == Spec => []Ownership
<1>1. Init => OwnInv
  BY InitOwnInv
<1>2. OwnInv /\ [Next]_vars => OwnInv'
  BY NextOwnInv
<1>3. OwnInv => Ownership
  BY OwnInvIsEnough
<1> QED
  BY <1>1, <1>2, <1>3, PTL DEF Spec

(* SR_ctxFree gives every number back: none outlives the context.            *)
THEOREM NothingLeft == Spec => [][CtxFree => pool' = {}]_vars
<1>1. Init => OwnInv
  BY InitOwnInv
<1>2. OwnInv /\ [Next]_vars => OwnInv'
  BY NextOwnInv
<1>3. ASSUME OwnInv
      PROVE  CtxFree => pool' = {}
  <2>1. Owned(<< >>) = {}
    BY DEF Owned
  <2> QED
    BY <1>3, <2>1 DEF OwnInv, Owners, CtxFree, Freed
<1> QED
  BY <1>1, <1>2, <1>3, PTL DEF Spec
===============================================================================
