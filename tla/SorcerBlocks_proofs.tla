-------------------------- MODULE SorcerBlocks_proofs --------------------------
(***************************************************************************)
(* Proofs about SorcerLink and SorcerBlocks, for every block table, every  *)
(* set of payloads and every bound.                                        *)
(*                                                                         *)
(* The link lays the blocks out one after the other, so that what it       *)
(* appends to the code ends in Ret, jumps to entries only and has its tail *)
(* calls eliminated.  The layout flattens a sequence, so the proofs are by *)
(* induction on the number of blocks.                                      *)
(*                                                                         *)
(* Whatever is built, inlined, rolled back and linked in whatever order,   *)
(* variables are numbered as they are bound (SlotsInOrder), every block    *)
(* that is named is counted (NamedBlocksCounted), and what the code holds  *)
(* of a linked block is what the block says (FreshImage).  The first two   *)
(* are what makes the table one that SR_codeUpdate links soundly.          *)
(***************************************************************************)
EXTENDS SorcerBlocks, SequenceTheorems, WellFoundedInduction, FiniteSetTheorems, TLAPS

-------------------------------------------------------------------------------
(* Induction.  The theorems of the library that have the predicate as a      *)
(* parameter cannot be instantiated, so these are stated of a set.           *)

(* A set of numbers has a least one. *)
LEMMA LeastNumber ==
  ASSUME NEW T, T \subseteq Nat, T # {}
  PROVE  \E x \in T : \A y \in T : x <= y
<1> DEFINE R == OpToRel(<, Nat)
<1>1. IsWellFoundedOn(R, Nat)
  BY NatLessThanWellFounded
<1>2. \A x, y \in Nat : <<y, x>> \in R <=> y < x
  BY DEF OpToRel
<1> HIDE DEF R
<1>3. PICK x \in T : \A y \in T : ~ (<<y, x>> \in R)
  BY <1>1, WFMin
<1>4. \A y \in T : x <= y
  <2> TAKE y \in T
  <2>1. x \in Nat /\ y \in Nat
    OBVIOUS
  <2>2. ~ (y < x)
    BY <1>2, <1>3, <2>1
  <2> QED
    BY <2>1, <2>2
<1> QED
  BY <1>4

(* A set of numbers that holds 0 and with each number the next holds all. *)
LEMMA AllNumbers ==
  ASSUME NEW T, T \subseteq Nat, 0 \in T, \A n \in T : n + 1 \in T
  PROVE  T = Nat
<1> SUFFICES ASSUME Nat \ T # {} PROVE FALSE
  OBVIOUS
<1>1. PICK x \in Nat \ T : \A y \in Nat \ T : x <= y
  BY LeastNumber
<1>2. x - 1 \in Nat /\ x - 1 \notin Nat \ T
  BY <1>1
<1>3. x - 1 + 1 \in T
  BY <1>2
<1> QED
  BY <1>3

-------------------------------------------------------------------------------
(* Flattening a sequence of sequences. *)

(* What FlattenSeq computes for the first i sequences of s. *)
Flattens(s, f) ==
  f = [i \in 1..Len(s) |-> IF i = 1 THEN s[i] ELSE f[i - 1] \o s[i]]

FlattensUpto(s, n, f) == \A i \in 1..n : f[i] = IF i = 1 THEN s[i] ELSE f[i - 1] \o s[i]

(* The recursion has a solution, for ever longer prefixes of s. *)
LEMMA FlatteningExists ==
  ASSUME NEW S, NEW s \in Seq(Seq(S))
  PROVE  \E f \in [1..Len(s) -> Seq(S)] : Flattens(s, f)
<1> DEFINE T == { n \in Nat : n <= Len(s) => \E f \in [1..n -> Seq(S)] : FlattensUpto(s, n, f) }
<1>1. 0 \in T
  <2>1. [i \in 1..0 |-> << >>] \in [1..0 -> Seq(S)]
    OBVIOUS
  <2>2. \A f : FlattensUpto(s, 0, f)
    BY DEF FlattensUpto
  <2>3. \E f \in [1..0 -> Seq(S)] : FlattensUpto(s, 0, f)
    BY <2>1, <2>2
  <2> QED
    BY <2>3
<1>2. ASSUME NEW n \in T
      PROVE  n + 1 \in T
  <2>1. n \in Nat
    OBVIOUS
  <2>2. ASSUME n + 1 <= Len(s)
        PROVE  \E g \in [1..(n + 1) -> Seq(S)] : FlattensUpto(s, n + 1, g)
    <3>1. PICK f \in [1..n -> Seq(S)] : FlattensUpto(s, n, f)
      BY <2>1, <2>2
    <3> DEFINE x == IF n = 0 THEN s[1] ELSE f[n] \o s[n + 1]
               g == [i \in 1..(n + 1) |-> IF i = n + 1 THEN x ELSE f[i]]
    <3> HIDE DEF T
    <3>2. x \in Seq(S)
      <4>1. s[n + 1] \in Seq(S) /\ (n # 0 => f[n] \in Seq(S))
        BY <2>1, <2>2, ElementOfSeq
      <4> QED
        BY <2>1, <4>1, ConcatProperties
    <3> HIDE DEF x
    <3>3. g \in [1..(n + 1) -> Seq(S)]
      BY <2>1, <3>2
    <3>4. \A i \in 1..n : g[i] = f[i]
      BY <2>1
    <3>5. g[n + 1] = x
      BY <2>1
    <3> HIDE DEF g
    <3>6. ASSUME NEW i \in 1..(n + 1)
          PROVE  g[i] = IF i = 1 THEN s[i] ELSE g[i - 1] \o s[i]
      <4>1. CASE i = n + 1
        <5>1. n # 0 => n \in 1..n /\ i # 1
          BY <2>1, <4>1
        <5> QED
          BY <2>1, <3>4, <3>5, <4>1, <5>1 DEF x
      <4>2. CASE i \in 1..n
        <5>1. g[i] = IF i = 1 THEN s[i] ELSE f[i - 1] \o s[i]
          BY <3>1, <3>4, <4>2 DEF FlattensUpto
        <5>2. i # 1 => g[i - 1] = f[i - 1]
          <6>1. i # 1 => i - 1 \in 1..n
            BY <2>1, <4>2
          <6> QED
            BY <3>4, <6>1
        <5> QED
          BY <5>1, <5>2
      <4> QED
        BY <2>1, <4>1, <4>2
    <3> QED
      BY <3>3, <3>6 DEF FlattensUpto
  <2> QED
    BY <2>1, <2>2
<1>3. T = Nat
  <2>1. T \subseteq Nat
    OBVIOUS
  <2> HIDE DEF T
  <2> QED
    BY <1>1, <1>2, <2>1, AllNumbers
<1>4. PICK f \in [1..Len(s) -> Seq(S)] : FlattensUpto(s, Len(s), f)
  <2>1. Len(s) \in T
    BY <1>3
  <2> QED
    BY <2>1
<1>5. f = [i \in 1..Len(s) |-> IF i = 1 THEN s[i] ELSE f[i - 1] \o s[i]]
  BY <1>4 DEF FlattensUpto
<1> QED
  BY <1>5 DEF Flattens

(* A flattening, place by place. *)
LEMMA FlattensAt ==
  ASSUME NEW s, NEW f, Flattens(s, f)
  PROVE  \A i \in 1..Len(s) : f[i] = IF i = 1 THEN s[i] ELSE f[i - 1] \o s[i]
  BY DEF Flattens

SameUpto(s, t, n) == n <= Len(s) /\ n <= Len(t) /\ \A i \in 1..n : s[i] = t[i]

(* It is determined by the sequences it looks at.                            *)
LEMMA FlatteningAgrees ==
  ASSUME NEW s, NEW t, NEW n \in Nat, NEW f, NEW g,
         Len(s) \in Nat, Len(t) \in Nat, SameUpto(s, t, n), Flattens(s, f), Flattens(t, g)
  PROVE  \A i \in 1..n : f[i] = g[i]
<1> USE DEF SameUpto
<1> DEFINE T == { k \in Nat : k \in 1..n => f[k] = g[k] }
<1>1. /\ \A i \in 1..Len(s) : f[i] = IF i = 1 THEN s[i] ELSE f[i - 1] \o s[i]
      /\ \A i \in 1..Len(t) : g[i] = IF i = 1 THEN t[i] ELSE g[i - 1] \o t[i]
  BY FlattensAt
<1>2. 0 \in T
  OBVIOUS
<1>3. ASSUME NEW k \in T
      PROVE  k + 1 \in T
  BY <1>1
<1>4. T = Nat
  <2>1. T \subseteq Nat
    OBVIOUS
  <2> HIDE DEF T
  <2> QED
    BY <1>2, <1>3, <2>1, AllNumbers
<1> QED
  BY <1>4

(* FlattenSeq is the last value of such a flattening. *)
LEMMA FlattenSeqIs ==
  ASSUME NEW S, NEW s \in Seq(Seq(S)), s # << >>
  PROVE  \E f : /\ Flattens(s, f) /\ FlattenSeq(s) = f[Len(s)]
                /\ \A i \in 1..Len(s) : f[i] \in Seq(S)
<1> DEFINE f == CHOOSE f : Flattens(s, f)
<1>1. FlattenSeq(s) = f[Len(s)]
  BY EmptySeq DEF FlattenSeq, Flattens
<1>2. Flattens(s, f)
  BY FlatteningExists
<1> HIDE DEF f
<1>3. \A i \in 1..Len(s) : f[i] \in Seq(S)
  <2>1. PICK g \in [1..Len(s) -> Seq(S)] : Flattens(s, g)
    BY FlatteningExists
  <2>2. \A i \in 1..Len(s) : f[i] = g[i]
    <3>1. Len(s) \in Nat /\ SameUpto(s, s, Len(s))
      BY DEF SameUpto
    <3> QED
      BY <1>2, <2>1, <3>1, FlatteningAgrees
  <2> QED
    BY <2>1, <2>2
<1> QED
  BY <1>1, <1>2, <1>3

(* What FlattenSeq returns for nothing, and for one sequence more. *)
LEMMA FlattenEmpty == FlattenSeq(<< >>) = << >>
  BY DEF FlattenSeq

(* One sequence more is appended to what was flattened before. *)
LEMMA FlattenLonger ==
  ASSUME NEW S, NEW s, NEW t, NEW n \in Nat
  PROVE  /\ s \in Seq(Seq(S)) /\ t \in Seq(Seq(S)) /\ Len(s) = n /\ Len(t) = n + 1
         /\ SameUpto(s, t, n)
         => FlattenSeq(t) = FlattenSeq(s) \o t[n + 1]
<1>0. SUFFICES ASSUME /\ s \in Seq(Seq(S)) /\ t \in Seq(Seq(S))
                      /\ Len(s) = n /\ Len(t) = n + 1 /\ SameUpto(s, t, n)
               PROVE  FlattenSeq(t) = FlattenSeq(s) \o t[n + 1]
  OBVIOUS
<1>1. t # << >>
  BY <1>0, EmptySeq
<1>2. PICK g : Flattens(t, g) /\ FlattenSeq(t) = g[Len(t)]
  BY <1>0, <1>1, FlattenSeqIs
<1>3. g[n + 1] = IF n + 1 = 1 THEN t[n + 1] ELSE g[n + 1 - 1] \o t[n + 1]
  <2>1. n + 1 \in 1..Len(t)
    BY <1>0
  <2>2. \A i \in 1..Len(t) : g[i] = IF i = 1 THEN t[i] ELSE g[i - 1] \o t[i]
    BY <1>2, FlattensAt
  <2> QED
    BY <2>1, <2>2
<1>4. CASE s = << >>
  <2>1. n = 0
    BY <1>0, <1>4
  <2>2. t[1] \in Seq(S)
    BY <1>0, <2>1, ElementOfSeq
  <2>3. << >> \o t[1] = t[1]
    BY <2>2, ConcatEmptySeq
  <2> QED
    BY <1>0, <1>2, <1>3, <1>4, <2>1, <2>3, FlattenEmpty
<1>5. CASE s # << >>
  <2>1. n # 0
    BY <1>0, <1>5, EmptySeq
  <2>2. PICK f : Flattens(s, f) /\ FlattenSeq(s) = f[n]
    BY <1>0, <1>5, FlattenSeqIs
  <2>3. \A i \in 1..n : f[i] = g[i]
    <3>1. Len(s) \in Nat /\ Len(t) \in Nat
      BY <1>0
    <3>2. SameUpto(s, t, n)
      BY <1>0 DEF SameUpto
    <3>3. Flattens(s, f) /\ Flattens(t, g)
      BY <1>2, <2>2
    <3> QED
      BY <3>1, <3>2, <3>3, FlatteningAgrees
  <2>4. f[n] = g[n]
    BY <2>1, <2>3
  <2>5. g[n + 1] = g[n] \o t[n + 1]
    <3>1. n + 1 # 1 /\ n + 1 - 1 = n
      BY <2>1
    <3> QED
      BY <1>3, <3>1, Zenon
  <2> QED
    BY <1>0, <1>2, <2>2, <2>4, <2>5
<1> QED
  BY <1>4, <1>5

-------------------------------------------------------------------------------
(* The image of a block. *)

(* What block b contributes to the layout, and what lies before it. *)
Part(bt, e, b) == IF b \in Emitted(bt, e) THEN ImageOf(bt[b].code) ELSE << >>

Before(bt, e, b) == Len(Layout(bt, e, b - 1))

(* The image of a builder: its code, the last instruction as a tail call where *)
(* it is a call, and a Ret.                                                    *)
LEMMA ImageIs ==
  ASSUME NEW c \in Seq(Instruction)
  PROVE  /\ ImageOf(c) \in Seq(Instruction)
         /\ Len(ImageOf(c)) = Len(c) + 1
         /\ \A i \in 1..Len(c) : ImageOf(c)[i] = IF i = Len(c) THEN TailForm(c[i]) ELSE c[i]
         /\ ImageOf(c)[Len(c) + 1] = Inst("Ret", 0)
<1> DEFINE d == [i \in 1..Len(c) |-> IF i = Len(c) THEN TailForm(c[i]) ELSE c[i]]
           x == Inst("Ret", 0)
<1>1. x \in Instruction
  BY DEF Inst, Instruction, Opcodes
<1>2. ASSUME NEW i \in 1..Len(c)
      PROVE  d[i] \in Instruction
  <2>1. c[i] \in Instruction
    BY ElementOfSeq
  <2>2. TailForm(c[i]) \in Instruction
    BY <2>1 DEF TailForm, Instruction, Opcodes
  <2> QED
    BY <2>1, <2>2
<1>3. d \in Seq(Instruction) /\ Len(d) = Len(c)
  BY <1>2, IsASeq
<1>4. /\ Append(d, x) \in Seq(Instruction) /\ Len(Append(d, x)) = Len(c) + 1
      /\ \A i \in 1..Len(c) : Append(d, x)[i] = d[i]
      /\ Append(d, x)[Len(c) + 1] = x
  <2> HIDE DEF d, x
  <2> QED
    BY <1>1, <1>3, AppendProperties
<1>5. ImageOf(c) = Append(d, x)
  BY DEF ImageOf
<1> QED
  BY <1>4, <1>5

(* What a link emits for one block. *)
LEMMA PartIs ==
  ASSUME NEW bt \in Seq(BlockInfo), NEW e, NEW b \in 1..Len(bt)
  PROVE  Part(bt, e, b) \in Seq(Instruction) /\ bt[b].code \in Seq(Instruction)
<1>1. bt[b] \in BlockInfo
  BY ElementOfSeq
<1>2. bt[b].code \in Seq(Instruction)
  BY <1>1 DEF BlockInfo
<1> QED
  BY <1>2, ImageIs DEF Part

(* The layout grows by the image of one block, if the link emits it. *)
LEMMA LayoutNext ==
  ASSUME NEW bt \in Seq(BlockInfo), NEW e, NEW n \in Nat, n < Len(bt)
  PROVE  Layout(bt, e, n + 1) = Layout(bt, e, n) \o Part(bt, e, n + 1)
<1> DEFINE s == [b \in 1..n |-> Part(bt, e, b)]
           t == [b \in 1..(n + 1) |-> Part(bt, e, b)]
<1>1. \A b \in 1..(n + 1) : Part(bt, e, b) \in Seq(Instruction)
  <2>1. \A b \in 1..(n + 1) : b \in 1..Len(bt)
    OBVIOUS
  <2> QED
    BY <2>1, PartIs
<1>2. s \in Seq(Seq(Instruction)) /\ Len(s) = n
  BY <1>1, IsASeq
<1>3. t \in Seq(Seq(Instruction)) /\ Len(t) = n + 1
  BY <1>1, IsASeq
<1>4. SameUpto(s, t, n)
  BY <1>2, <1>3 DEF SameUpto
<1>5. t[n + 1] = Part(bt, e, n + 1)
  OBVIOUS
<1>6. Layout(bt, e, n) = FlattenSeq(s) /\ Layout(bt, e, n + 1) = FlattenSeq(t)
  BY DEF Layout, Part
<1> HIDE DEF s, t
<1>7. FlattenSeq(t) = FlattenSeq(s) \o t[n + 1]
  BY <1>2, <1>3, <1>4, FlattenLonger
<1> QED
  BY <1>5, <1>6, <1>7

(* The layout L of the first n blocks holds the image of each of them in its *)
(* place and nothing else, and ends in Ret if it is not empty.               *)
Holds(bt, e, n, L) ==
  \A b \in 1..n : \A i \in 1..Len(Part(bt, e, b)) :
    /\ Before(bt, e, b) + i \in 1..Len(L)
    /\ L[Before(bt, e, b) + i] = Part(bt, e, b)[i]

Covers(bt, e, n, L) ==
  \A a \in 1..Len(L) : \E b \in 1..n : \E i \in 1..Len(Part(bt, e, b)) :
    a = Before(bt, e, b) + i

EndsInRet(c) == c # << >> => c[Len(c)].op = "Ret"

Laid(bt, e, n, L) ==
  L \in Seq(Instruction) /\ Holds(bt, e, n, L) /\ Covers(bt, e, n, L) /\ EndsInRet(L)

(* One block more. *)
LEMMA LaidNext ==
  ASSUME NEW bt \in Seq(BlockInfo), NEW e, NEW n \in Nat, n < Len(bt),
         Laid(bt, e, n, Layout(bt, e, n))
  PROVE  Laid(bt, e, n + 1, Layout(bt, e, n + 1))
<1> DEFINE L == Layout(bt, e, n)
           M == Layout(bt, e, n + 1)
           P == Part(bt, e, n + 1)
<1>1. M = L \o P
  BY LayoutNext
<1>2. P \in Seq(Instruction) /\ bt[n + 1].code \in Seq(Instruction)
  <2>1. n + 1 \in 1..Len(bt)
    OBVIOUS
  <2> QED
    BY <2>1, PartIs
<1>3. /\ L \in Seq(Instruction) /\ Holds(bt, e, n, L) /\ Covers(bt, e, n, L)
      /\ EndsInRet(L)
  BY DEF Laid
<1>4. Before(bt, e, n + 1) = Len(L)
  BY DEF Before
<1>5. EndsInRet(P)
  <2>1. CASE n + 1 \in Emitted(bt, e)
    <3>1. P = ImageOf(bt[n + 1].code)
      BY <2>1 DEF Part
    <3>2. /\ Len(P) = Len(bt[n + 1].code) + 1
          /\ P[Len(bt[n + 1].code) + 1] = Inst("Ret", 0)
      BY <1>2, <3>1, ImageIs
    <3> QED
      BY <3>2 DEF EndsInRet, Inst
  <2>2. CASE n + 1 \notin Emitted(bt, e)
    BY <2>2 DEF Part, EndsInRet
  <2> QED
    BY <2>1, <2>2
<1> HIDE DEF L, M, P
<1>6. /\ M \in Seq(Instruction) /\ Len(M) = Len(L) + Len(P)
      /\ \A i \in 1..Len(L) : M[i] = L[i]
      /\ \A i \in 1..Len(P) : M[Len(L) + i] = P[i]
      /\ Len(L) \in Nat /\ Len(P) \in Nat
  <2>1. /\ M \in Seq(Instruction) /\ Len(M) = Len(L) + Len(P)
        /\ \A i \in 1..(Len(L) + Len(P)) :
             M[i] = IF i <= Len(L) THEN L[i] ELSE P[i - Len(L)]
    BY <1>1, <1>2, <1>3, ConcatProperties
  <2>2. Len(L) \in Nat /\ Len(P) \in Nat
    BY <1>2, <1>3
  <2>3. ASSUME NEW i \in 1..Len(P)
        PROVE  M[Len(L) + i] = P[i]
    <3>1. /\ Len(L) + i \in 1..(Len(L) + Len(P)) /\ ~ (Len(L) + i <= Len(L))
          /\ Len(L) + i - Len(L) = i
      BY <2>2
    <3> QED
      BY <2>1, <3>1
  <2> QED
    BY <2>1, <2>2, <2>3
<1>7. ASSUME NEW b \in 1..(n + 1), NEW i \in 1..Len(Part(bt, e, b))
      PROVE  /\ Before(bt, e, b) + i \in 1..Len(M)
             /\ M[Before(bt, e, b) + i] = Part(bt, e, b)[i]
  <2>1. CASE b \in 1..n
    <3> DEFINE k == Before(bt, e, b) + i
    <3>1. k \in 1..Len(L) /\ L[k] = Part(bt, e, b)[i]
      BY <1>3, <2>1 DEF Holds
    <3> HIDE DEF k
    <3>2. k \in 1..Len(M) /\ M[k] = Part(bt, e, b)[i]
      BY <1>6, <3>1
    <3> QED
      BY <3>2 DEF k
  <2>2. CASE b = n + 1
    <3>1. i \in 1..Len(P) /\ Part(bt, e, b) = P /\ Before(bt, e, b) = Len(L)
      BY <1>4, <2>2 DEF P
    <3> QED
      BY <1>6, <3>1
  <2> QED
    BY <2>1, <2>2
<1>8. ASSUME NEW a \in 1..Len(M)
      PROVE  \E b \in 1..(n + 1) : \E i \in 1..Len(Part(bt, e, b)) :
               a = Before(bt, e, b) + i
  <2>1. CASE a \in 1..Len(L)
    <3>1. PICK b \in 1..n : \E i \in 1..Len(Part(bt, e, b)) : a = Before(bt, e, b) + i
      BY <1>3, <2>1 DEF Covers
    <3>2. b \in 1..(n + 1)
      OBVIOUS
    <3> QED
      BY <3>1, <3>2
  <2>2. CASE a \notin 1..Len(L)
    <3>1. a - Len(L) \in 1..Len(P) /\ a = Len(L) + (a - Len(L))
      BY <1>6, <2>2
    <3>2. n + 1 \in 1..(n + 1)
      OBVIOUS
    <3> QED
      BY <1>4, <3>1, <3>2 DEF P
  <2> QED
    BY <2>1, <2>2
<1>9. EndsInRet(M)
  <2>1. CASE P = << >>
    <3>1. M = L
      BY <1>1, <1>3, <2>1, ConcatEmptySeq
    <3> QED
      BY <1>3, <3>1
  <2>2. CASE P # << >>
    <3>1. Len(P) # 0 /\ P[Len(P)].op = "Ret"
      BY <1>2, <1>5, <2>2, EmptySeq DEF EndsInRet
    <3>2. M[Len(M)] = P[Len(P)]
      BY <1>6, <3>1
    <3> QED
      BY <3>1, <3>2 DEF EndsInRet
  <2> QED
    BY <2>1, <2>2
<1>10. Holds(bt, e, n + 1, M) /\ Covers(bt, e, n + 1, M)
  BY <1>7, <1>8 DEF Holds, Covers
<1>11. Laid(bt, e, n + 1, M)
  BY <1>6, <1>9, <1>10 DEF Laid
<1> QED
  BY <1>11 DEF M

(* Every prefix of the block table is laid out this way. *)
LEMMA LaidOut ==
  ASSUME NEW bt \in Seq(BlockInfo), NEW e, NEW n \in Nat, n <= Len(bt)
  PROVE  Laid(bt, e, n, Layout(bt, e, n))
<1> DEFINE T == { k \in Nat : k <= Len(bt) => Laid(bt, e, k, Layout(bt, e, k)) }
<1>1. 0 \in T
  <2>1. Layout(bt, e, 0) = << >>
    <3>1. [b \in 1..0 |-> IF b \in Emitted(bt, e) THEN ImageOf(bt[b].code) ELSE << >>]
            = << >>
      OBVIOUS
    <3> QED
      BY <3>1, FlattenEmpty DEF Layout
  <2>2. Laid(bt, e, 0, << >>)
    BY DEF Laid, Holds, Covers, EndsInRet
  <2> QED
    BY <2>1, <2>2
<1>2. ASSUME NEW k \in T
      PROVE  k + 1 \in T
  BY LaidNext
<1>3. T = Nat
  <2>1. T \subseteq Nat
    OBVIOUS
  <2> HIDE DEF T
  <2> QED
    BY <1>1, <1>2, <2>1, AllNumbers
<1> QED
  BY <1>3

-------------------------------------------------------------------------------
(* The link. *)

(* What the second loop of SR_codeUpdate makes of one instruction. *)
Resolve(bt, x) ==
  IF x.op \in {"PushBlock", "Call", "TailCall"}
  THEN [x EXCEPT !.arg = IF x.arg \in 1..Len(bt) THEN bt[x.arg].base ELSE Wild]
  ELSE x

(* The table the builders leave: no instruction that only a link emits, and  *)
(* every block that is named is counted.                                     *)
SourceInst(bt, x) ==
  /\ x.op \notin {"Ret", "TailCall", "TailApply"}
  /\ x.op \in {"PushBlock", "Call"} => x.arg \in 1..Len(bt) /\ bt[x.arg].calleeCount > 0

SourceTable(bt) ==
  \A b \in 1..Len(bt) : \A i \in 1..Len(bt[b].code) : SourceInst(bt, bt[b].code[i])

(* The number of instructions emitted before a block. *)
LEMMA BeforeNat ==
  ASSUME NEW bt \in Seq(BlockInfo), NEW e, NEW b \in 1..Len(bt)
  PROVE  Before(bt, e, b) \in Nat
<1>1. b - 1 \in Nat /\ b - 1 <= Len(bt)
  OBVIOUS
<1>2. Layout(bt, e, b - 1) \in Seq(Instruction)
  BY <1>1, LaidOut DEF Laid
<1> QED
  BY <1>2 DEF Before

(* A link gives every block it emits its start, and leaves the rest of it. *)
LEMMA RebasedIs ==
  ASSUME NEW bt \in Seq(BlockInfo), NEW old \in Seq(Instruction), NEW e
  PROVE  /\ Rebased(old, bt, e) \in Seq(BlockInfo)
         /\ Len(Rebased(old, bt, e)) = Len(bt)
         /\ \A b \in 1..Len(bt) :
              /\ Rebased(old, bt, e)[b].code = bt[b].code
              /\ Rebased(old, bt, e)[b].varCount = bt[b].varCount
              /\ Rebased(old, bt, e)[b].calleeCount = bt[b].calleeCount
              /\ b \in Emitted(bt, e) =>
                   Rebased(old, bt, e)[b].base = Len(old) + Before(bt, e, b) + 1
<1> DEFINE R == Rebased(old, bt, e)
<1>1. ASSUME NEW b \in 1..Len(bt)
      PROVE  /\ R[b] \in BlockInfo
             /\ R[b].code = bt[b].code /\ R[b].varCount = bt[b].varCount
             /\ R[b].calleeCount = bt[b].calleeCount
             /\ b \in Emitted(bt, e) => R[b].base = Len(old) + Before(bt, e, b) + 1
  <2> DEFINE x == bt[b]
             n == Len(old) + Before(bt, e, b) + 1
  <2>1. n \in Nat
    <3>1. Before(bt, e, b) \in Nat /\ Len(old) \in Nat
      BY BeforeNat
    <3> QED
      BY <3>1
  <2>2. x \in BlockInfo
    BY ElementOfSeq
  <2>3. R[b] = IF b \in Emitted(bt, e) THEN [x EXCEPT !.base = n] ELSE x
    BY DEF Rebased, Before
  <2> HIDE DEF R, x, n
  <2>4. CASE b \in Emitted(bt, e)
    <3> DEFINE y == [x EXCEPT !.base = n]
    <3>1. /\ y \in BlockInfo /\ y.base = n /\ y.code = x.code
          /\ y.varCount = x.varCount /\ y.calleeCount = x.calleeCount
      BY <2>1, <2>2 DEF BlockInfo
    <3> HIDE DEF y
    <3> QED
      BY <2>3, <2>4, <3>1 DEF x, y, n
  <2>5. CASE b \notin Emitted(bt, e)
    BY <2>2, <2>3, <2>5 DEF x
  <2> QED
    BY <2>4, <2>5
<1> HIDE DEF R
<1>2. R \in Seq(BlockInfo) /\ Len(R) = Len(bt)
  <2> DEFINE F(b) == IF b \in Emitted(bt, e)
                     THEN [bt[b] EXCEPT !.base = Len(old) + Len(Layout(bt, e, b - 1)) + 1]
                     ELSE bt[b]
  <2>1. R = [b \in 1..Len(bt) |-> F(b)]
    BY DEF R, Rebased
  <2>2. \A b \in 1..Len(bt) : F(b) \in BlockInfo
    BY <1>1, <2>1
  <2>3. Len(bt) \in Nat
    OBVIOUS
  <2> HIDE DEF F
  <2> QED
    BY <2>1, <2>2, <2>3, IsASeq
<1> QED
  BY <1>1, <1>2 DEF R

(* The code after a link: the old instructions keep their opcodes, and the   *)
(* image of every emitted block follows, resolved.                           *)
LinkedIs(c, bt, old, e) ==
  /\ c \in Seq(Instruction)
  /\ Len(c) = Len(old) + Len(Layout(bt, e, Len(bt)))
  /\ \A a \in 1..Len(old) : c[a].op = old[a].op
  /\ \A a \in 1..Len(Layout(bt, e, Len(bt))) :
       c[Len(old) + a] = Resolve(Rebased(old, bt, e), Layout(bt, e, Len(bt))[a])

(* Resolving a call keeps the opcode. *)
LEMMA ResolveType ==
  ASSUME NEW rb \in Seq(BlockInfo), NEW x \in Instruction
  PROVE  Resolve(rb, x) \in Instruction /\ Resolve(rb, x).op = x.op
<1>1. x.op \in Opcodes /\ x.arg \in Nat
  BY DEF Instruction
<1>2. x.arg \in 1..Len(rb) => rb[x.arg].base \in Nat
  <2> SUFFICES ASSUME x.arg \in 1..Len(rb) PROVE rb[x.arg].base \in Nat
    OBVIOUS
  <2>1. rb[x.arg] \in BlockInfo
    BY ElementOfSeq
  <2> QED
    BY <2>1 DEF BlockInfo
<1> QED
  BY <1>1, <1>2 DEF Resolve, Instruction, Wild

(* The linked image, in the terms the proofs use. *)
LEMMA LinkedHolds ==
  ASSUME NEW bt \in Seq(BlockInfo), NEW old \in Seq(Instruction), NEW e
  PROVE  LinkedIs(Linked(old, bt, e), bt, old, e)
<1> DEFINE L  == Layout(bt, e, Len(bt))
           rb == Rebased(old, bt, e)
           d  == old \o L
           c  == Linked(old, bt, e)
<1>1. L \in Seq(Instruction)
  <2>1. Len(bt) \in Nat /\ Len(bt) <= Len(bt)
    OBVIOUS
  <2> QED
    BY <2>1, LaidOut DEF Laid
<1>2. rb \in Seq(BlockInfo)
  BY RebasedIs
<1>3. c = [a \in 1..Len(d) |-> Resolve(rb, d[a])]
  BY DEF Linked, Resolved, Resolve
<1> HIDE DEF L, rb, c
<1>4. /\ d \in Seq(Instruction) /\ Len(d) = Len(old) + Len(L)
      /\ \A a \in 1..(Len(old) + Len(L)) :
           d[a] = IF a <= Len(old) THEN old[a] ELSE L[a - Len(old)]
      /\ Len(old) \in Nat /\ Len(L) \in Nat
  BY <1>1, ConcatProperties
<1> HIDE DEF d
<1>5. \A a \in 1..Len(d) : Resolve(rb, d[a]) \in Instruction /\ Resolve(rb, d[a]).op = d[a].op
  <2>1. \A a \in 1..Len(d) : d[a] \in Instruction
    BY <1>4, ElementOfSeq
  <2> QED
    BY <1>2, <2>1, ResolveType
<1>6. c \in Seq(Instruction) /\ Len(c) = Len(d)
  BY <1>3, <1>4, <1>5, IsASeq
<1>7. \A a \in 1..Len(d) : c[a] = Resolve(rb, d[a])
  BY <1>3
<1>8. ASSUME NEW a \in 1..Len(old)
      PROVE  c[a].op = old[a].op
  <2>1. a \in 1..Len(d) /\ d[a] = old[a]
    BY <1>4
  <2> QED
    BY <1>5, <1>7, <2>1
<1>9. ASSUME NEW a \in 1..Len(L)
      PROVE  c[Len(old) + a] = Resolve(rb, L[a])
  <2>1. /\ Len(old) + a \in 1..Len(d) /\ ~ (Len(old) + a <= Len(old))
        /\ Len(old) + a - Len(old) = a
    BY <1>4
  <2>2. d[Len(old) + a] = L[a]
    BY <1>4, <2>1
  <2> QED
    BY <1>7, <2>1, <2>2
<1> QED
  BY <1>4, <1>6, <1>8, <1>9 DEF LinkedIs, L, rb, c

(* Where the link puts instruction i of block b. *)
Place(old, bt, e, b, i) == Len(old) + Before(bt, e, b) + i

(* The place an instruction of a block gets in the image, *)
LEMMA PlaceHolds ==
  ASSUME NEW bt \in Seq(BlockInfo), NEW old \in Seq(Instruction), NEW e, NEW c,
         LinkedIs(c, bt, old, e), NEW b \in Emitted(bt, e),
         NEW i \in 1..Len(ImageOf(bt[b].code))
  PROVE  /\ Place(old, bt, e, b, i) \in (Len(old) + 1)..Len(c)
         /\ c[Place(old, bt, e, b, i)] =
              Resolve(Rebased(old, bt, e), ImageOf(bt[b].code)[i])
<1> DEFINE L == Layout(bt, e, Len(bt))
           a == Before(bt, e, b) + i
<1>1. Len(bt) \in Nat /\ Len(bt) <= Len(bt) /\ Len(old) \in Nat
  OBVIOUS
<1>2. Laid(bt, e, Len(bt), L)
  BY <1>1, LaidOut
<1>3. b \in 1..Len(bt) /\ Part(bt, e, b) = ImageOf(bt[b].code)
  BY DEF Emitted, Part
<1>4. a \in 1..Len(L) /\ L[a] = ImageOf(bt[b].code)[i]
  BY <1>2, <1>3 DEF Laid, Holds
<1>5. Len(L) \in Nat
  BY <1>2 DEF Laid
<1>6. Before(bt, e, b) \in Nat /\ i \in Int
  BY <1>3, BeforeNat
<1>7. Place(old, bt, e, b, i) = Len(old) + a
  BY <1>1, <1>6 DEF Place
<1> HIDE DEF L, a
<1>8. Len(c) = Len(old) + Len(L) /\ c[Len(old) + a] = Resolve(Rebased(old, bt, e), L[a])
  BY <1>4 DEF LinkedIs, L
<1> QED
  BY <1>1, <1>4, <1>5, <1>7, <1>8

(* and the block and the instruction a place of the new part comes from. *)
LEMMA PlaceFound ==
  ASSUME NEW bt \in Seq(BlockInfo), NEW old \in Seq(Instruction), NEW e, NEW c,
         LinkedIs(c, bt, old, e), NEW a \in (Len(old) + 1)..Len(c)
  PROVE  \E b \in Emitted(bt, e) : \E i \in 1..Len(ImageOf(bt[b].code)) :
           a = Place(old, bt, e, b, i)
<1> DEFINE L == Layout(bt, e, Len(bt))
           k == a - Len(old)
<1>1. Len(bt) \in Nat /\ Len(bt) <= Len(bt) /\ Len(old) \in Nat
  OBVIOUS
<1>2. Laid(bt, e, Len(bt), L)
  BY <1>1, LaidOut
<1>3. Len(c) = Len(old) + Len(L)
  BY DEF LinkedIs
<1>4. k \in 1..Len(L) /\ a = Len(old) + k
  BY <1>1, <1>2, <1>3 DEF Laid
<1> HIDE DEF L, k
<1>5. PICK b \in 1..Len(bt) : \E i \in 1..Len(Part(bt, e, b)) : k = Before(bt, e, b) + i
  BY <1>2, <1>4 DEF Laid, Covers
<1>6. PICK i \in 1..Len(Part(bt, e, b)) : k = Before(bt, e, b) + i
  BY <1>5
<1>7. b \in Emitted(bt, e)
  <2>1. Part(bt, e, b) # << >>
    OBVIOUS
  <2> QED
    BY <2>1 DEF Part
<1>8. Part(bt, e, b) = ImageOf(bt[b].code)
  BY <1>7 DEF Part
<1>9. a = Place(old, bt, e, b, i)
  <2>1. Before(bt, e, b) \in Nat /\ i \in Int
    BY BeforeNat
  <2> QED
    BY <1>1, <1>4, <1>6, <2>1 DEF Place
<1> QED
  BY <1>7, <1>8, <1>9

(* The link changes no opcode. *)
LEMMA PlaceOp ==
  ASSUME NEW bt \in Seq(BlockInfo), NEW old \in Seq(Instruction), NEW e, NEW c,
         LinkedIs(c, bt, old, e), NEW b \in Emitted(bt, e),
         NEW i \in 1..Len(ImageOf(bt[b].code))
  PROVE  c[Place(old, bt, e, b, i)].op = ImageOf(bt[b].code)[i].op
<1>1. b \in 1..Len(bt)
  BY DEF Emitted
<1>2. bt[b].code \in Seq(Instruction)
  BY <1>1, PartIs
<1>3. ImageOf(bt[b].code) \in Seq(Instruction)
  BY <1>2, ImageIs
<1>4. ImageOf(bt[b].code)[i] \in Instruction
  BY <1>3, ElementOfSeq
<1>5. Rebased(old, bt, e) \in Seq(BlockInfo)
  BY RebasedIs
<1> QED
  BY <1>4, <1>5, PlaceHolds, ResolveType

(* The base a link gives a block is an entry: what lies before it is the Ret *)
(* of another block, or of an older link, or nothing.                        *)
LEMMA BlockStarts ==
  ASSUME NEW bt \in Seq(BlockInfo), NEW old \in Seq(Instruction), NEW e, NEW c,
         LinkedIs(c, bt, old, e), EndsInRet(old), NEW b \in Emitted(bt, e)
  PROVE  /\ Rebased(old, bt, e)[b].base = Place(old, bt, e, b, 1)
         /\ Rebased(old, bt, e)[b].base \in EntriesFrom(c, Len(old) + 1)
<1> DEFINE n == Before(bt, e, b)
           k == Len(old)
           M == Layout(bt, e, b - 1)
<1>1. b \in 1..Len(bt) /\ k \in Nat
  BY DEF Emitted
<1>2. n \in Nat
  BY <1>1, BeforeNat
<1>3. Rebased(old, bt, e)[b].base = k + n + 1
  <2>1. \A x \in 1..Len(bt) : x \in Emitted(bt, e) =>
          Rebased(old, bt, e)[x].base = Len(old) + Before(bt, e, x) + 1
    BY RebasedIs
  <2> QED
    BY <1>1, <2>1
<1>4. 1 \in 1..Len(ImageOf(bt[b].code))
  <2> DEFINE src == bt[b].code
  <2>1. src \in Seq(Instruction)
    BY <1>1, PartIs
  <2> HIDE DEF src
  <2>2. Len(ImageOf(src)) = Len(src) + 1 /\ Len(src) \in Nat
    BY <2>1, ImageIs
  <2>3. 1 \in 1..Len(ImageOf(src))
    BY <2>2
  <2> QED
    BY <2>3 DEF src
<1>5. Place(old, bt, e, b, 1) = k + n + 1
  BY DEF Place
<1>6. k + n + 1 \in (k + 1)..Len(c) /\ Len(c) \in Nat
  <2>1. Place(old, bt, e, b, 1) \in (Len(old) + 1)..Len(c)
    BY <1>4, PlaceHolds
  <2>2. Len(c) \in Nat
    BY DEF LinkedIs
  <2> HIDE DEF n
  <2> QED
    BY <1>5, <2>1, <2>2
<1>7. n # 0 => c[k + n].op = "Ret"
  <2> SUFFICES ASSUME n # 0 PROVE c[k + n].op = "Ret"
    OBVIOUS
  <2>1. Laid(bt, e, b - 1, M)
    <3>1. b - 1 \in Nat /\ b - 1 <= Len(bt)
      BY <1>1
    <3> QED
      BY <3>1, LaidOut
  <2>2. n = Len(M) /\ M # << >>
    <3>1. n = Len(M)
      BY DEF Before
    <3>2. M \in Seq(Instruction)
      BY <2>1 DEF Laid
    <3> HIDE DEF M, n
    <3> QED
      BY <3>1, <3>2
  <2> HIDE DEF M, n
  <2>3. M[n].op = "Ret" /\ n \in 1..Len(M)
    BY <1>2, <2>1, <2>2 DEF Laid, EndsInRet
  <2>4. PICK d \in 1..(b - 1) : \E i \in 1..Len(Part(bt, e, d)) : n = Before(bt, e, d) + i
    BY <2>1, <2>3 DEF Laid, Covers
  <2>5. PICK i \in 1..Len(Part(bt, e, d)) : n = Before(bt, e, d) + i
    BY <2>4
  <2>6. M[Before(bt, e, d) + i] = Part(bt, e, d)[i]
    BY <2>1, <2>5 DEF Laid, Holds
  <2>7. d \in Emitted(bt, e) /\ d \in 1..Len(bt)
    <3>1. d \in 1..Len(bt) /\ Part(bt, e, d) # << >>
      BY <1>1
    <3> QED
      BY <3>1 DEF Part
  <2>8. Part(bt, e, d) = ImageOf(bt[d].code)
    BY <2>7 DEF Part
  <2>9. c[Place(old, bt, e, d, i)].op = Part(bt, e, d)[i].op
    BY <2>7, <2>8, PlaceOp
  <2>10. Place(old, bt, e, d, i) = k + n
    <3>1. Before(bt, e, d) \in Nat /\ i \in Int
      BY <2>7, BeforeNat
    <3> QED
      BY <1>1, <2>5, <3>1 DEF Place
  <2> QED
    BY <2>3, <2>5, <2>6, <2>9, <2>10
<1>8. n = 0 /\ k # 0 => c[k].op = "Ret"
  <2>1. k # 0 => old # << >> /\ k \in 1..Len(old)
    BY <1>1
  <2> QED
    BY <2>1 DEF LinkedIs, EndsInRet
<1> HIDE DEF n, k
<1>9. k + n + 1 \in Entries(c)
  <2>1. k + n + 1 - 1 = k + n
    BY <1>1, <1>2
  <2>2. k + n + 1 = 1 \/ c[k + n].op = "Ret"
    BY <1>1, <1>2, <1>7, <1>8
  <2> QED
    BY <1>1, <1>2, <1>6, <2>1, <2>2 DEF Entries
<1> QED
  BY <1>1, <1>2, <1>3, <1>5, <1>9 DEF EntriesFrom, k

(***************************************************************************)
(* SR_codeUpdate leaves an image from which control cannot fall or jump:   *)
(* whatever lies before it, the image starts at an entry, ends in Ret, and *)
(* what it calls or pushes is the entry of one of its own blocks.          *)
(***************************************************************************)
THEOREM LinkSound ==
  ASSUME NEW bt \in Seq(BlockInfo), SourceTable(bt), NEW e \in 1..Len(bt),
         NEW old \in Seq(Instruction), EndsInRet(old)
  PROVE  LinkageFrom(Linked(old, bt, e), Len(old) + 1)
<1> DEFINE c == Linked(old, bt, e)
           L == Layout(bt, e, Len(bt))
           R == Rebased(old, bt, e)
           s == Len(old) + 1
<1>1. LinkedIs(c, bt, old, e)
  BY LinkedHolds
<1>2. e \in Emitted(bt, e) /\ Len(old) \in Nat
  BY DEF Emitted
<1> HIDE DEF c
<1>3. /\ L \in Seq(Instruction) /\ EndsInRet(L) /\ L # << >>
      /\ Len(c) = Len(old) + Len(L)
  <2>1. Len(bt) \in Nat /\ Len(bt) <= Len(bt)
    OBVIOUS
  <2>2. L \in Seq(Instruction) /\ EndsInRet(L)
    BY <2>1, LaidOut DEF Laid
  <2>3. Len(c) = Len(old) + Len(L)
    BY <1>1 DEF LinkedIs
  <2>4. R[e].base \in EntriesFrom(c, s)
    BY <1>1, <1>2, BlockStarts
  <2>5. EntriesFrom(c, s) \subseteq s..Len(c)
    BY <1>2 DEF EntriesFrom, Entries
  <2> HIDE DEF L, R
  <2>6. L # << >>
    BY <1>2, <2>3, <2>4, <2>5
  <2> QED
    BY <2>2, <2>3, <2>6
<1>4. c[Len(c)].op = "Ret"
  <2>1. Len(L) \in 1..Len(L) /\ L[Len(L)].op = "Ret" /\ L[Len(L)] \in Instruction
    BY <1>3, ElementOfSeq DEF EndsInRet
  <2>2. c[Len(old) + Len(L)] = Resolve(R, L[Len(L)])
    BY <1>1, <2>1 DEF LinkedIs
  <2>3. R \in Seq(BlockInfo)
    BY RebasedIs
  <2> QED
    BY <1>3, <2>1, <2>2, <2>3, ResolveType
<1>5. s \in Entries(c)
  <2>1. s \in 1..Len(c)
    <3> HIDE DEF L
    <3> QED
      BY <1>2, <1>3
  <2>2. s = 1 \/ c[s - 1].op = "Ret"
    <3>1. Len(old) # 0 => old # << >> /\ Len(old) \in 1..Len(old)
      BY <1>2
    <3> QED
      BY <1>1, <1>2, <3>1 DEF LinkedIs, EndsInRet
  <2> QED
    BY <2>1, <2>2 DEF Entries
<1>6. ASSUME NEW a \in s..Len(c), c[a].op \in {"PushBlock", "Call", "TailCall"}
      PROVE  c[a].arg \in EntriesFrom(c, s)
  <2>0. PICK b \in Emitted(bt, e) : \E i \in 1..Len(ImageOf(bt[b].code)) :
               a = Place(old, bt, e, b, i)
    BY <1>1, PlaceFound
  <2>1. PICK i \in 1..Len(ImageOf(bt[b].code)) : a = Place(old, bt, e, b, i)
    BY <2>0
  <2> DEFINE src == bt[b].code
             x   == ImageOf(src)[i]
  <2>2. c[a] = Resolve(R, x) /\ c[a].op = x.op
    BY <1>1, <2>1, PlaceHolds, PlaceOp
  <2>3. src \in Seq(Instruction) /\ b \in 1..Len(bt)
    BY PartIs DEF Emitted
  <2>4. /\ Len(ImageOf(src)) = Len(src) + 1
        /\ i \in 1..Len(src) => x = IF i = Len(src) THEN TailForm(src[i]) ELSE src[i]
        /\ i = Len(src) + 1 => x.op = "Ret"
    <3> HIDE DEF src
    <3>1. /\ Len(ImageOf(src)) = Len(src) + 1
          /\ \A j \in 1..Len(src) :
               ImageOf(src)[j] = IF j = Len(src) THEN TailForm(src[j]) ELSE src[j]
          /\ ImageOf(src)[Len(src) + 1] = Inst("Ret", 0)
      BY <2>3, ImageIs
    <3>2. Inst("Ret", 0).op = "Ret"
      BY DEF Inst
    <3> QED
      BY <3>1, <3>2
  <2>5. i \in 1..Len(src) /\ (x = TailForm(src[i]) \/ x = src[i])
    <3>1. i # Len(src) + 1
      BY <1>6, <2>2, <2>4
    <3>2. i \in 1..(Len(src) + 1) /\ Len(src) \in Nat
      BY <2>3, <2>4
    <3> HIDE DEF src, x
    <3> QED
      BY <2>4, <3>1, <3>2
  <2> DEFINE y == src[i]
  <2>6. y \in Instruction
    BY <2>3, <2>5, ElementOfSeq
  <2>7. /\ y.op \notin {"Ret", "TailCall", "TailApply"}
        /\ y.op \in {"PushBlock", "Call"} =>
             y.arg \in 1..Len(bt) /\ bt[y.arg].calleeCount > 0
    BY <2>3, <2>5 DEF SourceTable, SourceInst
  <2>8. x.arg = y.arg /\ y.op \in {"PushBlock", "Call"}
    <3>1. x = TailForm(y) \/ x = y
      BY <2>5
    <3>2. x.op \in {"PushBlock", "Call", "TailCall"}
      BY <1>6, <2>2
    <3> HIDE DEF x, y
    <3> QED
      BY <2>6, <2>7, <3>1, <3>2 DEF TailForm, Instruction
  <2>9. y.arg \in Emitted(bt, e) /\ y.arg \in 1..Len(R)
    <3>1. Len(R) = Len(bt)
      BY RebasedIs
    <3> QED
      BY <2>7, <2>8, <3>1 DEF Emitted
  <2>10. R[y.arg].base \in EntriesFrom(c, s)
    BY <1>1, <2>9, BlockStarts
  <2>11. c[a].arg = R[y.arg].base
    <3>1. x.op \in {"PushBlock", "Call", "TailCall"}
      BY <1>6, <2>2
    <3>2. x \in Instruction
      BY <2>3, <2>4, ImageIs, ElementOfSeq
    <3> HIDE DEF x, y, R
    <3> QED
      BY <2>2, <2>8, <2>9, <3>1, <3>2 DEF Resolve, Instruction
  <2> QED
    BY <2>10, <2>11
<1>7. LinkageFrom(c, s)
  BY <1>4, <1>5, <1>6 DEF LinkageFrom
<1> QED
  BY <1>7 DEF c

(* What the image of block b looks like in code c, when table bt holds the   *)
(* base addresses of the blocks in lk.                                       *)
SameInst(bt, lk, x, y) ==
  IF x.op \in {"PushBlock", "Call"}
  THEN x.arg \in lk /\ y.arg = bt[x.arg].base
  ELSE y.arg = x.arg

BlockFaithful(bt, c, lk, b) ==
  /\ bt[b].base + Len(bt[b].code) \in 1..Len(c)
  /\ c[bt[b].base + Len(bt[b].code)].op = "Ret"
  /\ \A i \in 1..Len(bt[b].code) :
       /\ c[bt[b].base + i - 1].op =
            IF i = Len(bt[b].code) THEN TailForm(bt[b].code[i]).op ELSE bt[b].code[i].op
       /\ SameInst(bt, lk, bt[b].code[i], c[bt[b].base + i - 1])

(* An instruction of a block and what the link makes of it. *)
LEMMA InstLinked ==
  ASSUME NEW bt \in Seq(BlockInfo), NEW e, NEW R, NEW x \in Instruction,
         Len(R) = Len(bt),
         SourceInst(bt, x),
         NEW y, y = x \/ y = TailForm(x)
  PROVE  Resolve(R, y).op = y.op /\ SameInst(R, Emitted(bt, e), x, Resolve(R, y))
<1>1. /\ x.op \notin {"Ret", "TailCall", "TailApply"}
      /\ x.op \in {"PushBlock", "Call"} =>
           x.arg \in 1..Len(bt) /\ bt[x.arg].calleeCount > 0
  BY DEF SourceInst
<1>2. y \in Instruction /\ y.arg = x.arg
  BY DEF TailForm, Instruction, Opcodes
<1>3. y.op \in {"PushBlock", "Call", "TailCall"} <=> x.op \in {"PushBlock", "Call"}
  BY <1>1 DEF TailForm, Instruction
<1>4. Resolve(R, y).op = y.op
  BY <1>2 DEF Resolve, Instruction
<1>5. CASE x.op \in {"PushBlock", "Call"}
  <2>1. x.arg \in Emitted(bt, e) /\ x.arg \in 1..Len(R)
    BY <1>1, <1>5 DEF Emitted
  <2>2. Resolve(R, y) = [y EXCEPT !.arg = R[x.arg].base]
    BY <1>2, <1>3, <1>5, <2>1 DEF Resolve
  <2>3. Resolve(R, y).arg = R[x.arg].base
    BY <1>2, <2>2 DEF Instruction
  <2> QED
    BY <1>4, <1>5, <2>1, <2>3 DEF SameInst
<1>6. CASE x.op \notin {"PushBlock", "Call"}
  BY <1>2, <1>3, <1>4, <1>6 DEF Resolve, SameInst
<1> QED
  BY <1>5, <1>6

(***************************************************************************)
(* The image of every emitted block is what the block says: the loop that  *)
(* copies it, the one that resolves it and the tail calls in between.      *)
(***************************************************************************)
THEOREM LinkFaithful ==
  ASSUME NEW bt \in Seq(BlockInfo), SourceTable(bt), NEW e,
         NEW old \in Seq(Instruction), EndsInRet(old), NEW b \in Emitted(bt, e)
  PROVE  BlockFaithful(Rebased(old, bt, e), Linked(old, bt, e), Emitted(bt, e), b)
<1> DEFINE c   == Linked(old, bt, e)
           R   == Rebased(old, bt, e)
           src == bt[b].code
           n   == Len(src)
<1>1. LinkedIs(c, bt, old, e)
  BY LinkedHolds
<1>2. src \in Seq(Instruction) /\ n \in Nat /\ b \in 1..Len(bt)
  <2>1. b \in 1..Len(bt)
    BY DEF Emitted
  <2>2. src \in Seq(Instruction)
    BY <2>1, PartIs
  <2> HIDE DEF src
  <2> QED
    BY <2>1, <2>2
<1>3. Len(R) = Len(bt) /\ R[b].code = src
  BY <1>2, RebasedIs
<1>4. R[b].base = Len(old) + Before(bt, e, b) + 1
  <2>1. R[b].base = Place(old, bt, e, b, 1)
    BY <1>1, BlockStarts
  <2> HIDE DEF R
  <2> QED
    BY <2>1 DEF Place
<1>5. Before(bt, e, b) \in Nat /\ Len(old) \in Nat /\ Len(c) \in Nat
  BY <1>1, <1>2, BeforeNat DEF LinkedIs
<1> HIDE DEF c, R
<1>6. ASSUME NEW i \in 1..(n + 1)
      PROVE  /\ R[b].base + i - 1 \in 1..Len(c)
             /\ c[R[b].base + i - 1] = Resolve(R, ImageOf(src)[i])
  <2>1. i \in 1..Len(ImageOf(src))
    BY <1>2, ImageIs
  <2>2. /\ Place(old, bt, e, b, i) \in (Len(old) + 1)..Len(c)
        /\ c[Place(old, bt, e, b, i)] = Resolve(R, ImageOf(src)[i])
    BY <1>1, <2>1, PlaceHolds DEF R
  <2>3. Place(old, bt, e, b, i) = R[b].base + i - 1
    BY <1>4, <1>5 DEF Place
  <2> QED
    BY <1>5, <2>2, <2>3
<1> HIDE DEF src, n
<1>7. /\ \A i \in 1..n : ImageOf(src)[i] = IF i = n THEN TailForm(src[i]) ELSE src[i]
      /\ ImageOf(src)[n + 1] = Inst("Ret", 0)
  BY <1>2, ImageIs DEF n
<1>8. R[b].base + n \in 1..Len(c) /\ c[R[b].base + n].op = "Ret"
  <2>1. R[b].base + (n + 1) - 1 = R[b].base + n /\ n + 1 \in 1..(n + 1)
    BY <1>2, <1>4, <1>5
  <2>2. Resolve(R, Inst("Ret", 0)).op = "Ret"
    BY DEF Resolve, Inst
  <2> QED
    BY <1>6, <1>7, <2>1, <2>2
<1>9. ASSUME NEW i \in 1..n
      PROVE  /\ c[R[b].base + i - 1].op = IF i = n THEN TailForm(src[i]).op ELSE src[i].op
             /\ SameInst(R, Emitted(bt, e), src[i], c[R[b].base + i - 1])
  <2> DEFINE x == src[i]
             y == ImageOf(src)[i]
  <2>1. x \in Instruction
    BY <1>2, ElementOfSeq DEF n
  <2>2. SourceInst(bt, x)
    BY <1>2 DEF SourceTable, src, n
  <2>3. y = IF i = n THEN TailForm(x) ELSE x
    BY <1>7
  <2>4. c[R[b].base + i - 1] = Resolve(R, y)
    BY <1>2, <1>6
  <2> HIDE DEF x, y
  <2>5. Resolve(R, y).op = y.op /\ SameInst(R, Emitted(bt, e), x, Resolve(R, y))
    <3>1. y = x \/ y = TailForm(x)
      BY <2>3
    <3>2. Len(R) = Len(bt)
      BY <1>3
    <3> QED
      BY <2>1, <2>2, <3>1, <3>2, InstLinked
  <2> QED
    BY <2>3, <2>4, <2>5 DEF x
<1>10. BlockFaithful(R, c, Emitted(bt, e), b)
  BY <1>3, <1>8, <1>9 DEF BlockFaithful, n
<1> QED
  BY <1>10 DEF R, c

(***************************************************************************)
(* Tail call elimination leaves no call that its block has nothing to do   *)
(* after, and makes no other call a tail call, in the old code or the new. *)
(***************************************************************************)
THEOREM LinkTailCalls ==
  ASSUME NEW bt \in Seq(BlockInfo), SourceTable(bt), NEW e,
         NEW old \in Seq(Instruction), EndsInRet(old), TailCallsEliminated(old)
  PROVE  TailCallsEliminated(Linked(old, bt, e))
<1> DEFINE c == Linked(old, bt, e)
           R == Rebased(old, bt, e)
           k == Len(old)
<1>1. LinkedIs(c, bt, old, e)
  BY LinkedHolds
<1> HIDE DEF c
<1>2. k \in Nat /\ Len(c) \in Nat /\ \A a \in 1..k : c[a].op = old[a].op
  BY <1>1 DEF LinkedIs
<1>3. ASSUME NEW a \in 1..(Len(c) - 1), a <= k
      PROVE  /\ c[a].op \in {"Call", "Apply"} => c[a + 1].op # "Ret"
             /\ c[a].op \in {"TailCall", "TailApply"} => c[a + 1].op = "Ret"
  <2>1. CASE a < k
    <3>1. a \in 1..(k - 1) /\ a \in 1..k /\ a + 1 \in 1..k
      BY <1>2, <2>1
    <3>2. c[a].op = old[a].op /\ c[a + 1].op = old[a + 1].op
      BY <1>2, <3>1
    <3> QED
      BY <3>1, <3>2 DEF TailCallsEliminated
  <2>2. CASE a = k
    <3>1. c[a].op = "Ret"
      BY <1>2, <2>2 DEF EndsInRet
    <3> QED
      BY <3>1
  <2> QED
    BY <1>2, <1>3, <2>1, <2>2
<1>4. ASSUME NEW a \in 1..(Len(c) - 1), a > k
      PROVE  /\ c[a].op \in {"Call", "Apply"} => c[a + 1].op # "Ret"
             /\ c[a].op \in {"TailCall", "TailApply"} => c[a + 1].op = "Ret"
  <2>1. a \in (k + 1)..Len(c) /\ a \in Int
    BY <1>2, <1>4
  <2>2. PICK b \in Emitted(bt, e) : \E i \in 1..Len(ImageOf(bt[b].code)) :
               a = Place(old, bt, e, b, i)
    BY <1>1, <2>1, PlaceFound
  <2> DEFINE src == bt[b].code
             n   == Len(src)
  <2>3. PICK i \in 1..Len(ImageOf(src)) : a = Place(old, bt, e, b, i)
    BY <2>2
  <2>4. src \in Seq(Instruction) /\ n \in Nat /\ b \in 1..Len(bt)
    <3>1. b \in 1..Len(bt)
      BY DEF Emitted
    <3>2. src \in Seq(Instruction)
      BY <3>1, PartIs
    <3> HIDE DEF src
    <3> QED
      BY <3>1, <3>2
  <2>5. Before(bt, e, b) \in Nat
    BY <2>4, BeforeNat
  <2>6. \A j \in 1..n : src[j].op \notin {"Ret", "TailCall", "TailApply"}
    BY <2>4 DEF SourceTable, SourceInst
  <2>7. ASSUME NEW j \in 1..(n + 1)
        PROVE  c[a - i + j].op = IF j = n + 1 THEN "Ret"
                                 ELSE IF j = n THEN TailForm(src[j]).op ELSE src[j].op
    <3>1. /\ Len(ImageOf(src)) = n + 1
          /\ \A m \in 1..n :
               ImageOf(src)[m] = IF m = n THEN TailForm(src[m]) ELSE src[m]
          /\ ImageOf(src)[n + 1] = Inst("Ret", 0)
      BY <2>4, ImageIs
    <3>2. c[Place(old, bt, e, b, j)].op = ImageOf(src)[j].op
      BY <1>1, <3>1, PlaceOp
    <3>3. Place(old, bt, e, b, j) = a - i + j
      <4> HIDE DEF src, n
      <4> QED
        BY <1>2, <2>1, <2>3, <2>5 DEF Place
    <3>4. Inst("Ret", 0).op = "Ret"
      BY DEF Inst
    <3> HIDE DEF src, n
    <3> QED
      BY <2>4, <3>1, <3>2, <3>3, <3>4
  <2>8. i \in 1..(n + 1)
    BY <2>4, ImageIs
  <2> HIDE DEF src, n
  <2>9. a - i + i = a /\ a - i + (i + 1) = a + 1
    BY <2>1, <2>8
  <2>10. c[a].op = IF i = n + 1 THEN "Ret"
                   ELSE IF i = n THEN TailForm(src[i]).op ELSE src[i].op
    BY <2>7, <2>8, <2>9
  <2>11. CASE i = n + 1
    BY <2>10, <2>11
  <2>12. CASE i = n
    <3>1. n + 1 \in 1..(n + 1) /\ n # n + 1 /\ n \in 1..n
      BY <2>4, <2>8, <2>12
    <3>2. c[a + 1].op = "Ret"
      BY <2>7, <2>9, <2>12, <3>1
    <3>3. src[n] \in Instruction
      BY <2>4, <3>1, ElementOfSeq DEF n
    <3>4. TailForm(src[n]).op \notin {"Call", "Apply"}
      BY <3>3 DEF TailForm, Instruction
    <3> QED
      BY <2>10, <2>12, <3>1, <3>2, <3>4
  <2>13. CASE i \in 1..(n - 1)
    <3>1. i \in 1..n /\ i + 1 \in 1..n /\ i + 1 \in 1..(n + 1) /\ i + 1 # n + 1 /\ i # n
      BY <2>4, <2>13
    <3>2. c[a].op \notin {"TailCall", "TailApply"}
      BY <2>4, <2>6, <2>10, <3>1
    <3>3. c[a + 1].op = IF i + 1 = n THEN TailForm(src[i + 1]).op ELSE src[i + 1].op
      BY <2>7, <2>9, <3>1
    <3>4. src[i + 1] \in Instruction /\ src[i + 1].op # "Ret"
      BY <2>4, <2>6, <3>1, ElementOfSeq DEF n
    <3>5. TailForm(src[i + 1]).op # "Ret"
      BY <3>4 DEF TailForm, Instruction
    <3> QED
      BY <3>2, <3>3, <3>4, <3>5
  <2> QED
    BY <2>4, <2>8, <2>11, <2>12, <2>13
<1>5. TailCallsEliminated(c)
  BY <1>2, <1>3, <1>4 DEF TailCallsEliminated
<1> QED
  BY <1>5 DEF c

-------------------------------------------------------------------------------
(* The blocks. *)

References == {"PushBlock", "Call"}

(* The blocks the instructions c name. *)
TargetsOf(c) == { c[i].arg : i \in { j \in DOMAIN c : c[j].op \in References } }

-------------------------------------------------------------------------------
(* Facts about the code of one block. *)

(* An instruction at the end of a block. *)
LEMMA Appended ==
  ASSUME NEW c \in Seq(Instruction), NEW op \in Opcodes, NEW arg \in Nat
  PROVE  /\ Append(c, Inst(op, arg)) \in Seq(Instruction)
         /\ Len(c) \in Nat /\ Len(Append(c, Inst(op, arg))) = Len(c) + 1
         /\ \A i \in 1..Len(c) : Append(c, Inst(op, arg))[i] = c[i]
         /\ Append(c, Inst(op, arg))[Len(c) + 1].op = op
         /\ Append(c, Inst(op, arg))[Len(c) + 1].arg = arg
<1>1. Inst(op, arg) \in Instruction /\ Inst(op, arg).op = op /\ Inst(op, arg).arg = arg
  BY DEF Inst, Instruction
<1> DEFINE x == Inst(op, arg)
<1> HIDE DEF x
<1>2. x \in Instruction
  BY <1>1 DEF x
<1>3. /\ Append(c, x) \in Seq(Instruction)
      /\ Len(c) \in Nat /\ Len(Append(c, x)) = Len(c) + 1
      /\ \A i \in 1..Len(c) : Append(c, x)[i] = c[i]
      /\ Append(c, x)[Len(c) + 1] = x
  BY <1>2, AppendProperties
<1> QED
  BY <1>1, <1>3 DEF x

(* It adds its argument to what the block names if it is a reference.        *)
LEMMA TargetsAppended ==
  ASSUME NEW c \in Seq(Instruction), NEW op \in Opcodes, NEW arg \in Nat
  PROVE  TargetsOf(Append(c, Inst(op, arg)))
           = TargetsOf(c) \union (IF op \in References THEN {arg} ELSE {})
<1> DEFINE d == Append(c, Inst(op, arg))
           n == Len(c)
<1>1. /\ n \in Nat /\ d \in Seq(Instruction) /\ Len(d) = n + 1
      /\ \A i \in 1..n : d[i] = c[i]
      /\ d[n + 1].op = op /\ d[n + 1].arg = arg
  BY Appended
<1>2. DOMAIN c = 1..n /\ DOMAIN d = (1..n) \union {n + 1}
  BY <1>1
<1> HIDE DEF d, n
<1>3. TargetsOf(d) = TargetsOf(c) \union (IF op \in References THEN {arg} ELSE {})
  BY <1>1, <1>2 DEF TargetsOf
<1> QED
  BY <1>3 DEF d

(* Two pieces of code, one after the other.                                  *)
LEMMA Concatenated ==
  ASSUME NEW c \in Seq(Instruction), NEW s \in Seq(Instruction)
  PROVE  /\ c \o s \in Seq(Instruction)
         /\ Len(c) \in Nat /\ Len(s) \in Nat
         /\ Len(c \o s) = Len(c) + Len(s)
         /\ \A i \in 1..Len(c) : i \in 1..Len(c \o s) /\ (c \o s)[i] = c[i]
         /\ \A i \in 1..Len(s) : Len(c) + i \in 1..Len(c \o s) /\ (c \o s)[Len(c) + i] = s[i]
<1>1. c \o s \in Seq(Instruction)
  BY ConcatProperties, Zenon
<1>2. Len(c \o s) = Len(c) + Len(s)
  BY ConcatProperties
<1>3. \A i \in 1..Len(c) + Len(s) :
        (c \o s)[i] = IF i <= Len(c) THEN c[i] ELSE s[i - Len(c)]
  BY ConcatProperties, Zenon
<1> DEFINE e == c \o s
<1> HIDE DEF e
<1>4. Len(c) \in Nat /\ Len(s) \in Nat
  OBVIOUS
<1>5. \A i \in 1..Len(c) : i \in 1..Len(e) /\ e[i] = c[i]
  BY <1>2, <1>3, <1>4 DEF e
<1>6. \A i \in 1..Len(s) : Len(c) + i \in 1..Len(e) /\ e[Len(c) + i] = s[i]
  BY <1>2, <1>3, <1>4 DEF e
<1> QED
  BY <1>1, <1>2, <1>4, <1>5, <1>6 DEF e

(* The code of an inlined block: as long, with the same opcodes, and with    *)
(* other numbers for its variables only.                                     *)
LEMMA Shifted ==
  ASSUME NEW c \in Seq(Instruction), NEW n \in Nat
  PROVE  /\ ShiftedCode(c, n) \in Seq(Instruction)
         /\ Len(ShiftedCode(c, n)) = Len(c)
         /\ \A i \in 1..Len(c) :
              /\ ShiftedCode(c, n)[i].op = c[i].op
              /\ c[i].op \in References => ShiftedCode(c, n)[i].arg = c[i].arg
              /\ c[i].op = "PopVar" => ShiftedCode(c, n)[i].arg = c[i].arg + n
<1> DEFINE F(i) == IF c[i].op \in {"PopVar", "PushVar"}
                   THEN [c[i] EXCEPT !.arg = @ + n] ELSE c[i]
           d == [i \in 1..Len(c) |-> F(i)]
<1>1. Len(c) \in Nat /\ \A i \in 1..Len(c) : c[i] \in Instruction
  BY ElementOfSeq
<1>2. ASSUME NEW i \in 1..Len(c)
      PROVE  /\ F(i) \in Instruction
             /\ F(i).op = c[i].op
             /\ c[i].op \in References => F(i).arg = c[i].arg
             /\ c[i].op = "PopVar" => F(i).arg = c[i].arg + n
  <2>1. c[i] \in [op : Opcodes, arg : Nat]
    BY <1>1 DEF Instruction
  <2> QED
    BY <2>1 DEF Instruction, References
<1>3. d = ShiftedCode(c, n)
  BY DEF ShiftedCode
<1> HIDE DEF F
<1>4. d \in Seq(Instruction) /\ Len(d) = Len(c) /\ \A i \in 1..Len(c) : d[i] = F(i)
  BY <1>1, <1>2
<1> QED
  BY <1>2, <1>3, <1>4

(* An inlined block adds the blocks it names. *)
LEMMA TargetsInlined ==
  ASSUME NEW c \in Seq(Instruction), NEW d \in Seq(Instruction), NEW n \in Nat
  PROVE  TargetsOf(c \o ShiftedCode(d, n)) = TargetsOf(c) \union TargetsOf(d)
<1> DEFINE s == ShiftedCode(d, n)
           e == c \o s
           k == Len(c)
           m == Len(d)
<1>1. /\ s \in Seq(Instruction) /\ Len(s) = m /\ k \in Nat /\ m \in Nat
      /\ \A i \in 1..m : /\ s[i].op = d[i].op
                         /\ d[i].op \in References => s[i].arg = d[i].arg
  BY Shifted
<1> HIDE DEF s
<1>2. /\ e \in Seq(Instruction) /\ Len(e) = k + m
      /\ \A i \in 1..k : i \in 1..(k + m) /\ e[i] = c[i]
      /\ \A i \in 1..m : k + i \in 1..(k + m) /\ e[k + i] = s[i]
  <2>1. /\ c \o s \in Seq(Instruction) /\ Len(c \o s) = Len(c) + Len(s)
        /\ \A i \in 1..Len(c) : i \in 1..Len(c \o s) /\ (c \o s)[i] = c[i]
        /\ \A i \in 1..Len(s) : Len(c) + i \in 1..Len(c \o s) /\ (c \o s)[Len(c) + i] = s[i]
    BY <1>1, Concatenated, Zenon
  <2>2. Len(s) = m
    BY <1>1
  <2> HIDE DEF m
  <2>3. /\ e \in Seq(Instruction) /\ Len(e) = k + Len(s)
        /\ \A i \in 1..k : i \in 1..Len(e) /\ e[i] = c[i]
        /\ \A i \in 1..Len(s) : k + i \in 1..Len(e) /\ e[k + i] = s[i]
    BY <2>1, Zenon
  <2> HIDE DEF k, e
  <2> QED
    BY <2>2, <2>3
<1>3. DOMAIN c = 1..k /\ DOMAIN d = 1..m /\ DOMAIN e = 1..(k + m)
  BY <1>1, <1>2
<1>4. /\ \A i \in 1..k : i \in 1..(k + m) /\ e[i] = c[i]
      /\ \A i \in 1..m : k + i \in 1..(k + m) /\ e[k + i] = s[i]
      /\ \A i \in 1..(k + m) : i \in 1..k \/ (i - k \in 1..m /\ e[i] = s[i - k])
  <2>1. \A i \in 1..(k + m) : i \in 1..k \/ (i - k \in 1..m /\ i = k + (i - k))
    BY <1>1
  <2> QED
    BY <1>2, <2>1
<1> HIDE DEF e, k, m
<1>5. ASSUME NEW x \in TargetsOf(c)
      PROVE  x \in TargetsOf(e)
  BY <1>3, <1>4 DEF TargetsOf
<1>6. ASSUME NEW x \in TargetsOf(d)
      PROVE  x \in TargetsOf(e)
  <2>1. PICK i \in 1..m : d[i].op \in References /\ d[i].arg = x
    BY <1>3 DEF TargetsOf
  <2>2. k + i \in 1..(k + m) /\ e[k + i].op \in References /\ e[k + i].arg = x
    BY <1>1, <1>4, <2>1
  <2> QED
    BY <1>3, <2>2 DEF TargetsOf
<1>7. ASSUME NEW x \in TargetsOf(e)
      PROVE  x \in TargetsOf(c) \union TargetsOf(d)
  <2>1. PICK i \in 1..(k + m) : e[i].op \in References /\ e[i].arg = x
    BY <1>3 DEF TargetsOf
  <2>2. CASE i \in 1..k
    BY <1>3, <1>4, <2>1, <2>2 DEF TargetsOf
  <2>3. CASE i - k \in 1..m /\ e[i] = s[i - k]
    BY <1>1, <1>3, <2>1, <2>3 DEF TargetsOf
  <2> QED
    BY <1>4, <2>2, <2>3
<1>8. TargetsOf(e) = TargetsOf(c) \union TargetsOf(d)
  BY <1>5, <1>6, <1>7
<1> QED
  BY <1>8 DEF e, s

-------------------------------------------------------------------------------
(* Counting the variables a block binds. *)

(* The binders among the first i instructions are finitely many.             *)
LEMMA BindersFinite ==
  ASSUME NEW c, NEW i \in Nat
  PROVE  IsFiniteSet(BindersIn(c, i)) /\ Cardinality(BindersIn(c, i)) \in Nat
<1>1. IsFiniteSet(1..i)
  BY FS_Interval
<1>2. IsFiniteSet(BindersIn(c, i))
  BY <1>1, FS_Subset DEF BindersIn
<1> QED
  BY <1>2, FS_CardinalityType

(* They depend on nothing but the opcodes of those instructions.             *)
LEMMA BindersSame ==
  ASSUME NEW c, NEW d, NEW i \in Nat, \A j \in 1..i : c[j].op = d[j].op
  PROVE  BindersIn(c, i) = BindersIn(d, i)
  BY DEF BindersIn

(* One more instruction is one more binder if it is a PopVar.                *)
LEMMA BindersNext ==
  ASSUME NEW c, NEW i \in Nat
  PROVE  Cardinality(BindersIn(c, i + 1))
           = Cardinality(BindersIn(c, i)) + IF c[i + 1].op = "PopVar" THEN 1 ELSE 0
<1>1. 1..(i + 1) = (1..i) \union {i + 1} /\ i + 1 \notin 1..i
  OBVIOUS
<1>2. IsFiniteSet(BindersIn(c, i)) /\ Cardinality(BindersIn(c, i)) \in Nat
  BY BindersFinite
<1>3. CASE c[i + 1].op = "PopVar"
  <2>1. BindersIn(c, i + 1) = BindersIn(c, i) \union {i + 1}
    BY <1>1, <1>3 DEF BindersIn
  <2>2. i + 1 \notin BindersIn(c, i)
    BY <1>1 DEF BindersIn
  <2> QED
    BY <1>2, <1>3, <2>1, <2>2, FS_AddElement
<1>4. CASE c[i + 1].op # "PopVar"
  <2>1. BindersIn(c, i + 1) = BindersIn(c, i)
    BY <1>1, <1>4 DEF BindersIn
  <2> QED
    BY <1>2, <1>4, <2>1
<1> QED
  BY <1>3, <1>4

(* The numbers of a block stay in order when an instruction is added, if a   *)
(* PopVar gets the count of those before it.                                 *)
LEMMA InOrderAppended ==
  ASSUME NEW c \in Seq(Instruction), NEW n, InOrder(c, n),
         NEW op \in Opcodes, NEW arg \in Nat, op = "PopVar" => arg = n
  PROVE  InOrder(Append(c, Inst(op, arg)), n + IF op = "PopVar" THEN 1 ELSE 0)
<1> DEFINE d == Append(c, Inst(op, arg))
           k == Len(c)
<1>1. /\ k \in Nat /\ d \in Seq(Instruction) /\ Len(d) = k + 1
      /\ \A i \in 1..k : d[i] = c[i]
      /\ d[k + 1].op = op /\ d[k + 1].arg = arg
  BY Appended
<1> HIDE DEF d, k
<1>2. \A i \in 0..k : BindersIn(d, i) = BindersIn(c, i)
  BY <1>1, BindersSame
<1>3. n = Cardinality(BindersIn(c, k)) /\ n \in Nat
  BY <1>1, BindersFinite DEF InOrder, k
<1>4. n + (IF op = "PopVar" THEN 1 ELSE 0) = Cardinality(BindersIn(d, Len(d)))
  BY <1>1, <1>2, <1>3, BindersNext
<1>5. ASSUME NEW i \in 1..(k + 1), d[i].op = "PopVar"
      PROVE  d[i].arg = Cardinality(BindersIn(d, i - 1))
  <2>1. CASE i \in 1..k
    <3>1. c[i].arg = Cardinality(BindersIn(c, i - 1))
      BY <1>1, <1>5, <2>1 DEF InOrder, k
    <3>2. i - 1 \in 0..k
      BY <1>1, <2>1
    <3> QED
      BY <1>1, <1>2, <2>1, <3>1, <3>2
  <2>2. CASE i = k + 1
    <3>1. i - 1 = k /\ k \in 0..k
      BY <1>1, <2>2
    <3> QED
      BY <1>1, <1>2, <1>3, <1>5, <2>2, <3>1
  <2> QED
    BY <1>1, <2>1, <2>2
<1>6. InOrder(d, n + IF op = "PopVar" THEN 1 ELSE 0)
  BY <1>1, <1>4, <1>5 DEF InOrder
<1> QED
  BY <1>6 DEF d

(* A set of numbers shifted by k has as many elements.                       *)
LEMMA ShiftedSet ==
  ASSUME NEW k \in Nat, NEW S \in SUBSET Nat, IsFiniteSet(S)
  PROVE  /\ IsFiniteSet({ k + j : j \in S })
         /\ Cardinality({ k + j : j \in S }) = Cardinality(S)
<1> DEFINE T == { k + j : j \in S }
           f == [j \in S |-> k + j]
<1>1. f \in [S -> T] /\ \A j \in S : f[j] = k + j
  OBVIOUS
<1>2. \A i, j \in S : f[i] = f[j] => i = j
  BY <1>1
<1>3. \A t \in T : \E j \in S : f[j] = t
  BY <1>1
<1> HIDE DEF f, T
<1>4. f \in Bijection(S, T)
  BY <1>1, <1>2, <1>3 DEF Bijection, Injection, Surjection, IsInjective
<1>5. ExistsBijection(S, T)
  BY <1>4 DEF ExistsBijection
<1>6. IsFiniteSet(T) /\ Cardinality(T) = Cardinality(S)
  BY <1>5, FS_Bijection
<1> QED
  BY <1>6 DEF T

(* Inlining: the variables of the second block come after those of the first,*)
(* and its renumbering says so.                                              *)
LEMMA InOrderInlined ==
  ASSUME NEW c \in Seq(Instruction), NEW n \in Nat, InOrder(c, n),
         NEW d \in Seq(Instruction), NEW m \in Nat, InOrder(d, m)
  PROVE  InOrder(c \o ShiftedCode(d, n), n + m)
<1> DEFINE s == ShiftedCode(d, n)
           e == c \o s
           k == Len(c)
           l == Len(d)
<1>1. /\ s \in Seq(Instruction) /\ Len(s) = l /\ k \in Nat /\ l \in Nat
      /\ \A i \in 1..l : /\ s[i].op = d[i].op
                         /\ d[i].op = "PopVar" => s[i].arg = d[i].arg + n
  BY Shifted
<1> HIDE DEF s
<1>2. /\ e \in Seq(Instruction) /\ Len(e) = k + l
      /\ \A i \in 1..k : i \in 1..(k + l) /\ e[i] = c[i]
      /\ \A i \in 1..l : k + i \in 1..(k + l) /\ e[k + i] = s[i]
  <2>1. /\ c \o s \in Seq(Instruction) /\ Len(c \o s) = Len(c) + Len(s)
        /\ \A i \in 1..Len(c) : i \in 1..Len(c \o s) /\ (c \o s)[i] = c[i]
        /\ \A i \in 1..Len(s) : Len(c) + i \in 1..Len(c \o s) /\ (c \o s)[Len(c) + i] = s[i]
    BY <1>1, Concatenated, Zenon
  <2>2. Len(s) = l
    BY <1>1
  <2> HIDE DEF l
  <2>3. /\ e \in Seq(Instruction) /\ Len(e) = k + Len(s)
        /\ \A i \in 1..k : i \in 1..Len(e) /\ e[i] = c[i]
        /\ \A i \in 1..Len(s) : k + i \in 1..Len(e) /\ e[k + i] = s[i]
    BY <2>1, Zenon
  <2> HIDE DEF k, e
  <2> QED
    BY <2>2, <2>3
<1> HIDE DEF e
<1>3. \A i \in (k + 1)..(k + l) : i - k \in 1..l /\ e[i] = s[i - k]
  <2>1. \A i \in (k + 1)..(k + l) : i - k \in 1..l /\ i = k + (i - k)
    BY <1>1
  <2> QED
    BY <1>2, <2>1
<1>4. n = Cardinality(BindersIn(c, k)) /\ m = Cardinality(BindersIn(d, l))
  BY DEF InOrder
<1>5. ASSUME NEW i \in 0..l
      PROVE  Cardinality(BindersIn(e, k + i)) = n + Cardinality(BindersIn(d, i))
  <2> DEFINE S == BindersIn(d, i)
             T == { k + j : j \in S }
  <2>1. i \in Nat /\ \A j \in 1..i : j \in 1..l
    BY <1>1
  <2>2. S \in SUBSET Nat /\ IsFiniteSet(S) /\ Cardinality(S) \in Nat
    <3>1. IsFiniteSet(S) /\ Cardinality(S) \in Nat
      BY <2>1, BindersFinite
    <3>2. S \subseteq 1..i
      BY DEF BindersIn
    <3> HIDE DEF S
    <3>3. S \in SUBSET Nat
      BY <2>1, <3>2
    <3> QED
      BY <3>1, <3>3
  <2>3. IsFiniteSet(T) /\ Cardinality(T) = Cardinality(S)
    BY <1>1, <2>2, ShiftedSet
  <2>4. IsFiniteSet(BindersIn(c, k)) /\ Cardinality(BindersIn(c, k)) \in Nat
    BY <1>1, BindersFinite
  <2>5. BindersIn(e, k + i) = BindersIn(c, k) \union T
    <3>1. ASSUME NEW x \in BindersIn(e, k + i)
          PROVE  x \in BindersIn(c, k) \union T
      <4>1. x \in 1..(k + i) /\ e[x].op = "PopVar"
        BY <3>1 DEF BindersIn
      <4>2. CASE x \in 1..k
        BY <1>2, <1>3, <4>1, <4>2 DEF BindersIn
      <4>3. CASE x \notin 1..k
        <5>1. x - k \in 1..i /\ x = k + (x - k)
          BY <1>1, <2>1, <4>1, <4>3
        <5>2. x - k \in 1..l
          BY <2>1, <5>1
        <5>3. e[x] = s[x - k]
          BY <1>2, <1>3, <5>1, <5>2
        <5>4. d[x - k].op = "PopVar"
          BY <1>1, <4>1, <5>2, <5>3
        <5>5. x - k \in S
          BY <5>1, <5>4 DEF BindersIn
        <5> QED
          BY <5>1, <5>5
      <4> QED
        BY <4>2, <4>3
    <3>2. ASSUME NEW x \in BindersIn(c, k)
          PROVE  x \in BindersIn(e, k + i)
      BY <1>1, <1>2, <1>3, <2>1, <3>2 DEF BindersIn
    <3>3. ASSUME NEW j \in S
          PROVE  k + j \in BindersIn(e, k + i)
      <4>1. j \in 1..i /\ j \in 1..l /\ d[j].op = "PopVar"
        BY <2>1 DEF BindersIn
      <4>2. e[k + j] = s[j] /\ s[j].op = d[j].op
        BY <1>1, <1>2, <4>1
      <4>3. e[k + j].op = "PopVar"
        BY <4>1, <4>2
      <4>4. k + j \in 1..(k + i)
        BY <1>1, <2>1, <4>1
      <4> QED
        BY <4>3, <4>4 DEF BindersIn
    <3> QED
      BY <3>1, <3>2, <3>3
  <2>6. BindersIn(c, k) \intersect T = {}
    <3>1. \A j \in S : j >= 1 /\ j \in Nat
      BY <2>1 DEF BindersIn
    <3>2. \A x \in BindersIn(c, k) : x \in Nat /\ x <= k
      BY <1>1 DEF BindersIn
    <3> HIDE DEF S
    <3> QED
      BY <1>1, <3>1, <3>2
  <2> HIDE DEF S, T
  <2>7. Cardinality(BindersIn(c, k) \union T)
          = Cardinality(BindersIn(c, k)) + Cardinality(T)
              - Cardinality(BindersIn(c, k) \intersect T)
    BY <2>3, <2>4, FS_Union
  <2>8. Cardinality(BindersIn(c, k) \intersect T) = 0
    BY <2>6, FS_EmptySet
  <2>9. Cardinality(BindersIn(e, k + i)) = n + Cardinality(S)
    <3>1. Cardinality(BindersIn(e, k + i)) = Cardinality(BindersIn(c, k) \union T)
      BY <2>5
    <3>2. Cardinality(BindersIn(c, k)) = n /\ Cardinality(T) = Cardinality(S)
      BY <1>4, <2>3
    <3> QED
      BY <2>2, <2>7, <2>8, <3>1, <3>2
  <2> QED
    BY <2>9 DEF S
<1>6. n + m = Cardinality(BindersIn(e, Len(e)))
  <2>1. l \in 0..l
    BY <1>1
  <2> QED
    BY <1>2, <1>4, <1>5, <2>1
<1>7. ASSUME NEW i \in 1..(k + l), e[i].op = "PopVar"
      PROVE  e[i].arg = Cardinality(BindersIn(e, i - 1))
  <2>1. CASE i \in 1..k
    <3>1. c[i].op = "PopVar" /\ e[i].arg = c[i].arg
      BY <1>2, <1>3, <1>7, <2>1
    <3>2. c[i].arg = Cardinality(BindersIn(c, i - 1))
      BY <2>1, <3>1 DEF InOrder
    <3>3. i - 1 \in Nat /\ \A j \in 1..(i - 1) : e[j].op = c[j].op
      BY <1>1, <1>2, <1>3, <2>1
    <3>4. BindersIn(e, i - 1) = BindersIn(c, i - 1)
      BY <3>3, BindersSame
    <3> QED
      BY <3>1, <3>2, <3>4
  <2>2. CASE i \notin 1..k
    <3> DEFINE j == i - k
    <3>1. j \in 1..l /\ i = k + j /\ j - 1 \in 0..l /\ i - 1 = k + (j - 1)
      BY <1>1, <2>2
    <3> HIDE DEF j
    <3>2. e[i] = s[j]
      BY <1>2, <1>3, <3>1
    <3>3. d[j].op = "PopVar" /\ e[i].arg = d[j].arg + n
      BY <1>1, <1>7, <3>1, <3>2
    <3>4. d[j].arg = Cardinality(BindersIn(d, j - 1))
      BY <3>1, <3>3 DEF InOrder
    <3>5. Cardinality(BindersIn(e, i - 1)) = n + Cardinality(BindersIn(d, j - 1))
      BY <1>5, <3>1
    <3>6. Cardinality(BindersIn(d, j - 1)) \in Nat
      BY <3>1, BindersFinite
    <3> QED
      BY <3>3, <3>4, <3>5, <3>6
  <2> QED
    BY <2>1, <2>2
<1>8. InOrder(e, n + m)
  BY <1>2, <1>6, <1>7 DEF InOrder
<1> QED
  BY <1>8 DEF e, s

-------------------------------------------------------------------------------
(* Instructions that a block never holds, only an image. *)

LinkedOnly == {"Ret", "TailCall", "TailApply"}

PlainCode(c) == \A i \in 1..Len(c) : c[i].op \notin LinkedOnly

-------------------------------------------------------------------------------
(* The whole table. *)

(* The code and the variable count of a block as the builders leave them. *)
Proper(c, n) == InOrder(c, n) /\ PlainCode(c)

AllProper(t) == \A b \in 1..Len(t) : Proper(t[b].code, t[b].varCount)

Counted(t) ==
  \A b \in 1..Len(t) : \A x \in TargetsOf(t[b].code) :
    x \in 1..Len(t) /\ t[x].calleeCount > 0

Good(t) == AllProper(t) /\ Counted(t)

TableInv == blockTable \in Seq(BlockInfo) /\ Good(blockTable)

(* It says what the properties say, and that the table is one that can be    *)
(* linked.                                                                   *)
LEMMA TableInvIsEnough ==
  TableInv => SlotsInOrder /\ NamedBlocksCounted /\ SourceTable(blockTable)
<1> SUFFICES ASSUME TableInv
             PROVE  SlotsInOrder /\ NamedBlocksCounted /\ SourceTable(blockTable)
  OBVIOUS
<1>1. SlotsInOrder /\ NamedBlocksCounted
  BY DEF TableInv, Good, AllProper, Proper, Counted, SlotsInOrder, NamedBlocksCounted,
         Blocks, Targets, TargetsOf, References
<1>2. ASSUME NEW b \in 1..Len(blockTable), NEW i \in 1..Len(blockTable[b].code)
      PROVE  SourceInst(blockTable, blockTable[b].code[i])
  <2> DEFINE t == blockTable
             x == t[b].code[i]
  <2>1. x.op \notin LinkedOnly
    BY DEF TableInv, Good, AllProper, Proper, PlainCode
  <2>2. t[b].code \in Seq(Instruction)
    <3>1. t[b] \in BlockInfo
      BY ElementOfSeq DEF TableInv
    <3> QED
      BY <3>1 DEF BlockInfo
  <2>3. i \in DOMAIN t[b].code
    BY <2>2
  <2>4. x.op \in References => x.arg \in TargetsOf(t[b].code)
    BY <2>3 DEF TargetsOf
  <2>5. \A y \in TargetsOf(t[b].code) : y \in 1..Len(t) /\ t[y].calleeCount > 0
    BY DEF TableInv, Good, Counted
  <2> QED
    BY <2>1, <2>4, <2>5 DEF SourceInst, References, LinkedOnly
<1>3. SourceTable(blockTable)
  BY <1>2 DEF SourceTable
<1> QED
  BY <1>1, <1>3

(* What the builders add keeps a block's code proper.                        *)
LEMMA ProperAppended ==
  ASSUME NEW c \in Seq(Instruction), NEW n, Proper(c, n),
         NEW op \in Opcodes \ LinkedOnly, NEW arg \in Nat, op = "PopVar" => arg = n
  PROVE  Proper(Append(c, Inst(op, arg)), n + IF op = "PopVar" THEN 1 ELSE 0)
<1> DEFINE d == Append(c, Inst(op, arg))
<1>1. InOrder(d, n + IF op = "PopVar" THEN 1 ELSE 0)
  BY InOrderAppended DEF Proper
<1>2. /\ Len(c) \in Nat /\ Len(d) = Len(c) + 1
      /\ \A i \in 1..Len(c) : d[i] = c[i]
      /\ d[Len(c) + 1].op = op
  BY Appended
<1> HIDE DEF d
<1>3. PlainCode(d)
  BY <1>2 DEF Proper, PlainCode
<1> QED
  BY <1>1, <1>3 DEF Proper, d

(* A builder with another one inlined is proper for the variables of both. *)
LEMMA ProperInlined ==
  ASSUME NEW c \in Seq(Instruction), NEW n \in Nat, Proper(c, n),
         NEW d \in Seq(Instruction), NEW m \in Nat, Proper(d, m)
  PROVE  Proper(c \o ShiftedCode(d, n), n + m)
<1> DEFINE s == ShiftedCode(d, n)
           e == c \o s
<1>1. InOrder(e, n + m)
  BY InOrderInlined DEF Proper
<1>2. /\ s \in Seq(Instruction) /\ Len(s) = Len(d)
      /\ \A i \in 1..Len(d) : s[i].op = d[i].op
  BY Shifted
<1> HIDE DEF s
<1>3. /\ Len(c) \in Nat /\ Len(s) \in Nat /\ Len(e) = Len(c) + Len(s)
      /\ \A i \in 1..Len(c) : e[i] = c[i]
      /\ \A i \in 1..Len(s) : e[Len(c) + i] = s[i]
  BY <1>2, Concatenated
<1> HIDE DEF e
<1>4. ASSUME NEW i \in 1..Len(e)
      PROVE  e[i].op \notin LinkedOnly
  <2>1. CASE i \in 1..Len(c)
    BY <1>3, <2>1 DEF Proper, PlainCode
  <2>2. CASE i \notin 1..Len(c)
    <3>1. i - Len(c) \in 1..Len(s) /\ i = Len(c) + (i - Len(c))
      BY <1>3, <2>2
    <3>2. e[i] = s[i - Len(c)]
      BY <1>3, <3>1
    <3> QED
      BY <1>2, <3>1, <3>2 DEF Proper, PlainCode
  <2> QED
    BY <2>1, <2>2
<1> QED
  BY <1>1, <1>4 DEF Proper, PlainCode, e, s

(* What is known of one entry of the table.                                  *)
LEMMA Entry ==
  ASSUME NEW t \in Seq(BlockInfo), Good(t), NEW b \in 1..Len(t)
  PROVE  /\ t[b] \in BlockInfo
         /\ t[b].varCount \in Nat /\ t[b].code \in Seq(Instruction)
         /\ t[b].calleeCount \in Nat /\ t[b].base \in Nat
         /\ Proper(t[b].code, t[b].varCount)
         /\ \A x \in TargetsOf(t[b].code) : x \in 1..Len(t) /\ t[x].calleeCount > 0
<1>1. t[b] \in BlockInfo
  BY ElementOfSeq
<1>2. /\ t[b].varCount \in Nat /\ t[b].code \in Seq(Instruction)
      /\ t[b].calleeCount \in Nat /\ t[b].base \in Nat
  BY <1>1 DEF BlockInfo
<1> QED
  BY <1>1, <1>2 DEF Good, AllProper, Counted

(* A table of the same length is good when its code is in order and names    *)
(* what was counted before or is counted now, and no count went down.        *)
LEMMA Rebuilt ==
  ASSUME NEW t \in Seq(BlockInfo), Good(t),
         NEW u \in Seq(BlockInfo), Len(u) = Len(t),
         \A x \in 1..Len(t) : t[x].calleeCount > 0 => u[x].calleeCount > 0,
         \A x \in 1..Len(t) : Proper(u[x].code, u[x].varCount),
         \A y \in 1..Len(t) : \A x \in TargetsOf(u[y].code) :
           \/ x \in 1..Len(t) /\ u[x].calleeCount > 0
           \/ \E z \in 1..Len(t) : x \in TargetsOf(t[z].code)
  PROVE  Good(u)
  BY DEF Good, AllProper, Counted

(* A block without code binds and names nothing.                             *)
LEMMA NoCode == Proper(<< >>, 0) /\ TargetsOf(<< >>) = {}
<1> DEFINE c == << >>
<1>1. Len(c) = 0 /\ DOMAIN c = {}
  OBVIOUS
<1> HIDE DEF c
<1>2. BindersIn(c, 0) = {}
  BY DEF BindersIn
<1>3. 0 = Cardinality(BindersIn(c, Len(c)))
  BY <1>1, <1>2, FS_EmptySet
<1>4. InOrder(c, 0) /\ TargetsOf(c) = {}
  BY <1>1, <1>3 DEF InOrder, TargetsOf
<1>5. PlainCode(c)
  BY <1>1 DEF PlainCode
<1> QED
  BY <1>4, <1>5 DEF Proper, c

(* A new block does not disturb the others.                                  *)
LEMMA NewBlockKeeps ==
  ASSUME TableInv, BlockNew
  PROVE  TableInv'
<1> DEFINE x == [varCount |-> 0, code |-> << >>, calleeCount |-> 0, base |-> 1]
           t == blockTable
           u == Append(t, x)
           n == Len(t)
<1>1. t \in Seq(BlockInfo)
  BY DEF TableInv
<1>2. x \in BlockInfo /\ x.code = << >> /\ x.varCount = 0
  <2>1. << >> \in Seq(Instruction)
    BY EmptySeq
  <2> QED
    BY <2>1 DEF BlockInfo
<1>4. Proper(x.code, x.varCount) /\ TargetsOf(x.code) = {}
  <2> HIDE DEF x
  <2> QED
    BY <1>2, NoCode
<1> HIDE DEF x
<1>5. /\ u \in Seq(BlockInfo) /\ Len(u) = n + 1 /\ n \in Nat
      /\ \A i \in 1..n : u[i] = t[i]
      /\ u[n + 1] = x
  BY <1>1, <1>2, AppendProperties
<1> HIDE DEF u
<1>6. Good(t)
  BY DEF TableInv
<1>7. Good(u)
  <2> HIDE DEF t
  <2>1. \A b \in 1..n : Proper(t[b].code, t[b].varCount)
                       /\ \A z \in TargetsOf(t[b].code) : z \in 1..n /\ t[z].calleeCount > 0
    BY <1>6 DEF Good, AllProper, Counted
  <2> HIDE DEF n
  <2>2. ASSUME NEW b \in 1..(n + 1)
        PROVE  Proper(u[b].code, u[b].varCount)
               /\ \A z \in TargetsOf(u[b].code) : z \in 1..(n + 1) /\ u[z].calleeCount > 0
    <3>1. CASE b \in 1..n
      <4>1. u[b] = t[b]
        BY <1>5, <3>1
      <4>2. \A z \in TargetsOf(t[b].code) : z \in 1..(n + 1) /\ u[z].calleeCount > 0
        <5>1. \A z \in TargetsOf(t[b].code) : z \in 1..n /\ t[z].calleeCount > 0
          BY <2>1, <3>1
        <5>2. \A z \in 1..n : z \in 1..(n + 1) /\ u[z] = t[z]
          BY <1>5
        <5> QED
          BY <5>1, <5>2
      <4> QED
        BY <2>1, <3>1, <4>1, <4>2
    <3>2. CASE b = n + 1
      BY <1>4, <1>5, <3>2
    <3> QED
      BY <1>5, <3>1, <3>2
  <2> QED
    BY <1>5, <2>2 DEF Good, AllProper, Counted
<1>8. blockTable' = u
  BY DEF BlockNew, u, x
<1> QED
  BY <1>5, <1>7, <1>8 DEF TableInv

(* An entry with other code and another count of variables.                  *)
WithCode(x, c, n) == [x EXCEPT !.code = c, !.varCount = n]

(* What inlining writes into a builder, field by field. *)
LEMMA Fields ==
  ASSUME NEW x \in BlockInfo, NEW c \in Seq(Instruction), NEW n \in Nat
  PROVE  /\ WithCode(x, c, n) \in BlockInfo
         /\ WithCode(x, c, n).code = c
         /\ WithCode(x, c, n).varCount = n
         /\ WithCode(x, c, n).calleeCount = x.calleeCount
<1> DEFINE q == [x EXCEPT !.code = c]
           r == [q EXCEPT !.varCount = n]
<1>1. q \in BlockInfo /\ q.code = c /\ q.calleeCount = x.calleeCount
  BY DEF BlockInfo
<1>2. WithCode(x, c, n) = r
  BY DEF WithCode
<1> HIDE DEF q
<1>3. /\ r \in BlockInfo /\ r.code = q.code /\ r.varCount = n
      /\ r.calleeCount = q.calleeCount
  BY <1>1 DEF BlockInfo
<1> HIDE DEF r
<1> QED
  BY <1>1, <1>2, <1>3

(* An entry that is referenced once more.                                    *)
LEMMA OneMore ==
  ASSUME NEW x \in BlockInfo
  PROVE  /\ [x EXCEPT !.calleeCount = x.calleeCount + 1] \in BlockInfo
         /\ [x EXCEPT !.calleeCount = x.calleeCount + 1].code = x.code
         /\ [x EXCEPT !.calleeCount = x.calleeCount + 1].varCount = x.varCount
         /\ [x EXCEPT !.calleeCount = x.calleeCount + 1].calleeCount > 0
  BY DEF BlockInfo

(* A block gets other code that is in order and names nothing new.           *)
LEMMA Replaced ==
  ASSUME NEW t \in Seq(BlockInfo), Good(t),
         NEW b \in 1..Len(t), NEW r \in BlockInfo,
         r.calleeCount = t[b].calleeCount, Proper(r.code, r.varCount),
         \A x \in TargetsOf(r.code) :
           \E z \in 1..Len(t) : x \in TargetsOf(t[z].code)
  PROVE  /\ [t EXCEPT ![b] = r] \in Seq(BlockInfo)
         /\ Good([t EXCEPT ![b] = r])
<1> DEFINE u == [t EXCEPT ![b] = r]
<1>1. /\ u \in Seq(BlockInfo) /\ Len(u) = Len(t)
      /\ u[b] = r /\ \A x \in 1..Len(t) : x # b => u[x] = t[x]
  BY ExceptSeq
<1> HIDE DEF u
<1>2. \A x \in 1..Len(t) : t[x].calleeCount = u[x].calleeCount
  BY <1>1
<1>3. \A x \in 1..Len(t) : Proper(u[x].code, u[x].varCount)
  BY <1>1 DEF Good, AllProper
<1>4. \A y \in 1..Len(t) : \A x \in TargetsOf(u[y].code) :
        \E z \in 1..Len(t) : x \in TargetsOf(t[z].code)
  BY <1>1
<1>5. Good(u)
  BY <1>1, <1>2, <1>3, <1>4, Rebuilt
<1> QED
  BY <1>1, <1>5 DEF u

(* An instruction that names no block and binds no variable.                 *)
LEMMA AddInstKeeps ==
  ASSUME TableInv, NEW b \in Blocks,
         NEW op \in Opcodes \ (References \union LinkedOnly \union {"PopVar"}),
         NEW arg \in Nat, AddInst(b, op, arg)
  PROVE  TableInv'
<1> DEFINE t == blockTable
           c == Append(t[b].code, Inst(op, arg))
           r == [t[b] EXCEPT !.code = c]
<1>1. t \in Seq(BlockInfo)
  BY DEF TableInv
<1>2. Good(t) /\ b \in 1..Len(t)
  BY DEF TableInv, Blocks
<1>3. blockTable' = [t EXCEPT ![b] = r]
  BY DEF AddInst, Emit
<1> HIDE DEF t
<1>4. /\ t[b] \in BlockInfo
      /\ t[b].varCount \in Nat /\ t[b].code \in Seq(Instruction)
      /\ Proper(t[b].code, t[b].varCount)
  BY <1>1, <1>2, Entry
<1>5. c \in Seq(Instruction) /\ TargetsOf(c) = TargetsOf(t[b].code)
  <2>1. op \in Opcodes /\ op \notin References
    OBVIOUS
  <2>2. c \in Seq(Instruction)
    BY <1>4, <2>1, Appended, Zenon
  <2>3. TargetsOf(c) = TargetsOf(t[b].code) \union {}
    BY <1>4, <2>1, TargetsAppended
  <2> QED
    BY <2>2, <2>3
<1>6. Proper(c, t[b].varCount)
  <2>1. Proper(c, t[b].varCount + IF op = "PopVar" THEN 1 ELSE 0)
    <3>1. op # "PopVar" /\ op \in Opcodes \ LinkedOnly
      OBVIOUS
    <3> QED
      BY <1>4, <3>1, ProperAppended
  <2>2. t[b].varCount + (IF op = "PopVar" THEN 1 ELSE 0) = t[b].varCount
    BY <1>4
  <2> QED
    BY <2>1, <2>2
<1> HIDE DEF c
<1>7. /\ r \in BlockInfo /\ r.code = c /\ r.varCount = t[b].varCount
      /\ r.calleeCount = t[b].calleeCount
  BY <1>4, <1>5 DEF BlockInfo
<1> HIDE DEF r
<1>8. blockTable' \in Seq(BlockInfo) /\ Good(blockTable')
  BY <1>1, <1>2, <1>3, <1>5, <1>6, <1>7, Replaced
<1> QED
  BY <1>8 DEF TableInv

(* A PopVar gets the next number.                                            *)
LEMMA AddInstPopVarKeeps ==
  ASSUME TableInv, NEW b \in Blocks, AddInstPopVar(b)
  PROVE  TableInv'
<1> DEFINE t == blockTable
           n == t[b].varCount
           c == Append(t[b].code, Inst("PopVar", n))
           r == WithCode(t[b], c, n + 1)
<1>1. t \in Seq(BlockInfo)
  BY DEF TableInv
<1>2. Good(t) /\ b \in 1..Len(t)
  BY DEF TableInv, Blocks
<1>3. blockTable' = [t EXCEPT ![b] = r]
  BY <1>1, <1>2 DEF AddInstPopVar, Emit, WithCode
<1> HIDE DEF t
<1>4. /\ t[b] \in BlockInfo
      /\ n \in Nat /\ t[b].code \in Seq(Instruction)
      /\ Proper(t[b].code, n)
  BY <1>1, <1>2, Entry
<1> HIDE DEF n
<1>5. c \in Seq(Instruction) /\ TargetsOf(c) = TargetsOf(t[b].code)
  <2>1. "PopVar" \in Opcodes /\ "PopVar" \notin References
    BY DEF Opcodes, References
  <2>2. c \in Seq(Instruction)
    BY <1>4, <2>1, Appended, Zenon
  <2>3. TargetsOf(c) = TargetsOf(t[b].code) \union {}
    BY <1>4, <2>1, TargetsAppended
  <2> QED
    BY <2>2, <2>3
<1>6. Proper(c, n + 1)
  <2>1. "PopVar" \in Opcodes \ LinkedOnly
    BY DEF Opcodes, LinkedOnly
  <2>2. Proper(c, n + IF "PopVar" = "PopVar" THEN 1 ELSE 0)
    BY <1>4, <2>1, ProperAppended
  <2> QED
    BY <2>2
<1> HIDE DEF c
<1>7. /\ r \in BlockInfo /\ r.code = c /\ r.varCount = n + 1
      /\ r.calleeCount = t[b].calleeCount
  <2> DEFINE k == n + 1
             x == t[b]
  <2>1. r = WithCode(x, c, k)
    OBVIOUS
  <2>2. k \in Nat /\ x \in BlockInfo
    BY <1>4
  <2> HIDE DEF r, k, x
  <2>3. /\ WithCode(x, c, k) \in BlockInfo
        /\ WithCode(x, c, k).code = c
        /\ WithCode(x, c, k).varCount = k
        /\ WithCode(x, c, k).calleeCount = x.calleeCount
    BY <1>5, <2>2, Fields
  <2> QED
    BY <2>1, <2>3 DEF k, x
<1> HIDE DEF r
<1>8. blockTable' \in Seq(BlockInfo) /\ Good(blockTable')
  BY <1>1, <1>2, <1>3, <1>5, <1>6, <1>7, Replaced
<1> QED
  BY <1>8 DEF TableInv

(* An inlined block brings its variables and names what it named before.     *)
LEMMA AddInlineBlockKeeps ==
  ASSUME TableInv, NEW b \in Blocks, NEW ib \in Blocks, AddInlineBlock(b, ib)
  PROVE  TableInv'
<1> DEFINE t == blockTable
           n == t[b].varCount
           m == t[ib].varCount
           c == t[b].code \o ShiftedCode(t[ib].code, n)
           r == WithCode(t[b], c, n + m)
<1>1. t \in Seq(BlockInfo)
  BY DEF TableInv
<1>2. Good(t) /\ b \in 1..Len(t) /\ ib \in 1..Len(t)
  BY DEF TableInv, Blocks
<1>3. blockTable' = [t EXCEPT ![b] = r]
  BY <1>1, <1>2 DEF AddInlineBlock, WithCode
<1> HIDE DEF t
<1>4. /\ t[b] \in BlockInfo
      /\ n \in Nat /\ t[b].code \in Seq(Instruction) /\ Proper(t[b].code, n)
      /\ m \in Nat /\ t[ib].code \in Seq(Instruction) /\ Proper(t[ib].code, m)
  BY <1>1, <1>2, Entry
<1> HIDE DEF n, m
<1>5. c \in Seq(Instruction)
  <2>1. ShiftedCode(t[ib].code, n) \in Seq(Instruction)
    BY <1>4, Shifted
  <2> QED
    BY <1>4, <2>1, Concatenated, Zenon
<1>6. TargetsOf(c) = TargetsOf(t[b].code) \union TargetsOf(t[ib].code)
  BY <1>4, TargetsInlined
<1>7. Proper(c, n + m)
  BY <1>4, ProperInlined
<1> HIDE DEF c
<1>8. /\ r \in BlockInfo /\ r.code = c /\ r.varCount = n + m
      /\ r.calleeCount = t[b].calleeCount
  <2> DEFINE k == n + m
             x == t[b]
  <2>1. r = WithCode(x, c, k)
    OBVIOUS
  <2>2. k \in Nat /\ x \in BlockInfo
    BY <1>4
  <2> HIDE DEF r, k, x
  <2>3. /\ WithCode(x, c, k) \in BlockInfo
        /\ WithCode(x, c, k).code = c
        /\ WithCode(x, c, k).varCount = k
        /\ WithCode(x, c, k).calleeCount = x.calleeCount
    BY <1>5, <2>2, Fields
  <2> QED
    BY <2>1, <2>3 DEF k, x
<1> HIDE DEF r
<1>9. blockTable' \in Seq(BlockInfo) /\ Good(blockTable')
  BY <1>1, <1>2, <1>3, <1>6, <1>7, <1>8, Replaced
<1> QED
  BY <1>9 DEF TableInv

(* A reference: the count goes up in the block it names, which may be the    *)
(* block it is added to.                                                     *)
LEMMA AddReferenceKeeps ==
  ASSUME TableInv, NEW b \in Blocks, NEW op \in References, NEW x \in Blocks,
         AddReference(b, op, x)
  PROVE  TableInv'
<1> DEFINE t == blockTable
           c == Append(t[b].code, Inst(op, x))
           r == [t[b] EXCEPT !.code = c]
           v == [t EXCEPT ![b] = r]
           q == [v[x] EXCEPT !.calleeCount = v[x].calleeCount + 1]
           u == [v EXCEPT ![x] = q]
<1>1. t \in Seq(BlockInfo)
  BY DEF TableInv
<1>2. Good(t) /\ b \in 1..Len(t) /\ x \in 1..Len(t) /\ x \in Nat
  BY DEF TableInv, Blocks
<1>3. blockTable' = u
  <2>1. v = Emit(b, op, x)
    BY DEF Emit
  <2> HIDE DEF v
  <2>2. blockTable' = [v EXCEPT ![x].calleeCount = @ + 1]
    BY <2>1 DEF AddReference
  <2> QED
    BY <2>2
<1>4. op \in Opcodes /\ op \in Opcodes \ LinkedOnly /\ op # "PopVar"
  BY DEF Opcodes, References, LinkedOnly
<1> HIDE DEF t
<1>5. /\ t[b] \in BlockInfo
      /\ t[b].varCount \in Nat /\ t[b].code \in Seq(Instruction)
      /\ Proper(t[b].code, t[b].varCount)
  BY <1>1, <1>2, Entry
<1>6. c \in Seq(Instruction)
  BY <1>2, <1>4, <1>5, Appended, Zenon
<1>7. TargetsOf(c) = TargetsOf(t[b].code) \union {x}
  BY <1>2, <1>4, <1>5, TargetsAppended
<1>8. Proper(c, t[b].varCount)
  <2>1. Proper(c, t[b].varCount + IF op = "PopVar" THEN 1 ELSE 0)
    BY <1>2, <1>4, <1>5, ProperAppended
  <2>2. t[b].varCount + (IF op = "PopVar" THEN 1 ELSE 0) = t[b].varCount
    BY <1>4, <1>5
  <2> QED
    BY <2>1, <2>2
<1> HIDE DEF c
<1>9. /\ r \in BlockInfo /\ r.code = c /\ r.varCount = t[b].varCount
      /\ r.calleeCount = t[b].calleeCount
  BY <1>5, <1>6 DEF BlockInfo
<1> HIDE DEF r
<1>10. /\ v \in Seq(BlockInfo) /\ Len(v) = Len(t)
       /\ v[b] = r /\ \A y \in 1..Len(t) : y # b => v[y] = t[y]
  BY <1>1, <1>2, <1>9, ExceptSeq
<1> HIDE DEF v
<1>11. \A y \in 1..Len(t) : v[y] \in BlockInfo /\ v[y].calleeCount = t[y].calleeCount
                             /\ v[y].calleeCount \in Nat
  <2>1. \A y \in 1..Len(t) : v[y] \in BlockInfo
    BY <1>10, ElementOfSeq
  <2> QED
    BY <1>9, <1>10, <2>1 DEF BlockInfo
<1>12. /\ q \in BlockInfo /\ q.code = v[x].code /\ q.varCount = v[x].varCount
       /\ q.calleeCount > 0
  <2>1. v[x] \in BlockInfo
    BY <1>2, <1>11
  <2> QED
    BY <2>1, OneMore, Zenon
<1> HIDE DEF q
<1>13. /\ u \in Seq(BlockInfo) /\ Len(u) = Len(t)
       /\ u[x] = q /\ \A y \in 1..Len(t) : y # x => u[y] = v[y]
  BY <1>2, <1>10, <1>12, ExceptSeq
<1> HIDE DEF u
<1>14. \A y \in 1..Len(t) :
         /\ u[y].code = IF y = b THEN c ELSE t[y].code
         /\ u[y].varCount = t[y].varCount
  <2>1. \A y \in 1..Len(t) :
          /\ v[y].code = IF y = b THEN c ELSE t[y].code
          /\ v[y].varCount = t[y].varCount
    <3>1. v[b].code = c /\ v[b].varCount = t[b].varCount
      BY <1>9, <1>10
    <3>2. \A y \in 1..Len(t) : y # b => v[y] = t[y]
      BY <1>10
    <3> QED
      BY <1>2, <3>1, <3>2
  <2>2. \A y \in 1..Len(t) : u[y].code = v[y].code /\ u[y].varCount = v[y].varCount
    BY <1>12, <1>13
  <2> QED
    BY <2>1, <2>2
<1>15. \A y \in 1..Len(t) : t[y].calleeCount > 0 => u[y].calleeCount > 0
  BY <1>11, <1>12, <1>13
<1>16. \A y \in 1..Len(t) : Proper(u[y].code, u[y].varCount)
  <2>1. \A y \in 1..Len(t) : Proper(t[y].code, t[y].varCount)
    BY <1>2 DEF Good, AllProper
  <2>2. ASSUME NEW y \in 1..Len(t)
        PROVE  Proper(u[y].code, u[y].varCount)
    <3>1. CASE y = b
      <4>1. u[y].code = c /\ u[y].varCount = t[b].varCount
        BY <1>2, <1>14, <3>1
      <4> QED
        BY <1>8, <4>1
    <3>2. CASE y # b
      <4>1. u[y].code = t[y].code /\ u[y].varCount = t[y].varCount
        BY <1>2, <1>14, <3>2
      <4> QED
        BY <2>1, <4>1
    <3> QED
      BY <3>1, <3>2
  <2> QED
    BY <2>2
<1>17. \A y \in 1..Len(t) : \A z \in TargetsOf(u[y].code) :
         \/ z \in 1..Len(t) /\ u[z].calleeCount > 0
         \/ \E w \in 1..Len(t) : z \in TargetsOf(t[w].code)
  <2>1. ASSUME NEW y \in 1..Len(t), NEW z \in TargetsOf(u[y].code)
        PROVE  \/ z \in 1..Len(t) /\ u[z].calleeCount > 0
               \/ \E w \in 1..Len(t) : z \in TargetsOf(t[w].code)
    <3>1. CASE y = b
      <4>1. z \in TargetsOf(t[b].code) \union {x}
        BY <1>7, <1>14, <3>1
      <4> QED
        BY <1>2, <1>12, <1>13, <4>1
    <3>2. CASE y # b
      <4>1. u[y].code = t[y].code
        BY <1>2, <1>14, <3>2
      <4> QED
        BY <2>1, <4>1
    <3> QED
      BY <3>1, <3>2
  <2> QED
    BY <2>1
<1>18. Good(u)
  BY <1>1, <1>2, <1>13, <1>15, <1>16, <1>17, Rebuilt
<1> QED
  BY <1>3, <1>13, <1>18 DEF TableInv

(* A rollback keeps blocks that name each other only.                        *)
LEMMA BlocksRollbackKeeps ==
  ASSUME TableInv, NEW n \in 0..(Len(blockTable) - 1), KeepsNames(n), BlocksRollback(n)
  PROVE  TableInv'
<1> DEFINE t == blockTable
           u == SubSeq(t, 1, n)
<1>1. t \in Seq(BlockInfo)
  BY DEF TableInv
<1>2. Good(t)
  BY DEF TableInv
<1>3. /\ blockTable' = u
      /\ \A y \in 1..n : TargetsOf(t[y].code) \subseteq 1..n
  BY DEF BlocksRollback, KeepsNames, Targets, TargetsOf, References
<1>4. n \in 0..(Len(t) - 1) /\ Len(t) \in Nat
  BY <1>1
<1> HIDE DEF t
<1>5. n \in Nat /\ n <= Len(t) /\ \A y \in 1..n : y \in 1..Len(t)
  BY <1>4
<1>6. u \in Seq(BlockInfo) /\ Len(u) = n /\ \A y \in 1..n : u[y] = t[y]
  BY <1>1, <1>5, SubSeqProperties
<1> HIDE DEF u
<1>7. \A y \in 1..n : Proper(u[y].code, u[y].varCount)
  BY <1>2, <1>5, <1>6 DEF Good, AllProper
<1>8. \A y \in 1..n : \A x \in TargetsOf(u[y].code) : x \in 1..n /\ u[x].calleeCount > 0
  BY <1>2, <1>3, <1>5, <1>6 DEF Good, Counted
<1>9. Good(u)
  BY <1>6, <1>7, <1>8 DEF Good, AllProper, Counted
<1> QED
  BY <1>3, <1>6, <1>9 DEF TableInv

(* A link assigns addresses only.                                            *)
LEMMA RebasedKeeps ==
  ASSUME TableInv, code \in Seq(Instruction), NEW e,
         blockTable' = Rebased(code, blockTable, e)
  PROVE  TableInv'
<1> DEFINE t == blockTable
           u == Rebased(code, t, e)
<1>1. t \in Seq(BlockInfo) /\ Good(t)
  BY DEF TableInv
<1> HIDE DEF t
<1>2. /\ u \in Seq(BlockInfo) /\ Len(u) = Len(t)
      /\ \A b \in 1..Len(t) : /\ u[b].code = t[b].code /\ u[b].varCount = t[b].varCount
                              /\ u[b].calleeCount = t[b].calleeCount
  BY <1>1, RebasedIs
<1> HIDE DEF u
<1>3. \A x \in 1..Len(t) : t[x].calleeCount > 0 => u[x].calleeCount > 0
  BY <1>2
<1>4. \A x \in 1..Len(t) : Proper(u[x].code, u[x].varCount)
  BY <1>1, <1>2 DEF Good, AllProper
<1>5. \A y \in 1..Len(t) : \A x \in TargetsOf(u[y].code) :
        \E z \in 1..Len(t) : x \in TargetsOf(t[z].code)
  BY <1>2
<1>6. Good(u)
  BY <1>1, <1>2, <1>3, <1>4, <1>5, Rebuilt
<1> QED
  BY <1>2, <1>6 DEF TableInv, t, u

-------------------------------------------------------------------------------
(* The image. *)

(* The image of every block of lk but those of ul is what the block says. *)
AllFaithful(t, c, lk, ul) == \A b \in lk \ ul : BlockFaithful(t, c, lk, b)

(***************************************************************************)
(* What is known of the code vector: it can be appended to, and while it   *)
(* is up to date it holds a faithful image of every linked block that did  *)
(* not change since.                                                       *)
(***************************************************************************)
ImageInv ==
  /\ code \in Seq(Instruction) /\ EndsInRet(code)
  /\ codeUpdated \in BOOLEAN
  /\ linked \subseteq Nat /\ unlinked \subseteq Blocks
  /\ codeUpdated => /\ linked \subseteq Blocks
                    /\ AllFaithful(blockTable, code, linked, unlinked)

IInv == TableInv /\ ImageInv

(* A block's image matches when it is faithful. *)
LEMMA FaithfulMatches ==
  ASSUME TableInv, code \in Seq(Instruction), NEW b \in Blocks,
         BlockFaithful(blockTable, code, linked, b)
  PROVE  ImageMatches(b)
<1> DEFINE src   == blockTable[b].code
           at(i) == code[blockTable[b].base + i - 1]
<1>1. blockTable[b] \in BlockInfo
  BY ElementOfSeq DEF TableInv, Blocks
<1>2. /\ src \in Seq(Instruction) /\ Len(src) \in Nat /\ blockTable[b].base \in Nat
      /\ DOMAIN code = 1..Len(code)
  BY <1>1 DEF BlockInfo
<1>3. blockTable[b].base + Len(src) \in DOMAIN code /\ at(Len(src) + 1).op = "Ret"
  <2>1. blockTable[b].base + (Len(src) + 1) - 1 = blockTable[b].base + Len(src)
    BY <1>2
  <2> QED
    BY <1>2, <2>1 DEF BlockFaithful
<1>4. ASSUME NEW i \in 1..Len(src)
      PROVE  /\ at(i).op = IF i = Len(src) /\ src[i].op \in DOMAIN TailOf
                           THEN TailOf[src[i].op] ELSE src[i].op
             /\ IF src[i].op \in {"PushBlock", "Call"}
                THEN src[i].arg \in linked /\ at(i).arg = blockTable[src[i].arg].base
                ELSE at(i).arg = src[i].arg
  <2> DEFINE x == src[i]
             y == at(i)
  <2>1. x \in Instruction
    BY <1>2, ElementOfSeq
  <2>2. y.op = IF i = Len(src) THEN TailForm(x).op ELSE x.op
    BY DEF BlockFaithful
  <2>3. SameInst(blockTable, linked, x, y)
    BY DEF BlockFaithful
  <2> HIDE DEF x, y
  <2>4. /\ DOMAIN TailOf = {"Call", "Apply"}
        /\ TailOf["Call"] = "TailCall" /\ TailOf["Apply"] = "TailApply"
    BY DEF TailOf
  <2>5. TailForm(x).op = IF x.op \in DOMAIN TailOf THEN TailOf[x.op] ELSE x.op
    BY <2>1, <2>4 DEF TailForm, Instruction
  <2>6. /\ y.op = IF i = Len(src) /\ x.op \in DOMAIN TailOf THEN TailOf[x.op] ELSE x.op
        /\ IF x.op \in {"PushBlock", "Call"}
           THEN x.arg \in linked /\ y.arg = blockTable[x.arg].base
           ELSE y.arg = x.arg
    BY <2>2, <2>3, <2>5 DEF SameInst
  <2> QED
    BY <2>6 DEF x, y
<1> HIDE DEF src, at
<1>5. /\ blockTable[b].base + Len(src) \in DOMAIN code
      /\ at(Len(src) + 1).op = "Ret"
      /\ \A i \in 1..Len(src) :
           /\ at(i).op = IF i = Len(src) /\ src[i].op \in DOMAIN TailOf
                         THEN TailOf[src[i].op] ELSE src[i].op
           /\ IF src[i].op \in {"PushBlock", "Call"}
              THEN src[i].arg \in linked /\ at(i).arg = blockTable[src[i].arg].base
              ELSE at(i).arg = src[i].arg
  BY <1>3, <1>4
<1> QED
  BY <1>5 DEF ImageMatches, src, at

(* The invariant gives the type invariant and the faithful image. *)
LEMMA IInvIsEnough == IInv => TypeOK /\ FreshImage
<1> SUFFICES ASSUME IInv PROVE TypeOK /\ FreshImage
  OBVIOUS
<1>1. TypeOK
  BY DEF IInv, TableInv, ImageInv, TypeOK
<1>2. ASSUME codeUpdated, NEW b \in linked \ unlinked
      PROVE  ImageMatches(b)
  <2>1. b \in Blocks /\ BlockFaithful(blockTable, code, linked, b)
    BY <1>2 DEF IInv, ImageInv, AllFaithful
  <2> QED
    BY <2>1, FaithfulMatches DEF IInv, ImageInv
<1> QED
  BY <1>1, <1>2 DEF FreshImage

(* A builder that outdates the code leaves nothing to say about it. *)
LEMMA OutdateKeeps ==
  ASSUME ImageInv, Outdate
  PROVE  ImageInv'
<1>1. code' = code /\ codeUpdated' = FALSE /\ linked' = {} /\ unlinked' = {}
  BY DEF Outdate
<1> QED
  BY <1>1 DEF ImageInv

(* One that does not leaves the image of every other block as it was. *)
LEMMA FaithfulSame ==
  ASSUME NEW t, NEW u, NEW c, NEW lk, NEW b,
         u[b] = t[b], \A x \in lk : u[x].base = t[x].base,
         BlockFaithful(t, c, lk, b)
  PROVE  BlockFaithful(u, c, lk, b)
<1>1. \A x, y : SameInst(t, lk, x, y) => SameInst(u, lk, x, y)
  BY DEF SameInst
<1> QED
  BY <1>1 DEF BlockFaithful

(* Inlining changes one block, and not its base. *)
LEMMA InlineChanges ==
  ASSUME IInv, NEW b \in Blocks, NEW ib \in Blocks, AddInlineBlock(b, ib)
  PROVE  /\ Len(blockTable') = Len(blockTable)
         /\ \A x \in Blocks : /\ blockTable'[x].base = blockTable[x].base
                              /\ x # b => blockTable'[x] = blockTable[x]
<1> DEFINE t == blockTable
           c == t[b].code \o ShiftedCode(t[ib].code, t[b].varCount)
           n == t[b].varCount + t[ib].varCount
<1>1. /\ t \in Seq(BlockInfo) /\ b \in 1..Len(t)
      /\ blockTable' = [t EXCEPT ![b] = WithCode(t[b], c, n)]
  BY DEF AddInlineBlock, WithCode, IInv, TableInv, Blocks
<1> HIDE DEF c, n
<1>2. t[b] \in BlockInfo
  BY <1>1, ElementOfSeq
<1>3. WithCode(t[b], c, n).base = t[b].base
  BY <1>2 DEF WithCode, BlockInfo
<1> QED
  BY <1>1, <1>3 DEF Blocks

(* Inlining moves no start of a block and no linked code. *)
LEMMA AddInlineBlockKeepsImage ==
  ASSUME IInv, NEW b \in Blocks, NEW ib \in Blocks, AddInlineBlock(b, ib)
  PROVE  ImageInv'
<1> DEFINE t == blockTable
           u == blockTable'
<1>1. /\ code' = code /\ codeUpdated' = codeUpdated /\ linked' = linked
      /\ unlinked' = IF codeUpdated THEN unlinked \union {b} ELSE {}
  BY DEF AddInlineBlock
<1>2. /\ Len(u) = Len(t)
      /\ \A x \in 1..Len(t) : u[x].base = t[x].base /\ (x # b => u[x] = t[x])
  <2>1. /\ Len(blockTable') = Len(blockTable)
        /\ \A x \in Blocks : /\ blockTable'[x].base = blockTable[x].base
                             /\ x # b => blockTable'[x] = blockTable[x]
    BY InlineChanges
  <2> QED
    BY <2>1 DEF Blocks
<1>3. Blocks' = Blocks
  BY <1>2 DEF Blocks
<1>4. ASSUME codeUpdated
      PROVE  AllFaithful(u, code, linked, unlinked')
  <2>1. ASSUME NEW x \in linked \ unlinked'
        PROVE  BlockFaithful(u, code, linked, x)
    <3>1. x \in linked \ unlinked /\ x # b /\ x \in 1..Len(t)
      BY <1>1, <1>4 DEF IInv, ImageInv, Blocks
    <3>2. BlockFaithful(t, code, linked, x)
      BY <1>4, <3>1 DEF IInv, ImageInv, AllFaithful
    <3>3. u[x] = t[x] /\ \A y \in linked : u[y].base = t[y].base
      BY <1>2, <1>4, <3>1 DEF IInv, ImageInv, Blocks
    <3> HIDE DEF t, u
    <3> QED
      BY <3>2, <3>3, FaithfulSame
  <2> QED
    BY <2>1 DEF AllFaithful
<1>5. unlinked' \subseteq Blocks
  BY <1>1 DEF IInv, ImageInv
<1> QED
  BY <1>1, <1>3, <1>4, <1>5 DEF IInv, ImageInv

(* A rollback keeps blocks whose images name kept blocks only. *)
LEMMA BlocksRollbackKeepsImage ==
  ASSUME IInv, NEW n \in 0..(Len(blockTable) - 1), KeepsNames(n), BlocksRollback(n)
  PROVE  ImageInv'
<1> DEFINE t == blockTable
           u == blockTable'
<1>1. /\ u = SubSeq(t, 1, n) /\ code' = code /\ codeUpdated' = codeUpdated
      /\ linked' = linked \intersect (1..n) /\ unlinked' = unlinked \intersect (1..n)
      /\ \A y \in 1..n : TargetsOf(t[y].code) \subseteq 1..n
  BY DEF BlocksRollback, KeepsNames, Targets, TargetsOf, References
<1>2. /\ t \in Seq(BlockInfo) /\ n \in Nat /\ n <= Len(t)
      /\ \A y \in 1..n : y \in 1..Len(t)
  BY DEF IInv, TableInv
<1>3. Len(u) = n /\ \A y \in 1..n : u[y] = t[y]
  <2> HIDE DEF t
  <2> QED
    BY <1>1, <1>2, SubSeqProperties
<1>4. Blocks' = 1..n
  BY <1>3 DEF Blocks
<1>5. ASSUME codeUpdated, NEW b \in linked' \ unlinked'
      PROVE  BlockFaithful(u, code, linked', b)
  <2>1. b \in linked \ unlinked /\ b \in 1..n
    BY <1>1
  <2>2. BlockFaithful(t, code, linked, b)
    BY <1>5, <2>1 DEF IInv, ImageInv, AllFaithful
  <2>3. ASSUME NEW i \in 1..Len(t[b].code), NEW y,
               SameInst(t, linked, t[b].code[i], y)
        PROVE  SameInst(u, linked', t[b].code[i], y)
    <3> DEFINE x == t[b].code[i]
    <3>1. x.op \in References => x.arg \in 1..n
      <4>1. t[b] \in BlockInfo
        BY <1>2, <2>1, ElementOfSeq
      <4>2. i \in DOMAIN t[b].code
        BY <4>1 DEF BlockInfo
      <4>3. x.op \in References => x.arg \in TargetsOf(t[b].code)
        BY <4>2 DEF TargetsOf
      <4> QED
        BY <1>1, <2>1, <4>3
    <3> HIDE DEF x, t, u
    <3>2. SameInst(t, linked, x, y)
      BY <2>3 DEF x
    <3>3. SameInst(u, linked', x, y)
      BY <1>1, <1>3, <3>1, <3>2 DEF SameInst, References
    <3> QED
      BY <3>3 DEF x
  <2>4. u[b] = t[b]
    BY <1>3, <2>1
  <2> HIDE DEF t, u
  <2> QED
    BY <2>2, <2>3, <2>4 DEF BlockFaithful
<1>6. codeUpdated => AllFaithful(u, code, linked', unlinked')
  BY <1>5 DEF AllFaithful
<1>7. /\ linked' \subseteq Nat /\ linked' \subseteq Blocks' /\ unlinked' \subseteq Blocks'
  BY <1>1, <1>4
<1> QED
  BY <1>1, <1>6, <1>7 DEF IInv, ImageInv

(***************************************************************************)
(* The link makes a faithful image of every block it emits, wherever in    *)
(* the code vector it starts.                                              *)
(***************************************************************************)
LEMMA LinkKeeps ==
  ASSUME IInv, NEW e \in Blocks, CodeUpdate(e), ~ codeUpdated
  PROVE  IInv'
<1> DEFINE t == blockTable
           u == Rebased(code, t, e)
           c == Linked(code, t, e)
<1>1. /\ blockTable' = u /\ code' = c /\ codeUpdated' = TRUE
      /\ linked' = Emitted(t, e) /\ unlinked' = {}
  BY DEF CodeUpdate
<1>2. /\ t \in Seq(BlockInfo) /\ SourceTable(t) /\ e \in 1..Len(t)
      /\ code \in Seq(Instruction) /\ EndsInRet(code)
  BY TableInvIsEnough DEF IInv, TableInv, ImageInv, Blocks
<1>3. TableInv'
  BY <1>1, <1>2, RebasedKeeps DEF IInv
<1> HIDE DEF t
<1>4. AllFaithful(u, c, Emitted(t, e), {})
  BY <1>2, LinkFaithful DEF AllFaithful
<1>5. c \in Seq(Instruction) /\ EndsInRet(c)
  <2>1. c \in Seq(Instruction)
    BY <1>2, LinkedHolds DEF LinkedIs
  <2>2. LinkageFrom(c, Len(code) + 1)
    BY <1>2, LinkSound
  <2> QED
    BY <2>1, <2>2 DEF LinkageFrom, EndsInRet
<1>6. Len(u) = Len(t)
  BY <1>2, RebasedIs
<1>7. Emitted(t, e) \subseteq 1..Len(t)
  BY DEF Emitted
<1> HIDE DEF u, c
<1>8. Blocks' = 1..Len(t)
  BY <1>1, <1>6 DEF Blocks
<1>9. ImageInv'
  BY <1>1, <1>4, <1>5, <1>7, <1>8 DEF ImageInv
<1> QED
  BY <1>3, <1>9 DEF IInv

-------------------------------------------------------------------------------
(* What the inlined uses mean. *)

(* The uses in an inlined block are renumbered as its bindings are.          *)
LEMMA ShiftedReads ==
  ASSUME NEW d \in Seq(Instruction), NEW n \in Nat, NEW i \in 1..Len(d),
         d[i].op = "PushVar"
  PROVE  ShiftedCode(d, n)[i].arg = d[i].arg + n
<1>1. d[i] \in [op : Opcodes, arg : Nat]
  BY ElementOfSeq DEF Instruction
<1>2. ShiftedCode(d, n)[i] = [d[i] EXCEPT !.arg = @ + n]
  BY DEF ShiftedCode
<1> QED
  BY <1>1, <1>2

(* A block's own bindings have numbers below its varCount.                   *)
LEMMA BindersBelow ==
  ASSUME NEW c \in Seq(Instruction), NEW n, InOrder(c, n),
         NEW j \in 1..Len(c), c[j].op = "PopVar"
  PROVE  c[j].arg < n
<1> DEFINE k == Len(c)
<1>1. k \in Nat /\ j \in 1..k
  OBVIOUS
<1>2. n = Cardinality(BindersIn(c, k)) /\ c[j].arg = Cardinality(BindersIn(c, j - 1))
  BY DEF InOrder
<1> HIDE DEF k
<1>3. j - 1 \in Nat /\ (j - 1) + 1 = j /\ j \in Nat /\ j <= k
  BY <1>1
<1>4. Cardinality(BindersIn(c, j)) = c[j].arg + 1 /\ c[j].arg \in Nat
  <2>1. Cardinality(BindersIn(c, (j - 1) + 1)) = Cardinality(BindersIn(c, j - 1)) + 1
    BY <1>3, BindersNext
  <2>2. Cardinality(BindersIn(c, j - 1)) \in Nat
    BY <1>3, BindersFinite
  <2> QED
    BY <1>2, <1>3, <2>1, <2>2
<1>5. BindersIn(c, j) \subseteq BindersIn(c, k)
  BY <1>1, <1>3 DEF BindersIn
<1>6. Cardinality(BindersIn(c, j)) <= Cardinality(BindersIn(c, k)) /\ n \in Nat
  BY <1>1, <1>2, <1>5, BindersFinite, FS_Subset
<1> QED
  BY <1>2, <1>4, <1>6

(* Inlining after a block whose numbers are in order: the bindings of that   *)
(* block are below its varCount, the inlined uses are not, and the inlined   *)
(* bindings moved with them.                                                 *)
LEMMA ReadsInlined ==
  ASSUME NEW c \in Seq(Instruction), NEW n \in Nat, InOrder(c, n),
         NEW d \in Seq(Instruction)
  PROVE  KeepsReads(c, d, c \o ShiftedCode(d, n))
<1> DEFINE s == ShiftedCode(d, n)
           e == c \o s
           k == Len(c)
<1>1. s \in Seq(Instruction) /\ Len(s) = Len(d) /\ k \in Nat /\ Len(d) \in Nat
  BY Shifted
<1>2. \A i \in 1..Len(d) :
        /\ s[i].op = d[i].op
        /\ d[i].op = "PopVar" => s[i].arg = d[i].arg + n
        /\ d[i].op = "PushVar" => s[i].arg = d[i].arg + n
  BY Shifted, ShiftedReads
<1>3. /\ \A i \in 1..k : e[i] = c[i]
      /\ \A i \in 1..Len(d) : e[k + i] = s[i]
  <2>1. /\ \A i \in 1..Len(c) : (c \o s)[i] = c[i]
        /\ \A i \in 1..Len(s) : (c \o s)[Len(c) + i] = s[i]
    BY <1>1, Concatenated, Zenon
  <2> QED
    BY <1>1, <2>1
<1>4. ASSUME NEW i \in 1..Len(d) PROVE d[i].arg \in Nat
  <2>1. d[i] \in [op : Opcodes, arg : Nat]
    BY ElementOfSeq DEF Instruction
  <2> QED
    BY <2>1
<1> HIDE DEF s, e
<1>5. ASSUME NEW i \in 1..Len(d), d[i].op = "PushVar"
      PROVE  BindersOf(e, k + i) = { k + j : j \in BindersOf(d, i) }
  <2>1. e[k + i].arg = d[i].arg + n
    BY <1>2, <1>3, <1>5
  <2>2. ASSUME NEW x \in BindersOf(e, k + i)
        PROVE  x \in { k + j : j \in BindersOf(d, i) }
    <3>1. x \in 1..((k + i) - 1) /\ e[x].op = "PopVar" /\ e[x].arg = d[i].arg + n
      BY <2>1, <2>2 DEF BindersOf
    <3>2. x \notin 1..k
      <4>1. SUFFICES ASSUME x \in 1..k PROVE FALSE
        OBVIOUS
      <4>2. c[x].op = "PopVar" /\ c[x].arg = d[i].arg + n
        BY <1>3, <3>1, <4>1
      <4>3. c[x].arg < n
        BY <4>1, <4>2, BindersBelow
      <4> QED
        BY <1>4, <4>2, <4>3
    <3>3. x - k \in 1..(i - 1) /\ x - k \in 1..Len(d) /\ x = k + (x - k)
      BY <1>1, <3>1, <3>2
    <3>4. d[x - k].op = "PopVar" /\ d[x - k].arg = d[i].arg
      <4>1. e[x] = s[x - k]
        BY <1>3, <3>3
      <4>2. s[x - k].op = "PopVar" /\ s[x - k].arg = d[i].arg + n
        BY <3>1, <4>1
      <4>3. d[x - k].op = "PopVar" /\ s[x - k].arg = d[x - k].arg + n
        BY <1>2, <3>3, <4>2
      <4>4. d[i].arg \in Nat /\ d[x - k].arg \in Nat
        BY <1>4, <3>3
      <4> QED
        BY <4>2, <4>3, <4>4
    <3> QED
      BY <3>3, <3>4 DEF BindersOf
  <2>3. ASSUME NEW j \in BindersOf(d, i)
        PROVE  k + j \in BindersOf(e, k + i)
    <3>1. j \in 1..(i - 1) /\ d[j].op = "PopVar" /\ d[j].arg = d[i].arg
      BY <2>3 DEF BindersOf
    <3>2. j \in 1..Len(d) /\ k + j \in 1..((k + i) - 1)
      BY <1>1, <3>1
    <3>3. e[k + j].op = "PopVar" /\ e[k + j].arg = d[i].arg + n
      BY <1>2, <1>3, <3>1, <3>2
    <3> QED
      BY <2>1, <3>2, <3>3 DEF BindersOf
  <2> QED
    BY <2>2, <2>3
<1> QED
  BY <1>5 DEF KeepsReads, e, s

(* One inlining of a block into another of the table.                        *)
LEMMA AddInlineBlockReads ==
  ASSUME TableInv, NEW b \in Blocks, NEW ib \in Blocks, AddInlineBlock(b, ib)
  PROVE  KeepsReads(blockTable[b].code, blockTable[ib].code, blockTable'[b].code)
<1> DEFINE t == blockTable
           n == t[b].varCount
           k == n + t[ib].varCount
           c == t[b].code \o ShiftedCode(t[ib].code, n)
           r == WithCode(t[b], c, k)
<1>1. t \in Seq(BlockInfo) /\ Good(t) /\ b \in 1..Len(t) /\ ib \in 1..Len(t)
  BY DEF TableInv, Blocks
<1>2. blockTable' = [t EXCEPT ![b] = r]
  BY <1>1 DEF AddInlineBlock, WithCode
<1> HIDE DEF t
<1>3. /\ t[b] \in BlockInfo /\ n \in Nat /\ t[ib].varCount \in Nat
      /\ t[b].code \in Seq(Instruction) /\ t[ib].code \in Seq(Instruction)
      /\ InOrder(t[b].code, n)
  BY <1>1, Entry DEF Proper
<1>4. k \in Nat
  BY <1>3
<1>5. KeepsReads(t[b].code, t[ib].code, c)
  BY <1>3, ReadsInlined
<1>6. c \in Seq(Instruction)
  <2>1. ShiftedCode(t[ib].code, n) \in Seq(Instruction)
    BY <1>3, Shifted
  <2> QED
    BY <1>3, <2>1, Concatenated, Zenon
<1> HIDE DEF c, k
<1>7. r.code = c
  BY <1>3, <1>4, <1>6, Fields
<1> HIDE DEF r
<1>8. blockTable'[b] = r
  BY <1>1, <1>2
<1> QED
  BY <1>5, <1>7, <1>8 DEF t

-------------------------------------------------------------------------------
(* The theorems. *)

(* Nothing depends on anything but the variables. *)
LEMMA StutterKeeps ==
  ASSUME IInv, UNCHANGED blockVars
  PROVE  IInv'
  BY DEF blockVars, IInv, TableInv, ImageInv, Blocks

(* A builder outdates the code, inlines a block or rolls the table back. *)
LEMMA BuildIs ==
  ASSUME Build
  PROVE  \/ Outdate
         \/ \E b, ib \in Blocks : AddInlineBlock(b, ib)
         \/ \E n \in 0..(Len(blockTable) - 1) : KeepsNames(n) /\ BlocksRollback(n)
  BY DEF Build, BlockNew, AddInstPopNull, AddInstPopVar, AddInstApply, AddInstPushImm,
         AddInstPushVar, AddInstOpr, AddInstPushBlock, AddInstCall, AddInst, AddReference

(* Every builder and every link keeps the invariant. *)
LEMMA BuildKeeps ==
  ASSUME IInv, Build
  PROVE  IInv'
<1>0. TableInv /\ ImageInv
  BY DEF IInv
<1>1. CASE BlockNew
  <2>1. Outdate
    BY <1>1 DEF BlockNew
  <2> QED
    BY <1>0, <1>1, <2>1, NewBlockKeeps, OutdateKeeps DEF IInv
<1>2. ASSUME NEW b \in Blocks,
             \/ AddInstPopNull(b) \/ AddInstApply(b)
             \/ \E l \in Literals : AddInstPushImm(b, l)
             \/ \E v \in Vars : AddInstPushVar(b, v)
             \/ \E o \in Oprs : AddInstOpr(b, o)
      PROVE  IInv'
  <2>1. PICK op \in {"PopNull", "Apply", "PushImm", "PushVar", "Opr"}, arg \in Nat :
          AddInst(b, op, arg)
    BY <1>2, PayloadAssumption
       DEF AddInstPopNull, AddInstApply, AddInstPushImm, AddInstPushVar, AddInstOpr
  <2>2. op \in Opcodes \ (References \union LinkedOnly \union {"PopVar"})
    BY DEF Opcodes, References, LinkedOnly
  <2>3. Outdate
    BY <2>1 DEF AddInst
  <2> QED
    BY <1>0, <2>1, <2>2, <2>3, AddInstKeeps, OutdateKeeps DEF IInv
<1>3. ASSUME NEW b \in Blocks, AddInstPopVar(b)
      PROVE  IInv'
  <2>1. Outdate
    BY <1>3 DEF AddInstPopVar
  <2> QED
    BY <1>0, <1>3, <2>1, AddInstPopVarKeeps, OutdateKeeps DEF IInv
<1>4. ASSUME NEW b \in Blocks, NEW x \in Blocks, AddInstPushBlock(b, x) \/ AddInstCall(b, x)
      PROVE  IInv'
  <2>1. PICK op \in References : AddReference(b, op, x)
    BY <1>4 DEF AddInstPushBlock, AddInstCall, References
  <2>2. Outdate
    BY <2>1 DEF AddReference
  <2> QED
    BY <1>0, <2>1, <2>2, AddReferenceKeeps, OutdateKeeps DEF IInv
<1>5. ASSUME NEW b \in Blocks, NEW x \in Blocks, AddInlineBlock(b, x)
      PROVE  IInv'
  BY <1>0, <1>5, AddInlineBlockKeeps, AddInlineBlockKeepsImage DEF IInv
<1>6. ASSUME NEW n \in 0..(Len(blockTable) - 1), KeepsNames(n), BlocksRollback(n)
      PROVE  IInv'
  BY <1>0, <1>6, BlocksRollbackKeeps, BlocksRollbackKeepsImage DEF IInv
<1> QED
  BY <1>1, <1>2, <1>3, <1>4, <1>5, <1>6 DEF Build

(* A link, and a link asked for when nothing changed, keep the invariant. *)
LEMMA CodeUpdateKeeps ==
  ASSUME IInv, NEW e \in Blocks, CodeUpdate(e)
  PROVE  IInv'
<1>1. CASE codeUpdated
  <2>1. UNCHANGED blockVars
    BY <1>1 DEF CodeUpdate
  <2> QED
    BY <2>1, StutterKeeps
<1> QED
  BY <1>1, LinkKeeps

(* An empty context satisfies it. *)
LEMMA InitIInv == Init => IInv
<1> SUFFICES ASSUME Init PROVE IInv
  OBVIOUS
<1>1. blockTable \in Seq(BlockInfo) /\ Len(blockTable) = 0
  BY DEF Init
<1>2. TableInv
  BY <1>1 DEF TableInv, Good, AllProper, Counted
<1>3. ImageInv
  <2>1. code = << >> /\ codeUpdated = FALSE /\ linked = {} /\ unlinked = {}
    BY DEF Init
  <2>2. code \in Seq(Instruction) /\ EndsInRet(code)
    BY <2>1, EmptySeq DEF EndsInRet
  <2> QED
    BY <2>1, <2>2 DEF ImageInv
<1> QED
  BY <1>2, <1>3 DEF IInv

(* Every reachable table and image satisfies the invariant, whatever is      *)
(* built and linked in whatever order.                                       *)
THEOREM TableInvariance == Spec => []IInv
<1>1. IInv /\ [Next]_blockVars => IInv'
  BY StutterKeeps, BuildKeeps, CodeUpdateKeeps DEF Next
<1> QED
  BY InitIInv, <1>1, PTL DEF Spec

(* The table, the code and the two sets keep their types.  The base of a     *)
(* block is the length of what is laid out before it.                        *)
THEOREM TypesKept == Spec => []TypeOK
<1>1. IInv => TypeOK
  BY IInvIsEnough
<1> QED
  BY <1>1, TableInvariance, PTL

(* The numbers of the variables are their places in the order of binding, in *)
(* every block and through every inlining (SR_blockAddInlineBlock).          *)
THEOREM SlotsStayInOrder == Spec => []SlotsInOrder
<1>1. IInv => SlotsInOrder
  BY TableInvIsEnough DEF IInv
<1> QED
  BY <1>1, TableInvariance, PTL

(* Inlining (SR_blockAddInlineBlock) renumbers uses and bindings alike: a    *)
(* use in the copy is bound by the copy of what bound it.                    *)
THEOREM ReadsStayBound == Spec => InlinedReads
<1>1. IInv /\ [Next]_blockVars =>
        [\A b, ib \in Blocks :
           AddInlineBlock(b, ib) =>
             KeepsReads(blockTable[b].code, blockTable[ib].code, blockTable'[b].code)]_blockVars
  BY AddInlineBlockReads DEF IInv
<1> QED
  BY <1>1, TableInvariance, PTL DEF Spec, InlinedReads

(* Every block that is named is counted, so a link emits it.                 *)
THEOREM NamedStayCounted == Spec => []NamedBlocksCounted
<1>1. IInv => NamedBlocksCounted
  BY TableInvIsEnough DEF IInv
<1> QED
  BY <1>1, TableInvariance, PTL

(***************************************************************************)
(* While the code is up to date, what it holds of every linked block is    *)
(* what the block says (SR_codeUpdate), through builders that outdate it,  *)
(* rollbacks that do not, and links that append to whatever was there.     *)
(***************************************************************************)
THEOREM ImageStaysFresh == Spec => []FreshImage
<1>1. IInv => FreshImage
  BY IInvIsEnough
<1> QED
  BY <1>1, TableInvariance, PTL
===============================================================================
