------------------------- MODULE SorcerProgram_proofs -------------------------
(***************************************************************************)
(* Proofs about SorcerProgram, for every source, every table of words and  *)
(* every bound: what the compiler leaves is what the machine needs, so a   *)
(* source that compiles runs without a failed assertion (ProgramSafe), on  *)
(* an image that is what its blocks say (CompiledImage).                   *)
(*                                                                         *)
(* The loader's invariant (SorcerMana_proofs) is extended by what it knows *)
(* of names: the variables of a block are those of its lists of variables, *)
(* in their order, and whatever a block has read so far is bound.  The     *)
(* link (SorcerBlocks_proofs) carries that over to the image, which        *)
(* is what the machine (SorcerVM_proofs) runs on.                          *)
(***************************************************************************)
EXTENDS SorcerProgram, SorcerMana_proofs

VMP == INSTANCE SorcerVM_proofs WITH
         Images <- {}, OprTable <- ArithOprs, HostCells <- 0,
         ReuseAfterFailure <- FALSE, p <- pc

-------------------------------------------------------------------------------
(* Lists of variables. *)

ListBegin == "["
ListEnd == "]"

(* Position l of the text tk is a name in a list of variables. *)
InList(tk, l) ==
  \E k \in 1..(l - 1) :
    tk[k] = ListBegin /\ \A m \in (k + 1)..l : tk[m] \notin {ListBegin, ListEnd}

(* Every list that begins before q ends before q. *)
Outside(tk, q) ==
  \A k \in 1..(q - 1) : tk[k] = ListBegin => \E m \in (k + 1)..(q - 1) : tk[m] = ListEnd

(* Every list is closed and holds nothing structural: ListsHoldNames. *)
ListsClosed(tk) ==
  \A l \in 1..Len(tk) : tk[l] = ListBegin =>
    \E r \in (l + 1)..Len(tk) :
      tk[r] = ListEnd /\ \A k \in (l + 1)..(r - 1) : tk[k] \notin Structural

(* The module says the same of its text. *)
LEMMA ListedIs ==
  /\ \A k : Listed(k) <=> InList(toks, k)
  /\ ListsHoldNames <=> ListsClosed(toks)
<1>1. \A k : Listed(k) <=> InList(toks, k)
  BY Zenon DEF Listed, InList, ListBegin, ListEnd
<1>2. ListsHoldNames <=> ListsClosed(toks)
  BY Zenon DEF ListsHoldNames, ListsClosed, ListBegin, ListEnd
<1> QED
  BY <1>1, <1>2

(* The brackets are not braces, and only one of them is structural. *)
LEMMA BracketsAre ==
  /\ ListBegin # ListEnd /\ ListBegin \notin Braces /\ ListEnd \notin Braces
  /\ ListBegin \in Structural /\ ListEnd \notin Structural
<1>1. {"{", "}", "[", "]", "#"} \intersect DOMAIN DefOf = {}
  BY Zenon, WordsAssumption
<1>2. "]" \notin DOMAIN DefOf
  BY <1>1, Zenon
<1>3. ListBegin # ListEnd
  BY Zenon DEF ListBegin, ListEnd
<1>4. ListBegin \notin Braces /\ ListEnd \notin Braces
  BY Zenon DEF ListBegin, ListEnd, Braces, Opener, Closer
<1>5. ListBegin \in Structural
  BY Zenon DEF ListBegin, Structural
<1>6. ListEnd \notin Structural
  BY <1>2, Zenon DEF ListEnd, Structural
<1> QED
  BY <1>3, <1>4, <1>5, <1>6

(* A position outside all lists is no name in one. *)
LEMMA OutsideIsPlain ==
  ASSUME NEW tk, NEW q \in Nat, Outside(tk, q)
  PROVE  ~ InList(tk, q)
<1> SUFFICES ASSUME NEW k \in 1..(q - 1), tk[k] = ListBegin,
                    \A m \in (k + 1)..q : tk[m] \notin {ListBegin, ListEnd}
             PROVE  FALSE
  BY DEF InList
<1>1. PICK m \in (k + 1)..(q - 1) : tk[m] = ListEnd
  BY DEF Outside
<1>2. m \in (k + 1)..q
  BY <1>1
<1> QED
  BY <1>1, <1>2

(* Nothing is open where the text begins. *)
LEMMA OutsideAtStart ==
  ASSUME NEW tk
  PROVE  Outside(tk, 1)
  BY DEF Outside

(* A step over any other token opens nothing. *)
LEMMA OutsideSteps ==
  ASSUME NEW tk, NEW q \in Nat, Outside(tk, q), tk[q] # ListBegin
  PROVE  Outside(tk, q + 1)
<1> SUFFICES ASSUME NEW k \in 1..((q + 1) - 1), tk[k] = ListBegin
             PROVE  \E m \in (k + 1)..((q + 1) - 1) : tk[m] = ListEnd
  BY DEF Outside
<1>1. k \in 1..(q - 1)
  OBVIOUS
<1>2. PICK m \in (k + 1)..(q - 1) : tk[m] = ListEnd
  BY <1>1 DEF Outside
<1>3. m \in (k + 1)..((q + 1) - 1)
  BY <1>2
<1> QED
  BY <1>2, <1>3

(* In a text whose lists hold names only, a brace or the name in front of a  *)
(* definition lies outside all of them.                                      *)
LEMMA OutsideStructural ==
  ASSUME NEW tk \in Seq(STRING), ListsClosed(tk), NEW k \in 1..Len(tk),
         tk[k] \in Structural
  PROVE  /\ Outside(tk, k) /\ ~ InList(tk, k)
         /\ tk[k] # ListBegin => Outside(tk, k + 1)
<1>1. Len(tk) \in Nat /\ k \in Nat
  OBVIOUS
<1>2. Outside(tk, k)
  <2> SUFFICES ASSUME NEW l \in 1..(k - 1), tk[l] = ListBegin
               PROVE  \E m \in (l + 1)..(k - 1) : tk[m] = ListEnd
    BY DEF Outside
  <2>1. l \in 1..Len(tk)
    BY <1>1
  <2>2. PICK r \in (l + 1)..Len(tk) :
          tk[r] = ListEnd /\ \A m \in (l + 1)..(r - 1) : tk[m] \notin Structural
    BY <2>1 DEF ListsClosed
  <2>3. r # k
    BY <2>2, BracketsAre
  <2>4. ~ (k < r)
    <3> SUFFICES ASSUME k < r PROVE FALSE
      OBVIOUS
    <3>1. k \in (l + 1)..(r - 1)
      BY <1>1, <2>2
    <3> QED
      BY <2>2, <3>1
  <2>5. r \in (l + 1)..(k - 1)
    BY <1>1, <2>2, <2>3, <2>4
  <2> QED
    BY <2>2, <2>5
<1> QED
  BY <1>1, <1>2, OutsideIsPlain, OutsideSteps

(* So the names in lists are words. *)
LEMMA NamesArePlain ==
  ASSUME NEW tk \in Seq(STRING), ListsClosed(tk), NEW k \in 1..Len(tk), InList(tk, k)
  PROVE  tk[k] \notin Structural /\ tk[k] # ListEnd
<1>1. tk[k] \notin Structural
  BY OutsideStructural
<1>2. tk[k] # ListEnd
  <2>1. PICK l \in 1..(k - 1) :
          tk[l] = ListBegin /\ \A m \in (l + 1)..k : tk[m] \notin {ListBegin, ListEnd}
    BY DEF InList
  <2>2. k \in (l + 1)..k
    BY <2>1
  <2> QED
    BY <2>1, <2>2
<1> QED
  BY <1>1, <1>2

(* The list that begins at k ends at the first bracket behind it: what lies  *)
(* between is names, and behind it no list is open.                          *)
LEMMA ListIs ==
  ASSUME NEW tk \in Seq(STRING), ListsClosed(tk), NEW k \in 1..Len(tk),
         tk[k] = ListBegin, NEW c \in (k + 1)..Len(tk), tk[c] = ListEnd,
         \A m \in (k + 1)..(c - 1) : tk[m] # ListEnd
  PROVE  /\ \A m \in (k + 1)..(c - 1) : tk[m] \notin Structural /\ InList(tk, m)
         /\ ~ InList(tk, c)
         /\ Outside(tk, c + 1)
<1>1. Len(tk) \in Nat /\ k \in Nat /\ c \in Nat
  OBVIOUS
<1>2. PICK r \in (k + 1)..Len(tk) :
        tk[r] = ListEnd /\ \A m \in (k + 1)..(r - 1) : tk[m] \notin Structural
  BY DEF ListsClosed
<1>3. c <= r
  <2> SUFFICES ASSUME r < c PROVE FALSE
    BY <1>1, <1>2
  <2>1. r \in (k + 1)..(c - 1)
    BY <1>1, <1>2
  <2> QED
    BY <1>2, <2>1
<1>4. ASSUME NEW m \in (k + 1)..(c - 1) PROVE tk[m] \notin Structural
  <2>1. m \in (k + 1)..(r - 1)
    BY <1>1, <1>2, <1>3
  <2> QED
    BY <1>2, <2>1
<1>5. ASSUME NEW m \in (k + 1)..(c - 1) PROVE tk[m] \notin {ListBegin, ListEnd}
  BY <1>4, BracketsAre
<1>6. ASSUME NEW m \in (k + 1)..(c - 1) PROVE InList(tk, m)
  <2>1. k \in 1..(m - 1) /\ \A x \in (k + 1)..m : x \in (k + 1)..(c - 1)
    BY <1>1
  <2> QED
    BY <1>5, <2>1 DEF InList
<1>7. ~ InList(tk, c)
  <2> SUFFICES ASSUME NEW l \in 1..(c - 1),
                      \A m \in (l + 1)..c : tk[m] \notin {ListBegin, ListEnd}
               PROVE  FALSE
    BY DEF InList
  <2>1. c \in (l + 1)..c
    BY <1>1
  <2> QED
    BY <2>1
<1>8. Outside(tk, c + 1)
  <2> SUFFICES ASSUME NEW l \in 1..((c + 1) - 1), tk[l] = ListBegin
               PROVE  \E m \in (l + 1)..((c + 1) - 1) : tk[m] = ListEnd
    BY DEF Outside
  <2>1. l # c
    BY BracketsAre
  <2>2. l \notin (k + 1)..(c - 1)
    BY <1>5
  <2>3. CASE l <= k
    <3>1. c \in (l + 1)..((c + 1) - 1)
      BY <1>1, <2>3
    <3> QED
      BY <3>1
  <2> QED
    BY <1>1, <2>1, <2>2, <2>3
<1> QED
  BY <1>4, <1>6, <1>7, <1>8

-------------------------------------------------------------------------------
(* What the loader knows of names. *)

(* An entry e of the variables of block i, which has n of them. *)
VarFits(tk, inf, i, e, n) ==
  /\ e.var < n
  /\ \E l \in 1..Len(tk) : InList(tk, l) /\ tk[l] = e.name /\ Innermost(inf, i, l)

VarsFit(tk, inf, i, n) ==
  \A x \in 1..Len(inf[i].vars) : VarFits(tk, inf, i, inf[i].vars[x], n)

(* The blocks of the loader are those of the table behind the first pr. *)
AllVarsFit(tk, inf, t, pr) ==
  \A i \in 1..Len(inf) : VarsFit(tk, inf, i, t[pr + i].varCount)

Known(inf, i, name) == \E x \in 1..Len(inf[i].vars) : inf[i].vars[x].name = name

(* Block i has bound what its lists before q name, and q is in none. *)
Placed(tk, inf, i, q) ==
  /\ Outside(tk, q)
  /\ \A l \in 1..(q - 1) : InList(tk, l) /\ Innermost(inf, i, l) => Known(inf, i, tk[l])

(* So has every block, where it goes on. *)
AllPlaced(tk, inf, cs, q) ==
  /\ Placed(tk, inf, cs[Len(cs)].block, q)
  /\ \A n \in 2..Len(cs) : Placed(tk, inf, cs[n - 1].block, cs[n].retP)

NamesAt(tk, inf, t, pr, cs, q) ==
  AllVarsFit(tk, inf, t, pr) /\ AllPlaced(tk, inf, cs, q)

(* The code c reads only what it has bound, and its literals are numerals. *)
ReadsBound(c) ==
  \A i \in 1..Len(c) :
    c[i].op = "PushVar" => c[i].arg < Cardinality(BindersIn(c, i - 1))

LiteralsFit(c) == \A i \in 1..Len(c) : c[i].op = "PushImm" => c[i].arg \in Numerals

AllReadBound(t) == \A b \in 1..Len(t) : ReadsBound(t[b].code)

AllLiteralsFit(t) == \A b \in 1..Len(t) : LiteralsFit(t[b].code)

NoCodeIn(t) == \A b \in 1..Len(t) : Len(t[b].code) = 0

(* The loader's invariant, extended; see LoaderInv. *)
NamesInv ==
  /\ phase = "tree" => NoCodeIn(blockTable)
  /\ phase \in {"load", "loaded"} => AllLiteralsFit(blockTable) /\ Len(blockTable) > prior
  /\ phase \in {"load", "loaded"} /\ ListsHoldNames /\ ~ Captures => AllReadBound(blockTable)
  /\ phase = "load" /\ ListsHoldNames /\ toks[1] # Opener =>
       NamesAt(toks, infos, blockTable, prior, callStack, p)

-------------------------------------------------------------------------------
(* What a step of the loader adds to a block's code. *)

(* Code that goes on reads what is bound if the new part does. *)
LEMMA ReadsOn ==
  ASSUME NEW c, NEW d, Len(c) \in Nat, Len(d) \in Nat, Len(c) <= Len(d),
         \A i \in 1..Len(c) : d[i] = c[i], ReadsBound(c),
         \A i \in (Len(c) + 1)..Len(d) :
           d[i].op = "PushVar" => d[i].arg < Cardinality(BindersIn(d, i - 1))
  PROVE  ReadsBound(d)
<1> SUFFICES ASSUME NEW i \in 1..Len(d), d[i].op = "PushVar"
             PROVE  d[i].arg < Cardinality(BindersIn(d, i - 1))
  BY DEF ReadsBound
<1>1. CASE i \in 1..Len(c)
  <2>1. i - 1 \in Nat /\ \A j \in 1..(i - 1) : c[j].op = d[j].op
    BY <1>1
  <2>2. BindersIn(c, i - 1) = BindersIn(d, i - 1)
    BY <2>1, BindersSame
  <2>3. d[i] = c[i] /\ c[i].arg < Cardinality(BindersIn(c, i - 1))
    BY <1>1 DEF ReadsBound
  <2> QED
    BY <2>2, <2>3
<1>2. CASE i \notin 1..Len(c)
  BY <1>2
<1> QED
  BY <1>1, <1>2

(* The table u is t with instruction x appended to block b. *)
Grown(t, u, b, x) ==
  /\ Len(u) = Len(t)
  /\ \A y \in 1..Len(t) : u[y].varCount = t[y].varCount
  /\ \A y \in 1..Len(t) : y # b => u[y].code = t[y].code
  /\ u[b].code = Append(t[b].code, x)

(* Literals stay numerals, *)
LEMMA GrownLiterals ==
  ASSUME NEW t \in Seq(BlockInfo), NEW u, NEW b \in 1..Len(t), NEW op \in Opcodes, NEW arg \in Nat,
         Grown(t, u, b, Inst(op, arg)), AllLiteralsFit(t),
         op = "PushImm" => arg \in Numerals
  PROVE  AllLiteralsFit(u)
<1> DEFINE c == t[b].code
           x == Inst(op, arg)
<1>1. c \in Seq(Instruction)
  <2>1. t[b] \in BlockInfo
    BY ElementOfSeq
  <2> QED
    BY <2>1 DEF BlockInfo
<1>2. LiteralsFit(c)
  BY DEF AllLiteralsFit
<1> HIDE DEF c
<1>3. LiteralsFit(Append(c, x))
  <2>1. /\ Len(c) \in Nat /\ Len(Append(c, x)) = Len(c) + 1
        /\ \A i \in 1..Len(c) : Append(c, x)[i] = c[i]
        /\ Append(c, x)[Len(c) + 1].op = op /\ Append(c, x)[Len(c) + 1].arg = arg
    BY <1>1, Appended
  <2> HIDE DEF x
  <2> DEFINE d == Append(c, x)
  <2> HIDE DEF d
  <2>2. ASSUME NEW i \in 1..Len(d), d[i].op = "PushImm" PROVE d[i].arg \in Numerals
    <3>1. i \in 1..Len(c) \/ i = Len(c) + 1
      BY <2>1 DEF d
    <3>2. CASE i \in 1..Len(c)
      BY <1>2, <2>1, <2>2, <3>2 DEF d, LiteralsFit
    <3>3. CASE i = Len(c) + 1
      BY <2>1, <2>2, <3>3 DEF d
    <3> QED
      BY <3>1, <3>2, <3>3
  <2> QED
    BY <2>2 DEF LiteralsFit, d
<1> SUFFICES ASSUME NEW y \in 1..Len(u) PROVE LiteralsFit(u[y].code)
  BY DEF AllLiteralsFit
<1>4. y \in 1..Len(t) /\ (y # b => u[y].code = t[y].code) /\ u[b].code = Append(c, x)
  BY DEF Grown, c
<1>5. LiteralsFit(t[y].code)
  BY <1>4 DEF AllLiteralsFit
<1> HIDE DEF x
<1> QED
  BY <1>3, <1>4, <1>5

(* and reads stay bound if the new instruction reads what is. *)
LEMMA GrownReads ==
  ASSUME NEW t \in Seq(BlockInfo), NEW u, NEW b \in 1..Len(t), NEW op \in Opcodes, NEW arg \in Nat,
         Grown(t, u, b, Inst(op, arg)), AllReadBound(t),
         op = "PushVar" => arg < Cardinality(BindersIn(t[b].code, Len(t[b].code)))
  PROVE  AllReadBound(u)
<1> DEFINE c == t[b].code
           x == Inst(op, arg)
<1>1. c \in Seq(Instruction)
  <2>1. t[b] \in BlockInfo
    BY ElementOfSeq
  <2> QED
    BY <2>1 DEF BlockInfo
<1>2. ReadsBound(c) /\ (op = "PushVar" => arg < Cardinality(BindersIn(c, Len(c))))
  BY DEF AllReadBound
<1> HIDE DEF c
<1>3. ReadsBound(Append(c, x))
  <2>1. /\ Len(c) \in Nat /\ Len(Append(c, x)) = Len(c) + 1
        /\ \A i \in 1..Len(c) : Append(c, x)[i] = c[i]
        /\ Append(c, x)[Len(c) + 1].op = op /\ Append(c, x)[Len(c) + 1].arg = arg
    BY <1>1, Appended
  <2> HIDE DEF x
  <2> DEFINE d == Append(c, x)
  <2> HIDE DEF d
  <2>2. ASSUME NEW i \in (Len(c) + 1)..Len(d), d[i].op = "PushVar"
        PROVE  d[i].arg < Cardinality(BindersIn(d, i - 1))
    <3>1. i = Len(c) + 1 /\ i - 1 = Len(c)
      BY <2>1 DEF d
    <3>2. BindersIn(c, Len(c)) = BindersIn(d, Len(c))
      <4>1. \A j \in 1..Len(c) : c[j].op = d[j].op
        BY <2>1 DEF d
      <4> QED
        BY <2>1, <4>1, BindersSame
    <3>3. d[i].op = op /\ d[i].arg = arg
      BY <2>1, <3>1 DEF d
    <3> QED
      BY <1>2, <2>2, <3>1, <3>2, <3>3
  <2>3. /\ Len(c) \in Nat /\ Len(d) \in Nat /\ Len(c) <= Len(d)
        /\ \A i \in 1..Len(c) : d[i] = c[i]
    BY <2>1 DEF d
  <2>4. ReadsBound(d)
    BY <1>2, <2>2, <2>3, ReadsOn
  <2> QED
    BY <2>4 DEF d
<1> SUFFICES ASSUME NEW y \in 1..Len(u) PROVE ReadsBound(u[y].code)
  BY DEF AllReadBound
<1>4. y \in 1..Len(t) /\ (y # b => u[y].code = t[y].code) /\ u[b].code = Append(c, x)
  BY DEF Grown, c
<1>5. ReadsBound(t[y].code)
  BY <1>4 DEF AllReadBound
<1> HIDE DEF x
<1> QED
  BY <1>3, <1>4, <1>5

(* SR_blockAddInst* appends one instruction, *)
LEMMA InstGrows ==
  ASSUME NEW t \in Seq(BlockInfo), NEW b \in 1..Len(t), NEW op \in Opcodes, NEW arg \in Nat
  PROVE  LET v == [t EXCEPT ![b].code = Append(@, Inst(op, arg))]
         IN v \in Seq(BlockInfo) /\ Len(v) = Len(t) /\ Grown(t, v, b, Inst(op, arg))
<1> DEFINE c == Append(t[b].code, Inst(op, arg))
           r == [t[b] EXCEPT !.code = c]
           v == [t EXCEPT ![b] = r]
<1>1. t[b] \in BlockInfo /\ t[b].code \in Seq(Instruction)
  <2>1. t[b] \in BlockInfo
    BY ElementOfSeq
  <2> QED
    BY <2>1 DEF BlockInfo
<1>2. c \in Seq(Instruction)
  BY <1>1, Appended, Zenon
<1> HIDE DEF c
<1>3. r \in BlockInfo /\ r.code = c /\ r.varCount = t[b].varCount
  BY <1>1, <1>2 DEF BlockInfo
<1> HIDE DEF r
<1>4. /\ v \in Seq(BlockInfo) /\ Len(v) = Len(t)
      /\ v[b] = r /\ \A y \in 1..Len(t) : y # b => v[y] = t[y]
  BY <1>3, ExceptSeq
<1> HIDE DEF v
<1>5. Grown(t, v, b, Inst(op, arg))
  BY <1>3, <1>4 DEF Grown, c
<1> QED
  BY <1>4, <1>5 DEF v, r, c

(* and a reference counts the block it names besides. *)
LEMMA ReferenceGrows ==
  ASSUME NEW t \in Seq(BlockInfo), NEW b \in 1..Len(t), NEW op \in Opcodes, NEW arg \in Nat,
         NEW x \in 1..Len(t)
  PROVE  Grown(t, [[t EXCEPT ![b].code = Append(@, Inst(op, arg))]
                     EXCEPT ![x].calleeCount = @ + 1], b, Inst(op, arg))
<1> DEFINE v == [t EXCEPT ![b].code = Append(@, Inst(op, arg))]
           q == [v[x] EXCEPT !.calleeCount = v[x].calleeCount + 1]
           u == [v EXCEPT ![x] = q]
<1>1. v \in Seq(BlockInfo) /\ Len(v) = Len(t) /\ Grown(t, v, b, Inst(op, arg))
  BY InstGrows
<1> HIDE DEF v
<1>2. q \in BlockInfo /\ q.code = v[x].code /\ q.varCount = v[x].varCount
  <2>1. v[x] \in BlockInfo
    BY <1>1, ElementOfSeq
  <2> QED
    BY <2>1, OneMore, Zenon
<1> HIDE DEF q
<1>3. Len(u) = Len(v) /\ u[x] = q /\ \A y \in 1..Len(v) : y # x => u[y] = v[y]
  BY <1>1, <1>2, ExceptSeq
<1> HIDE DEF u
<1>4. \A y \in 1..Len(t) : u[y].code = v[y].code /\ u[y].varCount = v[y].varCount
  BY <1>1, <1>2, <1>3
<1> HIDE DEF Inst
<1>5. Grown(t, u, b, Inst(op, arg))
  BY <1>1, <1>3, <1>4 DEF Grown
<1>6. u = [v EXCEPT ![x].calleeCount = @ + 1]
  BY DEF u, q
<1> QED
  BY <1>5, <1>6 DEF v

-------------------------------------------------------------------------------
(* The scopes of a word, and what a variable it names is bound to. *)

(* Whatever lies in a block lies in the block around it. *)
LEMMA ScopeSpans ==
  ASSUME NEW tk \in Seq(STRING), NEW inf, Forest(tk, inf), Ended(inf),
         NEW s \in 2..Len(inf), NEW k \in Nat, Spans(inf, s, k)
  PROVE  Spans(inf, inf[s].scope, k)
<1> DEFINE c == inf[s].scope
<1>1. /\ Len(inf) \in Nat /\ c \in 1..(s - 1)
      /\ Innermost(inf, c, inf[s].begin)
  BY InForest, ScopeBelow
<1>2. CASE c = 1
  BY <1>2 DEF Spans
<1>3. CASE c # 1
  <2> HIDE DEF c
  <2>1. c \in 2..Len(inf) /\ c < s
    BY <1>1, <1>3
  <2>2. /\ inf[s].begin \in Nat /\ inf[s].end \in Nat /\ inf[s].end # None
        /\ inf[c].begin \in Nat /\ inf[c].end \in Nat /\ inf[c].end # None
    BY <2>1, InForest DEF Ended
  <2>3. inf[c].begin < inf[s].begin /\ inf[s].begin <= inf[c].end
    BY <1>1, <1>3, <2>2 DEF Innermost, Spans
  <2>4. inf[s].begin < k /\ k <= inf[s].end
    BY <2>1, <2>2 DEF Spans
  <2>5. inf[c].end < inf[s].begin \/ inf[s].end < inf[c].end
    <3>1. Apart(inf, c, s)
      BY <2>1 DEF Forest, AllApart
    <3> QED
      BY <2>2, <3>1 DEF Apart
  <2>6. inf[c].begin < k /\ k <= inf[c].end
    BY <2>2, <2>3, <2>4, <2>5
  <2> QED
    BY <2>6 DEF Spans, c
<1> QED
  BY <1>2, <1>3

(* So it lies in all the scopes of the block. *)
LEMMA ChainsSpan ==
  ASSUME NEW tk \in Seq(STRING), NEW inf, Forest(tk, inf), Ended(inf),
         NEW f, Chains(inf, f), NEW k \in Nat
  PROVE  \A s \in 1..Len(inf) : Spans(inf, s, k) => \A t \in f[s] : Spans(inf, t, k)
<1>1. /\ Len(inf) \in Nat /\ inf[1].scope = None
      /\ f[0] = {} /\ \A s \in 1..Len(inf) : f[s] = {s} \union f[inf[s].scope]
  <2>1. \A s \in 0..Len(inf) : f[s] = IF s = 0 THEN {} ELSE {s} \union f[inf[s].scope]
    BY DEF Chains, None
  <2>2. Len(inf) \in Nat /\ inf[1].scope = None
    BY DEF Forest
  <2>3. 0 \in 0..Len(inf)
    BY <2>2
  <2>4. f[0] = {}
    BY <2>1, <2>3, Zenon
  <2>5. ASSUME NEW s \in 1..Len(inf) PROVE f[s] = {s} \union f[inf[s].scope]
    <3>1. s \in 0..Len(inf) /\ s # 0
      OBVIOUS
    <3> QED
      BY <2>1, <3>1, Zenon
  <2> QED
    BY <2>2, <2>4, <2>5
<1> DEFINE Within(s) == Spans(inf, s, k) => \A t \in f[s] : Spans(inf, t, k)
<1> DEFINE T == { n \in Nat : \A s \in 1..n : s <= Len(inf) => Within(s) }
<1>2. 0 \in T
  OBVIOUS
<1>3. ASSUME NEW n \in T PROVE n + 1 \in T
  <2>1. n \in Nat /\ \A s \in 1..n : s <= Len(inf) => Within(s)
    OBVIOUS
  <2>2. ASSUME n + 1 <= Len(inf), Spans(inf, n + 1, k), NEW t \in f[n + 1]
        PROVE  Spans(inf, t, k)
    <3>1. n + 1 \in 1..Len(inf) /\ (n + 1) - 1 = n
      BY <1>1, <2>1, <2>2
    <3>2. f[n + 1] = {n + 1} \union f[inf[n + 1].scope]
      BY <1>1, <3>1
    <3>3. CASE n + 1 = 1
      BY <1>1, <2>2, <3>2, <3>3 DEF None
    <3>4. CASE n + 1 # 1
      <4>1. n + 1 \in 2..Len(inf)
        BY <1>1, <3>1, <3>4
      <4>2. inf[n + 1].scope \in 1..n
        BY <3>1, <4>1, ScopeBelow
      <4>3. Spans(inf, inf[n + 1].scope, k)
        BY <2>2, <4>1, ScopeSpans
      <4>4. Within(inf[n + 1].scope)
        BY <1>1, <2>1, <2>2, <4>2
      <4> QED
        BY <2>2, <3>2, <4>3, <4>4
    <3> QED
      BY <3>3, <3>4
  <2>3. \A s \in 1..(n + 1) : s = n + 1 \/ s \in 1..n
    BY <2>1
  <2>4. n + 1 <= Len(inf) => Within(n + 1)
    BY <2>2
  <2> HIDE DEF Within
  <2>5. \A s \in 1..(n + 1) : s <= Len(inf) => Within(s)
    BY <2>1, <2>3, <2>4
  <2> QED
    BY <2>1, <2>5
<1>4. T = Nat
  <2>1. T \subseteq Nat
    OBVIOUS
  <2> HIDE DEF T
  <2> QED
    BY <1>2, <1>3, <2>1, AllNumbers
<1> HIDE DEF Within
<1>5. ASSUME NEW s \in 1..Len(inf) PROVE Within(s)
  <2>1. s \in T /\ s \in 1..s /\ s <= Len(inf)
    BY <1>1, <1>4
  <2> QED
    BY <2>1
<1> QED
  BY <1>5 DEF Within

(* A position spanned by a block is spanned by every scope of that block. *)
LEMMA ScopesSpan ==
  ASSUME NEW tk \in Seq(STRING), Forest(tk, infos), Ended(infos),
         NEW c \in 1..Len(infos), NEW k \in Nat, Spans(infos, c, k)
  PROVE  \A s \in Scopes(c) : s \in 1..c /\ Spans(infos, s, k)
<1>1. Len(infos) \in Nat /\ infos[1].scope = None
  BY DEF Forest
<1>2. ScopesBelow(infos)
  <2> SUFFICES ASSUME NEW s \in 1..Len(infos) PROVE infos[s].scope \in 0..(s - 1)
    BY DEF ScopesBelow
  <2>1. CASE s = 1
    BY <1>1, <2>1 DEF None
  <2>2. CASE s # 1
    <3>1. s \in 2..Len(infos)
      BY <1>1, <2>2
    <3>2. infos[s].scope \in 1..(s - 1)
      BY <3>1, ScopeBelow
    <3> QED
      BY <3>2
  <2> QED
    BY <2>1, <2>2
<1> DEFINE f == CHOOSE h : Chains(infos, h)
<1>3. Chains(infos, f)
  BY <1>1, <1>2, ChainsExist
<1>4. Scopes(c) = f[c]
  BY DEF Scopes, Chains
<1> HIDE DEF f
<1>5. \A s \in Scopes(c) : Spans(infos, s, k)
  BY <1>3, <1>4, ChainsSpan
<1> QED
  BY <1>5, ScopesAre

(* The brace of a block that a position lies in is around it. *)
LEMMA SpanIsAround ==
  ASSUME toks \in Seq(STRING), TreeDone(toks, infos),
         NEW k \in 1..Len(toks), NEW i \in 2..Len(infos), Spans(infos, i, k)
  PROVE  infos[i].begin \in Around(k)
<1> DEFINE b == infos[i].begin
           e == infos[i].end
<1>1. Forest(toks, infos) /\ Ended(infos) /\ Len(toks) \in Nat /\ k \in Nat
  BY DoneEnded DEF TreeDone
<1>2. b \in 1..Len(toks) /\ toks[b] = Opener /\ e \in Nat /\ e # None
  BY <1>1, InForest DEF Ended
<1>3. b < k /\ k <= e
  BY <1>1, <1>2 DEF Spans
<1>4. OpenFrom(toks, b, e)
  BY <1>2 DEF TreeDone, Balanced
<1>5. Around(k) = { j \in 1..(k - 1) :
                      toks[j] = Opener /\ \A m \in j..(k - 1) : Rise(toks, j, m) > 0 }
  BY OpeningIs DEF Around, Opener
<1> HIDE DEF b, e
<1>6. ASSUME NEW m \in b..(k - 1) PROVE Rise(toks, b, m) > 0
  <2>1. m \in b..(e - 1)
    BY <1>1, <1>2, <1>3
  <2> QED
    BY <1>4, <2>1 DEF OpenFrom
<1>7. b \in 1..(k - 1)
  BY <1>1, <1>2, <1>3
<1>8. b \in Around(k)
  BY <1>2, <1>5, <1>6, <1>7
<1> QED
  BY <1>8 DEF b

(* Every position lies in some innermost block. *)
LEMMA SomeInnermost ==
  ASSUME NEW inf, Len(inf) \in Nat, Len(inf) >= 1, NEW k
  PROVE  \E i \in 1..Len(inf) : Innermost(inf, i, k)
<1> DEFINE S == { j \in 1..Len(inf) : Spans(inf, j, k) }
<1>1. S \in SUBSET (0..Len(inf)) /\ 1 \in S
  BY DEF Spans
<1>2. Max(S) \in S /\ \A y \in S : y <= Max(S)
  <2> HIDE DEF S
  <2>1. S # {}
    BY <1>1
  <2> QED
    BY <1>1, <2>1, GreatestNumber
<1>3. Innermost(inf, Max(S), k)
  BY <1>2 DEF Innermost
<1> QED
  BY <1>2, <1>3

(* A name in a list of a block around position k binds what k spells. *)
LEMMA ListedIsBinding ==
  ASSUME toks \in Seq(STRING), TreeDone(toks, infos),
         NEW c, NEW k \in 1..Len(toks), Innermost(infos, c, k),
         NEW s \in Scopes(c), NEW l \in 1..Len(toks), Innermost(infos, s, l),
         InList(toks, l), toks[l] = toks[k]
  PROVE  l \in Bindings(k)
<1>1. Forest(toks, infos) /\ Ended(infos) /\ Len(infos) \in Nat /\ k \in Nat
  BY DoneEnded DEF TreeDone, Forest
<1>2. c \in 1..Len(infos) /\ Spans(infos, c, k)
  BY DEF Innermost
<1>3. s \in 1..c /\ Spans(infos, s, k)
  BY <1>1, <1>2, ScopesSpan
<1>4. Owner(l) \in Around(k) \union {Nowhere}
  <2>1. CASE s = 1
    <3>1. Owner(l) = Nowhere
      BY <2>1, OwnerIs
    <3> QED
      BY <3>1
  <2>2. CASE s # 1
    <3>1. s \in 2..Len(infos)
      BY <1>1, <1>2, <1>3, <2>2
    <3>2. Owner(l) = infos[s].begin
      BY <2>2, OwnerIs
    <3>3. infos[s].begin \in Around(k)
      BY <1>3, <3>1, SpanIsAround
    <3> QED
      BY <3>2, <3>3
  <2> QED
    BY <2>1, <2>2
<1>5. Listed(l)
  BY ListedIs
<1> QED
  BY <1>4, <1>5, Zenon DEF Bindings

(* A binding of the same owner lies in the same block. *)
LEMMA OwnIsInnermost ==
  ASSUME toks \in Seq(STRING), TreeDone(toks, infos),
         NEW c, NEW k \in 1..Len(toks), Innermost(infos, c, k), NEW l \in OwnBindings(k)
  PROVE  /\ l \in 1..(k - 1) /\ InList(toks, l) /\ toks[l] = toks[k]
         /\ Innermost(infos, c, l)
<1>1. Forest(toks, infos) /\ Len(infos) \in Nat /\ Len(infos) >= 1 /\ k \in Nat
  BY DEF TreeDone, Forest
<1>2. /\ l \in 1..Len(toks) /\ Listed(l) /\ toks[l] = toks[k]
      /\ Owner(l) = Owner(k) /\ l < k
  BY Zenon DEF OwnBindings, Bindings
<1>3. PICK i \in 1..Len(infos) : Innermost(infos, i, l)
  BY <1>1, SomeInnermost
<1>4. c \in 1..Len(infos)
  BY DEF Innermost
<1>5. /\ i = 1 => Owner(l) = Nowhere
      /\ i # 1 => Owner(l) = infos[i].begin
  BY <1>2, <1>3, OwnerIs
<1>6. /\ c = 1 => Owner(k) = Nowhere
      /\ c # 1 => Owner(k) = infos[c].begin
  BY OwnerIs
<1>7. ASSUME NEW j \in 1..Len(infos), j # 1
      PROVE  j \in 2..Len(infos) /\ infos[j].begin # Nowhere
  <2>1. j \in 2..Len(infos)
    BY <1>1, <1>7
  <2>2. infos[j].begin \in 1..Len(toks)
    BY <1>1, <2>1, InForest
  <2> QED
    BY <2>1, <2>2 DEF Nowhere
<1>8. i = c
  <2>1. CASE i = 1
    BY <1>2, <1>4, <1>5, <1>6, <1>7, <2>1
  <2>2. CASE c = 1
    BY <1>2, <1>3, <1>5, <1>6, <1>7, <2>2
  <2>3. CASE i # 1 /\ c # 1
    <3>1. i \in 2..Len(infos) /\ c \in 2..Len(infos) /\ infos[i].begin = infos[c].begin
      BY <1>2, <1>3, <1>4, <1>5, <1>6, <1>7, <2>3
    <3> QED
      BY <1>1, <3>1, InOrderOfBegin
  <2> QED
    BY <2>1, <2>2, <2>3
<1>9. l \in 1..(k - 1)
  BY <1>1, <1>2
<1>10. InList(toks, l)
  BY <1>2, ListedIs
<1> QED
  BY <1>2, <1>3, <1>8, <1>9, <1>10

(* A word that the loader takes for a variable uses a name. *)
LEMMA WordUses ==
  ASSUME NEW k \in 1..Len(toks), Outside(toks, k),
         toks[k] \notin Structural \union Quoted, toks[k] # "#", toks[k] # ListEnd
  PROVE  Uses(k)
<1>1. k \in Nat
  OBVIOUS
<1>2. ~ Listed(k)
  BY <1>1, OutsideIsPlain, ListedIs
<1> QED
  BY <1>2, Zenon DEF Uses, ListEnd

(* In a source that captures nothing, a variable that a block reads is one    *)
(* it has bound.                                                              *)
LEMMA ReadIsBound ==
  ASSUME toks \in Seq(STRING), TreeDone(toks, infos), ListsHoldNames, ~ Captures,
         Cur \in 1..Len(infos), p \in 1..Len(toks), Innermost(infos, Cur, p),
         IsVar, AllVarsFit(toks, infos, blockTable, prior),
         Placed(toks, infos, Cur, p)
  PROVE  FindVar(Tok).var < blockTable[Global(Cur)].varCount
<1>1. /\ Forest(toks, infos) /\ Tok = toks[p]
      /\ Tok \notin Structural \union Quoted /\ Tok # "#" /\ VarScopes(Tok) # {}
  BY DEF TreeDone, IsVar, PlainWord, Tok
<1> DEFINE S == VarScopes(Tok)
<1>2. S \in SUBSET Scopes(Cur)
  BY DEF VarScopes
<1>3. Max(S) \in S /\ Max(S) \in 1..Len(infos) /\ (Cur \in S => Max(S) = Cur)
  BY <1>1, <1>2, KnowingScopes
<1>4. ASSUME NEW i \in 1..Len(infos) PROVE VarsFit(toks, infos, i, blockTable[prior + i].varCount)
  BY DEF AllVarsFit
<1>5. ASSUME NEW i \in 1..Len(infos)
      PROVE  infos[i].vars \in Seq([name : STRING, var : Nat])
  BY <1>1, InfoFields DEF Forest
<1> DEFINE m == Max(S)
<1>6. PICK x \in 1..Len(infos[m].vars) : infos[m].vars[x].name = Tok
  <2>1. Knows(infos[m].vars, Tok)
    BY <1>3 DEF VarScopes
  <2>2. DOMAIN infos[m].vars = 1..Len(infos[m].vars)
    BY <1>3, <1>5
  <2> HIDE DEF m
  <2> QED
    BY <2>1, <2>2 DEF Knows
<1>7. m \in Scopes(Cur) /\ m \in 1..Len(infos)
  BY <1>2, <1>3
<1> HIDE DEF m
<1>8. PICK l \in 1..Len(toks) :
        InList(toks, l) /\ toks[l] = Tok /\ Innermost(infos, m, l)
  <2>1. VarFits(toks, infos, m, infos[m].vars[x], blockTable[prior + m].varCount)
    BY <1>4, <1>6, <1>7 DEF VarsFit
  <2> QED
    BY <1>6, <2>1 DEF VarFits
<1>9. l \in Bindings(p)
  BY <1>1, <1>7, <1>8, ListedIsBinding
<1>10. Uses(p)
  <2>1. ListsClosed(toks)
    BY ListedIs
  <2>2. Tok # ListEnd
    BY <1>8, <2>1, NamesArePlain
  <2>3. Outside(toks, p)
    BY DEF Placed
  <2> QED
    BY <1>1, <2>2, <2>3, WordUses
<1>11. PICK o \in OwnBindings(p) : TRUE
  BY <1>9, <1>10, Zenon DEF Captures
<1>12. /\ o \in 1..(p - 1) /\ InList(toks, o) /\ toks[o] = Tok
       /\ Innermost(infos, Cur, o)
  BY <1>1, OwnIsInnermost
<1>13. Known(infos, Cur, Tok)
  BY <1>12 DEF Placed
<1>14. Knows(infos[Cur].vars, Tok)
  BY <1>5, <1>13 DEF Known, Knows
<1>15. Cur \in S
  BY <1>1, <1>14, ScopesAre DEF VarScopes
<1>16. FindVar(Tok) = First(infos[Cur].vars, Tok)
  BY <1>3, <1>15 DEF FindVar
<1>17. PICK y \in 1..Len(infos[Cur].vars) : First(infos[Cur].vars, Tok) = infos[Cur].vars[y]
  BY <1>5, <1>14, FirstIs
<1>18. VarFits(toks, infos, Cur, infos[Cur].vars[y], blockTable[prior + Cur].varCount)
  BY <1>4, <1>17 DEF VarsFit
<1> QED
  BY <1>16, <1>17, <1>18 DEF VarFits, Global

-------------------------------------------------------------------------------
(* What the loader knows of names, as it moves. *)

(* A word that begins no list. *)
LEMMA PlacedSteps ==
  ASSUME NEW tk, NEW inf, NEW i, NEW q \in Nat, Placed(tk, inf, i, q), tk[q] # ListBegin
  PROVE  Placed(tk, inf, i, q + 1)
<1>1. Outside(tk, q) /\ ~ InList(tk, q)
  BY OutsideIsPlain DEF Placed
<1>2. Outside(tk, q + 1)
  BY <1>1, OutsideSteps
<1>3. ASSUME NEW l \in 1..((q + 1) - 1), InList(tk, l), Innermost(inf, i, l)
      PROVE  Known(inf, i, tk[l])
  <2>1. l = q \/ l \in 1..(q - 1)
    OBVIOUS
  <2> QED
    BY <1>1, <1>3, <2>1 DEF Placed
<1> QED
  BY <1>2, <1>3 DEF Placed

(* A block value, or the block of a definition, is skipped: its lists are its *)
(* own.                                                                       *)
LEMMA PlacedJumps ==
  ASSUME NEW tk \in Seq(STRING), ListsClosed(tk), NEW inf, Forest(tk, inf), Ended(inf),
         NEW b \in 2..Len(inf), NEW i, Innermost(inf, i, inf[b].begin),
         Placed(tk, inf, i, inf[b].begin)
  PROVE  Placed(tk, inf, i, inf[b].end + 1)
<1> DEFINE k == inf[b].begin
           e == inf[b].end
<1>1. /\ Len(inf) \in Nat /\ Len(tk) \in Nat /\ k \in 1..Len(tk) /\ tk[k] = Opener
      /\ e \in 1..Len(tk) /\ k < e /\ tk[e] = Closer /\ Innermost(inf, inf[b].scope, k)
  BY InForest DEF Ended
<1>2. i < b /\ i \in 1..Len(inf)
  <2>1. i = inf[b].scope
    BY <1>1, OneInnermost
  <2>2. inf[b].scope \in 1..(b - 1)
    BY ScopeBelow
  <2> QED
    BY <1>1, <2>1, <2>2
<1>3. Opener \in Structural /\ Closer \in Structural /\ Closer # ListBegin
  <2>1. Opener \in Structural /\ Closer \in Structural
    BY Zenon DEF Structural, Opener, Closer
  <2> QED
    BY <2>1, BracketsAre DEF Braces
<1>4. Outside(tk, e + 1) /\ ~ InList(tk, k)
  BY <1>1, <1>3, OutsideStructural
<1>5. ASSUME NEW l \in 1..((e + 1) - 1), InList(tk, l), Innermost(inf, i, l)
      PROVE  Known(inf, i, tk[l])
  <2>1. CASE l < k
    <3>1. l \in 1..(k - 1)
      BY <1>1, <2>1
    <3> QED
      BY <1>5, <3>1 DEF Placed
  <2>2. CASE l = k
    BY <1>4, <1>5, <2>2
  <2>3. CASE k < l
    <3>1. Spans(inf, b, l)
      BY <1>1, <2>3 DEF Spans
    <3>2. b \in 1..Len(inf)
      BY <1>1
    <3>3. b <= i
      BY <1>5, <3>1, <3>2 DEF Innermost
    <3> QED
      BY <1>1, <1>2, <3>3
  <2> QED
    BY <1>1, <2>1, <2>2, <2>3
<1> QED
  BY <1>4, <1>5 DEF Placed

(* At the beginning of a block none of its lists has been read. *)
LEMMA PlacedEnters ==
  ASSUME NEW tk \in Seq(STRING), ListsClosed(tk), NEW inf, Forest(tk, inf), Ended(inf),
         NEW b \in 2..Len(inf)
  PROVE  Placed(tk, inf, b, inf[b].begin + 1)
<1> DEFINE k == inf[b].begin
<1>1. /\ Len(inf) \in Nat /\ Len(tk) \in Nat /\ k \in 1..Len(tk) /\ tk[k] = Opener
  BY InForest DEF Ended
<1>2. Opener \in Structural /\ Opener # ListBegin
  <2>1. Opener \in Structural
    BY Zenon DEF Structural, Opener
  <2> QED
    BY <2>1, BracketsAre DEF Braces
<1>3. Outside(tk, k + 1)
  BY <1>1, <1>2, OutsideStructural
<1>4. ASSUME NEW l \in 1..((k + 1) - 1), Innermost(inf, b, l)
      PROVE  FALSE
  <2>1. b # 1 /\ k < l
    BY <1>1, <1>4 DEF Innermost, Spans
  <2> QED
    BY <1>1, <2>1
<1> QED
  BY <1>3, <1>4 DEF Placed

(* The same blocks, which know as much. *)
SameBlocks(inf, g) == \A i, k : Innermost(g, i, k) <=> Innermost(inf, i, k)

KnowMore(inf, g) ==
  \A i \in 1..Len(inf) : \A name : Known(inf, i, name) => Known(g, i, name)

SameVars(inf, g) ==
  Len(g) = Len(inf) /\ \A i \in 1..Len(inf) : g[i].vars = inf[i].vars

(* Tables with the same blocks that know no less leave a block placed, *)
LEMMA PlacedSame ==
  ASSUME NEW tk, NEW inf, NEW g, SameBlocks(inf, g), KnowMore(inf, g),
         NEW i \in 1..Len(inf), NEW q, Placed(tk, inf, i, q)
  PROVE  Placed(tk, g, i, q)
  BY DEF Placed, SameBlocks, KnowMore

(* and all that are suspended with it, *)
LEMMA AllPlacedSame ==
  ASSUME NEW tk, NEW inf, NEW g, SameBlocks(inf, g), KnowMore(inf, g),
         NEW cs, Len(inf) \in Nat, Len(inf) >= 1, Len(cs) \in Nat, Len(cs) >= 1,
         CallsFit(tk, inf, cs), NEW q, AllPlaced(tk, inf, cs, q)
  PROVE  AllPlaced(tk, g, cs, q)
<1>1. ASSUME NEW n \in 1..Len(cs) PROVE cs[n].block \in 1..Len(inf)
  <2>1. n = 1 \/ n \in 2..Len(cs)
    OBVIOUS
  <2> QED
    BY <2>1 DEF CallsFit
<1>2. Len(cs) \in 1..Len(cs) /\ \A n \in 2..Len(cs) : n - 1 \in 1..Len(cs)
  OBVIOUS
<1>3. Placed(tk, g, cs[Len(cs)].block, q)
  BY <1>1, <1>2, PlacedSame DEF AllPlaced
<1>4. ASSUME NEW n \in 2..Len(cs) PROVE Placed(tk, g, cs[n - 1].block, cs[n].retP)
  BY <1>1, <1>2, PlacedSame DEF AllPlaced
<1> QED
  BY <1>3, <1>4 DEF AllPlaced

(* and its variables are still those of its lists. *)
LEMMA VarsFitSame ==
  ASSUME NEW tk, NEW inf, NEW g, SameBlocks(inf, g), SameVars(inf, g),
         NEW t, NEW u, NEW pr \in Nat, Len(t) = pr + Len(inf), Len(inf) \in Nat,
         \A y \in 1..Len(t) : u[y].varCount = t[y].varCount,
         AllVarsFit(tk, inf, t, pr)
  PROVE  AllVarsFit(tk, g, u, pr)
<1> SUFFICES ASSUME NEW i \in 1..Len(g) PROVE VarsFit(tk, g, i, u[pr + i].varCount)
  BY DEF AllVarsFit
<1>1. i \in 1..Len(inf) /\ pr + i \in 1..Len(t) /\ g[i].vars = inf[i].vars
  BY DEF SameVars
<1>2. u[pr + i].varCount = t[pr + i].varCount
  BY <1>1
<1>3. VarsFit(tk, inf, i, t[pr + i].varCount)
  BY <1>1 DEF AllVarsFit
<1> QED
  BY <1>1, <1>2, <1>3 DEF VarsFit, VarFits, SameBlocks

(* Tables with the same variables know the same. *)
LEMMA SameVarsKnown ==
  ASSUME NEW inf, NEW g, SameVars(inf, g)
  PROVE  KnowMore(inf, g)
  BY DEF SameVars, Known, KnowMore

(* A block is entered, *)
LEMMA AllPlacedEnter ==
  ASSUME NEW tk, NEW inf, NEW cs, Len(cs) \in Nat, Len(cs) >= 1, NEW q,
         AllPlaced(tk, inf, cs, q), NEW b, NEW name, NEW dt, Pushed(cs, dt, b, name),
         dt[Len(cs) + 1].retP = q, NEW r, Placed(tk, inf, b, r)
  PROVE  AllPlaced(tk, inf, dt, r)
<1>1. /\ Len(dt) = Len(cs) + 1 /\ \A n \in 1..Len(cs) : dt[n] = cs[n]
      /\ dt[Len(dt)].block = b
  BY DEF Pushed
<1>2. ASSUME NEW n \in 2..Len(dt) PROVE Placed(tk, inf, dt[n - 1].block, dt[n].retP)
  <2>1. n - 1 \in 1..Len(cs) /\ dt[n - 1] = cs[n - 1]
    BY <1>1
  <2>2. CASE n = Len(cs) + 1
    BY <1>1, <2>1, <2>2 DEF AllPlaced
  <2>3. CASE n # Len(cs) + 1
    <3>1. n \in 2..Len(cs) /\ dt[n] = cs[n]
      BY <1>1, <2>3
    <3> QED
      BY <2>1, <3>1 DEF AllPlaced
  <2> QED
    BY <2>2, <2>3
<1> QED
  BY <1>1, <1>2 DEF AllPlaced

(* and returned from. *)
LEMMA AllPlacedReturn ==
  ASSUME NEW tk, NEW inf, NEW cs, Len(cs) \in Nat, Len(cs) > 1, NEW q,
         AllPlaced(tk, inf, cs, q), NEW dt, Popped(cs, dt)
  PROVE  AllPlaced(tk, inf, dt, cs[Len(cs)].retP)
<1>1. /\ Len(dt) = Len(cs) - 1 /\ \A n \in 1..Len(dt) : dt[n] = cs[n]
      /\ Len(dt) \in 1..Len(dt) /\ Len(cs) \in 2..Len(cs)
  BY DEF Popped
<1>2. Placed(tk, inf, dt[Len(dt)].block, cs[Len(cs)].retP)
  <2>1. Placed(tk, inf, cs[Len(cs) - 1].block, cs[Len(cs)].retP)
    BY <1>1 DEF AllPlaced
  <2> QED
    BY <1>1, <2>1
<1>3. ASSUME NEW n \in 2..Len(dt) PROVE Placed(tk, inf, dt[n - 1].block, dt[n].retP)
  <2>1. n \in 2..Len(cs) /\ n \in 1..Len(dt) /\ n - 1 \in 1..Len(dt)
    BY <1>1
  <2> QED
    BY <1>1, <2>1 DEF AllPlaced
<1> QED
  BY <1>2, <1>3 DEF AllPlaced

(* The loader goes on elsewhere in its block. *)
LEMMA AllPlacedMove ==
  ASSUME NEW tk, NEW inf, NEW cs, NEW q, AllPlaced(tk, inf, cs, q),
         NEW r, Placed(tk, inf, cs[Len(cs)].block, r)
  PROVE  AllPlaced(tk, inf, cs, r)
  BY DEF AllPlaced

-------------------------------------------------------------------------------
(* The steps of the loader keep what it knows of names. *)

(* The text does not change, so neither does what is said of it alone. *)
LEMMA SameText ==
  ASSUME toks' = toks, prior' = prior
  PROVE  (ListsHoldNames' <=> ListsHoldNames) /\ (Captures' <=> Captures)
<1>1. ASSUME NEW j, NEW k PROVE Opening(j, k)' = Opening(j, k)
  BY DEF Opening
<1>2. ASSUME NEW k PROVE Around(k)' = Around(k)
  BY <1>1 DEF Around, Opening
<1>3. ASSUME NEW k PROVE Owner(k)' = Owner(k)
  BY <1>2 DEF Owner
<1>4. ASSUME NEW k PROVE (Listed(k))' <=> Listed(k)
  BY DEF Listed
<1>5. ASSUME NEW k PROVE (Uses(k))' <=> Uses(k)
  BY <1>4 DEF Uses
<1>6. ASSUME NEW k PROVE Bindings(k)' = Bindings(k)
  BY <1>2, <1>3, <1>4 DEF Bindings
<1>7. ASSUME NEW k PROVE OwnBindings(k)' = OwnBindings(k)
  BY <1>3, <1>6 DEF OwnBindings
<1>8. Captures' <=> Captures
  BY <1>5, <1>6, <1>7 DEF Captures
<1> QED
  BY <1>8, SameWords

(* After a failure nothing is asked of the tables. *)
LEMMA NamesStop ==
  ASSUME phase' \notin {"tree", "load", "loaded"}
  PROVE  NamesInv'
  BY DEF NamesInv

(* The first pass emits nothing. *)
LEMMA NamesTree ==
  ASSUME phase' = "tree", NoCodeIn(blockTable')
  PROVE  NamesInv'
  BY DEF NamesInv

(* What has to be shown of a step of the second pass. *)
LEMMA NamesLoad ==
  ASSUME toks' = toks, prior' = prior, phase' = "load",
         AllLiteralsFit(blockTable'), Len(blockTable') > prior,
         ListsHoldNames /\ ~ Captures => AllReadBound(blockTable'),
         ListsHoldNames /\ toks[1] # Opener =>
           NamesAt(toks, infos', blockTable', prior, callStack', p')
  PROVE  NamesInv'
  BY SameText DEF NamesInv

(* The first pass emits nothing. *)
LEMMA TreeKeepsNames ==
  ASSUME LoaderInv, NamesInv, TreeOpen \/ TreeDef \/ TreeClose \/ TreeOther
  PROVE  NamesInv'
<1>1. /\ phase = "tree" /\ phase' = "tree"
      /\ blockTable' = blockTable \/ BlockNew
  BY DEF TreeOpen, TreeDef, TreeClose, TreeOther, InTree, OpenBlock, MoveTo, blockVars
<1>2. NoCodeIn(blockTable) /\ blockTable \in Seq(BlockInfo)
  <2>1. TableInv
    BY <1>1, WhileLoading DEF Loading
  <2> QED
    BY <1>1, <2>1 DEF NamesInv, TableInv
<1>3. CASE blockTable' = blockTable
  BY <1>1, <1>2, <1>3, NamesTree
<1>4. CASE BlockNew
  <2> DEFINE e == [varCount |-> 0, code |-> << >>, calleeCount |-> 0, base |-> 1]
  <2>1. blockTable' = Append(blockTable, e) /\ e \in BlockInfo /\ Len(e.code) = 0
    BY <1>4 DEF BlockNew, BlockInfo
  <2> HIDE DEF e
  <2>2. PICK t : t = blockTable
    OBVIOUS
  <2>3. PICK u : u = blockTable'
    OBVIOUS
  <2>4. u = Append(t, e) /\ t \in Seq(BlockInfo) /\ NoCodeIn(t)
    BY <1>2, <2>1, <2>2, <2>3
  <2>5. /\ Len(t) \in Nat /\ Len(u) = Len(t) + 1 /\ u[Len(t) + 1] = e
        /\ \A y \in 1..Len(t) : u[y] = t[y]
    BY <2>1, <2>4
  <2>6. ASSUME NEW y \in 1..Len(u) PROVE Len(u[y].code) = 0
    <3>1. y \in 1..Len(t) \/ y = Len(t) + 1
      BY <2>5
    <3> QED
      BY <2>1, <2>4, <2>5, <3>1 DEF NoCodeIn
  <2>7. NoCodeIn(u)
    BY <2>6 DEF NoCodeIn
  <2> QED
    BY <1>1, <2>3, <2>7, NamesTree
<1> QED
  BY <1>1, <1>3, <1>4

(* What has no code reads nothing. *)
LEMMA NothingRead ==
  ASSUME NEW t, NoCodeIn(t)
  PROVE  AllLiteralsFit(t) /\ AllReadBound(t)
<1>1. ASSUME NEW b \in 1..Len(t) PROVE 1..Len(t[b].code) = {}
  <2>1. Len(t[b].code) = 0
    BY DEF NoCodeIn
  <2> QED
    BY <2>1
<1> QED
  BY <1>1 DEF AllLiteralsFit, AllReadBound, LiteralsFit, ReadsBound

(* The second pass begins at the root, where nothing has been bound. *)
LEMMA TreeEndNames ==
  ASSUME LoaderInv, NamesInv, TreeEnd
  PROVE  NamesInv'
<1>1. /\ phase = "tree" /\ p = End /\ Len(callStack) = 1
      /\ infos' = [Closed EXCEPT ![1].loaded = TRUE]
      /\ p' = 1 /\ phase' = "load" /\ toks' = toks /\ prior' = prior
      /\ callStack' = callStack /\ blockTable' = blockTable
  BY DEF TreeEnd, InTree, blockVars
<1>2. /\ infos \in Seq(LoadBlockInfo) /\ Len(infos) \in Nat /\ Len(infos) >= 1 /\ p \in Nat
      /\ Len(blockTable) = prior + Len(infos) /\ prior \in Nat
  BY <1>1, WhileLoading DEF Loading
<1>3. TreeAt(toks, infos, callStack, p)
  BY <1>1 DEF LoaderInv, TreeInv
<1>4. callStack[1].block = 1 /\ callStack[1].def = NoName /\ Untouched(infos)
  BY <1>3 DEF TreeAt, OpenStack
<1>5. Closed = [infos EXCEPT ![1].end = p]
  BY <1>1, <1>4 DEF Closed, Cur, Last
<1>6. NoCodeIn(blockTable)
  BY <1>1 DEF NamesInv
<1>7. AllLiteralsFit(blockTable) /\ AllReadBound(blockTable)
  BY <1>6, NothingRead
<1>8. PICK g : g = infos'
  OBVIOUS
<1>9. Len(g) = Len(infos) /\ \A i \in 1..Len(infos) : g[i].vars = infos[i].vars
  <2>1. PICK h : h = [infos EXCEPT ![1].end = p]
    OBVIOUS
  <2>2. h \in Seq(LoadBlockInfo) /\ Len(h) = Len(infos)
        /\ \A i \in 1..Len(infos) : h[i].vars = infos[i].vars
    <3>1. 1 \in 1..Len(infos)
      BY <1>2
    <3>2. LET x == [infos EXCEPT ![1].end = p]
          IN /\ x \in Seq(LoadBlockInfo) /\ Len(x) = Len(infos)
             /\ \A i \in 1..Len(infos) : SameButEnd(infos, x, 1, i) /\ x[i].defs = infos[i].defs
             /\ x[1].end = p
      BY <1>2, <3>1, EndedIs
    <3>3. h \in Seq(LoadBlockInfo) /\ Len(h) = Len(infos)
          /\ \A i \in 1..Len(infos) : SameButEnd(infos, h, 1, i)
      BY <2>1, <3>2, Zenon
    <3> QED
      BY <3>3 DEF SameButEnd
  <2>3. g = [h EXCEPT ![1].loaded = TRUE]
    BY <1>1, <1>5, <1>8, <2>1
  <2> DEFINE r == [h[1] EXCEPT !.loaded = TRUE]
  <2>4. r \in LoadBlockInfo /\ r.vars = h[1].vars
    <3>1. h[1] \in LoadBlockInfo
      BY <1>2, <2>2, ElementOfSeq
    <3> QED
      BY <3>1 DEF LoadBlockInfo
  <2>5. g = [h EXCEPT ![1] = r]
    BY <2>3
  <2> HIDE DEF r
  <2>6. Len(g) = Len(h) /\ g[1] = r /\ \A i \in 1..Len(h) : i # 1 => g[i] = h[i]
    <3>1. 1 \in 1..Len(h)
      BY <1>2, <2>2
    <3> QED
      BY <2>2, <2>4, <2>5, <3>1, ExceptSeq
  <2> QED
    BY <1>2, <2>2, <2>4, <2>6
<1>10. AllVarsFit(toks, g, blockTable, prior)
  <2>1. ASSUME NEW i \in 1..Len(g) PROVE 1..Len(g[i].vars) = {}
    <3>1. g[i].vars = << >>
      BY <1>4, <1>9 DEF Untouched
    <3> QED
      BY <3>1
  <2> QED
    BY <2>1 DEF AllVarsFit, VarsFit
<1>11. AllPlaced(toks, g, callStack, 1)
  <2>1. 2..Len(callStack) = {} /\ 1..(1 - 1) = {}
    BY <1>1
  <2> QED
    BY <2>1, OutsideAtStart DEF AllPlaced, Placed
<1>12. Len(blockTable) > prior
  BY <1>2
<1>13. NamesAt(toks, g, blockTable, prior, callStack, 1)
  BY <1>10, <1>11 DEF NamesAt
<1> QED
  BY <1>1, <1>7, <1>8, <1>12, <1>13, NamesLoad

(* The steps that stop the loader. *)
LEMMA StopsNames ==
  ASSUME \/ TreeUnclosed \/ TreeUnopened \/ TreeBadDef \/ TreeLostDef
         \/ LoadUnclosed \/ LoadMisplacedClose \/ LoadForeignBlock \/ LoadOpenList
         \/ LoadForeignDef \/ LoadUnknown
  PROVE  NamesInv'
<1>1. ASSUME NEW e, Reject(e) PROVE phase' \notin {"tree", "load", "loaded"}
  BY <1>1 DEF Reject
<1>2. phase' \notin {"tree", "load", "loaded"}
  BY <1>1 DEF TreeUnclosed, TreeUnopened, TreeBadDef, TreeLostDef, LoadUnclosed,
              LoadMisplacedClose, LoadForeignBlock, LoadOpenList, LoadForeignDef,
              LoadUnknown, Crash
<1> QED
  BY <1>2, NamesStop

(* The end of the load. *)
LEMMA LoadEndNames ==
  ASSUME NamesInv, LoadEnd
  PROVE  NamesInv'
<1>1. /\ phase = "load" /\ phase' = "loaded" /\ toks' = toks /\ prior' = prior
      /\ blockTable' = blockTable
  BY DEF LoadEnd, blockVars
<1> QED
  BY <1>1, SameText DEF NamesInv

(* What NamesInv says during the second pass. *)
LEMMA NamesInTheLoad ==
  ASSUME LoaderInv, NamesInv, phase = "load"
  PROVE  /\ AllLiteralsFit(blockTable) /\ Len(blockTable) > prior
         /\ ListsHoldNames /\ ~ Captures => AllReadBound(blockTable)
         /\ ListsHoldNames => ListsClosed(toks)
         /\ ListsHoldNames /\ toks[1] # Opener =>
              /\ AllVarsFit(toks, infos, blockTable, prior)
              /\ AllPlaced(toks, infos, callStack, p)
              /\ Placed(toks, infos, Cur, p)
<1>1. Cur = callStack[Len(callStack)].block
  BY InTheLoad
<1> QED
  BY <1>1, ListedIs DEF NamesInv, NamesAt, AllPlaced

(* Back to the token that asked for the block. *)
LEMMA LoadCloseNames ==
  ASSUME LoaderInv, NamesInv, LoadClose
  PROVE  NamesInv'
<1>1. /\ phase = "load" /\ p # End /\ infos[Cur].end = p
      /\ callStack' = Front(callStack) /\ p' = Last(callStack).retP
      /\ toks' = toks /\ prior' = prior /\ phase' = phase
      /\ blockTable' = blockTable /\ infos' = infos
  BY DEF LoadClose, InLoad, MoveTo, blockVars
<1>2. /\ callStack \in Seq(LoadCall)
      /\ Len(callStack) \in Nat /\ Len(callStack) >= 1
      /\ infos[1].end = End
      /\ Len(callStack) = 1 => Cur = 1
  BY <1>1, InTheLoad
<1>3. Len(callStack) > 1
  <2> DEFINE n == Len(callStack)
  <2>1. n \in Nat /\ n >= 1 /\ n # 1
    BY <1>1, <1>2
  <2> HIDE DEF n
  <2>2. n > 1
    BY <2>1
  <2> QED
    BY <2>2 DEF n
<1>4. Popped(callStack, Front(callStack))
  BY <1>2, <1>3, PoppedIs
<1>5. ASSUME ListsHoldNames, toks[1] # Opener
      PROVE  NamesAt(toks, infos, blockTable, prior, callStack', p')
  <2>1. AllVarsFit(toks, infos, blockTable, prior) /\ AllPlaced(toks, infos, callStack, p)
    BY <1>1, <1>5, NamesInTheLoad
  <2>2. AllPlaced(toks, infos, Front(callStack), callStack[Len(callStack)].retP)
    BY <1>2, <1>3, <1>4, <2>1, AllPlacedReturn
  <2>3. p' = callStack[Len(callStack)].retP
    BY <1>1 DEF Last
  <2> QED
    BY <1>1, <2>1, <2>2, <2>3 DEF NamesAt
<1> QED
  BY <1>1, <1>5, NamesInTheLoad, NamesLoad

(* A block is loaded before the token that asked for it. *)
LEMMA EnterNames ==
  ASSUME LoaderInv, NamesInv, InLoad, NEW b \in 2..Len(infos), Enter(b)
  PROVE  NamesInv'
<1>1. /\ phase = "load" /\ p # End
      /\ infos' = [infos EXCEPT ![b].loaded = TRUE]
      /\ callStack' = Append(callStack, [block |-> b, def |-> NoName, retP |-> p])
      /\ p' = infos[b].begin + 1
      /\ toks' = toks /\ prior' = prior /\ phase' = phase
      /\ blockTable' = blockTable
  BY DEF InLoad, Enter, MoveTo, blockVars
<1>2. /\ toks \in Seq(STRING) /\ p \in Nat
      /\ infos \in Seq(LoadBlockInfo) /\ Len(infos) \in Nat /\ Len(infos) >= 1
      /\ callStack \in Seq(LoadCall) /\ Len(callStack) \in Nat /\ Len(callStack) >= 1
      /\ Forest(toks, infos) /\ Ended(infos) /\ infos[1].loaded /\ TreeDone(toks, infos)
      /\ CallsFit(toks, infos, callStack)
  BY <1>1, InTheLoad
<1>3. b \in 1..Len(infos) /\ b \in Nat /\ 1 \in 1..Len(infos)
  BY <1>2
<1>4. PICK g : g = infos'
  OBVIOUS
<1>5. SameTree(infos, g) /\ g[1].loaded
  <2>1. g = [infos EXCEPT ![b].loaded = TRUE]
    BY <1>1, <1>4
  <2>2. SameTree(infos, g) /\ \A i \in 1..Len(infos) : infos[i].loaded \/ i = b => g[i].loaded
    BY <1>2, <1>3, <2>1, MarkedIs, Zenon
  <2> QED
    BY <1>2, <1>3, <2>2
<1>6. SameVars(infos, g)
  <2>1. infos[b] \in LoadBlockInfo
    BY <1>2, <1>3, ElementOfSeq
  <2> QED
    BY <1>1, <1>2, <1>3, <1>4, <1>5, <2>1 DEF LoadBlockInfo, SameVars, SameTree
<1>7. SameBlocks(infos, g) /\ KnowMore(infos, g)
  BY <1>2, <1>5, <1>6, DoneKept, SameVarsKnown DEF SameBlocks
<1>8. PICK cs : cs = callStack'
  OBVIOUS
<1>9. Pushed(callStack, cs, b, NoName) /\ cs[Len(callStack) + 1].retP = p
  <2>1. NoName \in STRING
    BY WordsAssumption
  <2> QED
    BY <1>1, <1>2, <1>3, <1>8, <2>1, PushedIs
<1>10. Len(blockTable) = prior + Len(infos) /\ prior \in Nat
  BY <1>1, WhileLoading DEF Loading
<1>11. ASSUME ListsHoldNames, toks[1] # Opener
       PROVE  NamesAt(toks, g, blockTable, prior, cs, infos[b].begin + 1)
  <2>1. AllVarsFit(toks, infos, blockTable, prior) /\ AllPlaced(toks, infos, callStack, p)
        /\ ListsClosed(toks)
    BY <1>1, <1>11, NamesInTheLoad
  <2>2. AllVarsFit(toks, g, blockTable, prior)
    BY <1>2, <1>6, <1>7, <1>10, <2>1, VarsFitSame
  <2>3. Placed(toks, infos, b, infos[b].begin + 1)
    BY <1>2, <2>1, PlacedEnters
  <2>4. AllPlaced(toks, infos, cs, infos[b].begin + 1)
    BY <1>2, <1>9, <2>1, <2>3, AllPlacedEnter
  <2>5. CallsFit(toks, infos, cs) /\ Len(cs) \in Nat /\ Len(cs) >= 1
    <3>1. LoaderInv'
      BY <1>1, EnterKeeps, <1>11
    <3>2. CallsFit(toks, g, cs) /\ Len(cs) \in Nat /\ Len(cs) >= 1
      BY <1>1, <1>4, <1>8, <3>1 DEF LoaderInv, LoadInv, CallsFit
    <3> QED
      BY <1>5, <3>2 DEF CallsFit, SameTree
  <2>6. AllPlaced(toks, g, cs, infos[b].begin + 1)
    BY <1>2, <1>7, <2>4, <2>5, AllPlacedSame
  <2> QED
    BY <2>2, <2>6 DEF NamesAt
<1> QED
  BY <1>1, <1>4, <1>8, <1>11, NamesInTheLoad, NamesLoad

(* A brace enters its block. *)
LEMMA LoadOpenNames ==
  ASSUME LoaderInv, NamesInv, LoadOpen
  PROVE  NamesInv'
<1>1. /\ InLoad /\ phase = "load" /\ p # End /\ Tok = Opener
      /\ ~ infos[FindBlock(p)].loaded /\ Enter(FindBlock(p))
  BY DEF LoadOpen, InLoad, Opener
<1>2. /\ toks \in Seq(STRING) /\ p \in 1..Len(toks) /\ Tok = toks[p]
      /\ TreeDone(toks, infos) /\ infos[1].loaded
  BY <1>1, InTheLoad
<1>3. FindBlock(p) \in 2..Len(infos)
  <2>1. /\ p # 1 => FindBlock(p) \in 2..Len(infos)
        /\ p = 1 => FindBlock(p) = 1
    BY <1>1, <1>2, FindBlockIs
  <2> QED
    BY <1>1, <1>2, <2>1
<1> QED
  BY <1>1, <1>3, EnterNames

(* A word enters the block that it names, if that is not loaded yet. *)
LEMMA LoadCalleeNames ==
  ASSUME LoaderInv, NamesInv, LoadCallee
  PROVE  NamesInv'
<1>1. /\ InLoad /\ phase = "load" /\ DefScopes(Tok) # {} /\ Enter(FindDef(Tok).block)
  BY DEF LoadCallee, InLoad, IsDef, PlainWord
<1>2. toks \in Seq(STRING) /\ Forest(toks, infos) /\ Cur \in 1..Len(infos)
  BY <1>1, InTheLoad
<1>3. FindDef(Tok).block \in 2..Len(infos)
  BY <1>1, <1>2, FindDefIs
<1> QED
  BY <1>1, <1>3, EnterNames

(* A word that changes neither the infos nor the calls. *)
LEMMA WordNames ==
  ASSUME LoaderInv, NamesInv, Word, NEW q, MoveTo(q),
         AllLiteralsFit(blockTable'), Len(blockTable') = Len(blockTable),
         \A y \in 1..Len(blockTable) : blockTable'[y].varCount = blockTable[y].varCount,
         ListsHoldNames /\ ~ Captures => AllReadBound(blockTable'),
         ListsHoldNames /\ toks[1] # Opener => Placed(toks, infos, Cur, q)
  PROVE  NamesInv'
<1>1. /\ phase = "load" /\ phase' = phase /\ toks' = toks /\ prior' = prior
      /\ infos' = infos /\ callStack' = callStack /\ p' = q
  BY DEF Word, InLoad, MoveTo
<1>2. /\ Cur = callStack[Len(callStack)].block /\ Len(infos) \in Nat
      /\ Len(blockTable) = prior + Len(infos) /\ prior \in Nat
  BY <1>1, InTheLoad, WhileLoading DEF Loading
<1>3. ASSUME ListsHoldNames, toks[1] # Opener
      PROVE  NamesAt(toks, infos, blockTable', prior, callStack, q)
  <2>1. AllVarsFit(toks, infos, blockTable, prior) /\ AllPlaced(toks, infos, callStack, p)
    BY <1>1, <1>3, NamesInTheLoad
  <2>2. PICK u : u = blockTable'
    OBVIOUS
  <2>3. \A y \in 1..Len(blockTable) : u[y].varCount = blockTable[y].varCount
    BY <2>2
  <2>4. SameBlocks(infos, infos) /\ SameVars(infos, infos)
    BY DEF SameBlocks, SameVars
  <2>5. AllVarsFit(toks, infos, u, prior)
    BY <1>2, <2>1, <2>3, <2>4, VarsFitSame
  <2>6. AllPlaced(toks, infos, callStack, q)
    BY <1>2, <1>3, <2>1, AllPlacedMove
  <2> QED
    BY <2>2, <2>5, <2>6 DEF NamesAt
<1>4. Len(blockTable') > prior
  BY <1>1, NamesInTheLoad
<1> QED
  BY <1>1, <1>3, <1>4, NamesLoad

(* Both kinds of instructions are added to the code of the block. *)
LEMMA AddedIs ==
  ASSUME TableInv, NEW b \in Blocks, NEW op \in Opcodes, NEW arg \in Nat,
         AddInst(b, op, arg) \/ (arg \in Blocks /\ AddReference(b, op, arg))
  PROVE  Grown(blockTable, blockTable', b, Inst(op, arg))
<1>1. blockTable \in Seq(BlockInfo) /\ b \in 1..Len(blockTable)
  BY DEF TableInv, Blocks
<1>2. PICK t : t = blockTable
  OBVIOUS
<1>3. PICK u : u = blockTable'
  OBVIOUS
<1>4. CASE AddInst(b, op, arg)
  <2>1. u = [t EXCEPT ![b].code = Append(@, Inst(op, arg))]
    BY <1>2, <1>3, <1>4 DEF AddInst, Emit
  <2>4. t \in Seq(BlockInfo) /\ b \in 1..Len(t)
    BY <1>1, <1>2
  <2>2. LET v == [t EXCEPT ![b].code = Append(@, Inst(op, arg))]
        IN v \in Seq(BlockInfo) /\ Len(v) = Len(t) /\ Grown(t, v, b, Inst(op, arg))
    BY <2>4, InstGrows
  <2>3. Grown(t, u, b, Inst(op, arg))
    BY <2>1, <2>2, Zenon
  <2> QED
    BY <1>2, <1>3, <2>3
<1>5. CASE arg \in Blocks /\ AddReference(b, op, arg)
  <2>1. u = [[t EXCEPT ![b].code = Append(@, Inst(op, arg))] EXCEPT ![arg].calleeCount = @ + 1]
    BY <1>2, <1>3, <1>5 DEF AddReference, Emit
  <2>2. arg \in 1..Len(t) /\ t \in Seq(BlockInfo) /\ b \in 1..Len(t)
    BY <1>1, <1>2, <1>5 DEF Blocks
  <2>3. Grown(t, [[t EXCEPT ![b].code = Append(@, Inst(op, arg))]
                    EXCEPT ![arg].calleeCount = @ + 1], b, Inst(op, arg))
    BY <2>2, ReferenceGrows
  <2>4. Grown(t, u, b, Inst(op, arg))
    BY <2>1, <2>3, Zenon
  <2> QED
    BY <1>2, <1>3, <2>4
<1> QED
  BY <1>4, <1>5

(* A word that becomes an instruction. *)
LEMMA InstNames ==
  ASSUME LoaderInv, NamesInv, Word, NEW q, MoveTo(q),
         NEW op \in Opcodes, NEW arg \in Nat,
         \/ AddInst(Global(Cur), op, arg)
         \/ arg \in Blocks /\ AddReference(Global(Cur), op, arg),
         op = "PushImm" => arg \in Numerals,
         ListsHoldNames /\ ~ Captures /\ op = "PushVar" =>
           arg < blockTable[Global(Cur)].varCount,
         ListsHoldNames /\ toks[1] # Opener => Placed(toks, infos, Cur, q)
  PROVE  NamesInv'
<1> DEFINE b == Global(Cur)
<1>1. phase = "load" /\ TableInv /\ b \in Blocks
  BY InTheLoad, WhileLoading DEF Word, InLoad, Loading
<1> HIDE DEF b
<1>2. Grown(blockTable, blockTable', b, Inst(op, arg))
  BY <1>1, AddedIs DEF b
<1>3. PICK t : t = blockTable
  OBVIOUS
<1>4. PICK u : u = blockTable'
  OBVIOUS
<1>5. t \in Seq(BlockInfo) /\ b \in 1..Len(t) /\ Grown(t, u, b, Inst(op, arg))
      /\ AllLiteralsFit(t) /\ Good(t)
  BY <1>1, <1>2, <1>3, <1>4, NamesInTheLoad DEF TableInv, Blocks
<1>6. AllLiteralsFit(u)
  BY <1>5, GrownLiterals
<1>7. ASSUME ListsHoldNames, ~ Captures PROVE AllReadBound(u)
  <2>1. t[b].varCount = Cardinality(BindersIn(t[b].code, Len(t[b].code)))
    BY <1>5, Entry DEF Proper, InOrder
  <2>2. op = "PushVar" => arg < Cardinality(BindersIn(t[b].code, Len(t[b].code)))
    BY <1>3, <1>7, <2>1 DEF b
  <2>3. AllReadBound(t)
    BY <1>1, <1>3, <1>7, NamesInTheLoad
  <2> QED
    BY <1>5, <2>2, <2>3, GrownReads
<1> HIDE DEF Inst
<1>8. Len(u) = Len(t) /\ \A y \in 1..Len(t) : u[y].varCount = t[y].varCount
  BY <1>5 DEF Grown
<1> QED
  BY <1>3, <1>4, <1>6, <1>7, <1>8, WordNames

(* Words that are neither braces, names in front of a block nor lists. *)
LEMMA PlainWordsNames ==
  ASSUME LoaderInv, NamesInv, LoadApply \/ LoadVar \/ LoadOpr \/ LoadImm \/ LoadCallInst
  PROVE  NamesInv'
<1>1. Word /\ Tok \notin Structural /\ MoveTo(p + 1) /\ phase = "load" /\ p # End
  BY DEF LoadApply, LoadVar, LoadOpr, LoadImm, LoadCallInst, IsVar, IsDef, IsOther,
         PlainWord, Word, InLoad
<1>2. /\ Loading /\ toks \in Seq(STRING) /\ Forest(toks, infos) /\ Cur \in 1..Len(infos)
      /\ Tok = toks[p] /\ p \in Nat /\ p \in 1..Len(toks) /\ TreeDone(toks, infos)
      /\ ListsHoldNames =>
           /\ toks[1] = Opener => p = 1
           /\ Innermost(infos, Cur, p)
  BY <1>1, InTheLoad
<1>3. ASSUME ListsHoldNames, toks[1] # Opener PROVE Placed(toks, infos, Cur, p + 1)
  <2>1. Placed(toks, infos, Cur, p)
    BY <1>1, <1>3, NamesInTheLoad
  <2>2. toks[p] # ListBegin
    BY <1>1, <1>2, BracketsAre
  <2> QED
    BY <1>2, <2>1, <2>2, PlacedSteps
<1>4. CASE LoadApply
  <2>1. AddInst(Global(Cur), "Apply", 0)
    BY <1>4 DEF LoadApply, AddInstApply
  <2>2. "Apply" \in Opcodes /\ 0 \in Nat
    BY DEF Opcodes
  <2> QED
    BY <1>1, <1>3, <2>1, <2>2, InstNames
<1>5. CASE LoadVar
  <2>1. AddInst(Global(Cur), "PushVar", FindVar(Tok).var) /\ VarScopes(Tok) # {} /\ IsVar
    BY <1>5 DEF LoadVar, AddInstPushVar, IsVar
  <2>2. "PushVar" \in Opcodes
    BY DEF Opcodes
  <2>3. FindVar(Tok).var \in Nat
    BY <1>2, <2>1, FindVarIs
  <2>4. ASSUME ListsHoldNames, ~ Captures
        PROVE  FindVar(Tok).var < blockTable[Global(Cur)].varCount
    <3>1. toks[1] # Opener
      <4>1. Tok # Opener
        BY <1>1, PlainNoBrace DEF Braces
      <4> QED
        BY <1>2, <2>4, <4>1
    <3>2. Placed(toks, infos, Cur, p) /\ AllVarsFit(toks, infos, blockTable, prior)
      BY <1>1, <2>4, <3>1, NamesInTheLoad
    <3> QED
      BY <1>2, <2>1, <2>4, <3>2, ReadIsBound
  <2> QED
    BY <1>1, <1>3, <2>1, <2>2, <2>3, <2>4, InstNames
<1>6. CASE LoadOpr
  <2>1. AddInst(Global(Cur), "Opr", OprOf[Tok]) /\ Tok \in DOMAIN OprOf
    BY <1>6 DEF LoadOpr, AddInstOpr
  <2>2. "Opr" \in Opcodes
    BY DEF Opcodes
  <2>3. OprOf[Tok] \in Nat
    BY <2>1, WordsAssumption, PayloadAssumption
  <2> QED
    BY <1>1, <1>3, <2>1, <2>2, <2>3, InstNames
<1>7. CASE LoadImm
  <2>1. AddInst(Global(Cur), "PushImm", LiteralOf[Tok]) /\ Tok \in DOMAIN LiteralOf
    BY <1>7 DEF LoadImm, AddInstPushImm
  <2>2. "PushImm" \in Opcodes
    BY DEF Opcodes
  <2>3. LiteralOf[Tok] \in Nat /\ LiteralOf[Tok] \in Numerals
    BY <2>1, WordsAssumption, PayloadAssumption, NumeralsAssumption
  <2> QED
    BY <1>1, <1>3, <2>1, <2>2, <2>3, InstNames
<1>8. CASE LoadCallInst
  <2> DEFINE x == Global(FindDef(Tok).block)
  <2>1. AddReference(Global(Cur), "Call", x) /\ DefScopes(Tok) # {}
    BY <1>8 DEF LoadCallInst, AddInstCall, IsDef
  <2>2. FindDef(Tok).block \in 1..Len(infos)
    BY <1>2, <2>1, FindDefIs
  <2>3. "Call" \in Opcodes
    BY DEF Opcodes
  <2>4. x \in Blocks /\ x \in Nat
    <3>1. Len(blockTable) = prior + Len(infos) /\ prior \in Nat /\ Len(infos) \in Nat
      BY <1>1, WhileLoading DEF Loading
    <3> QED
      BY <2>2, <3>1 DEF Global, Blocks
  <2> HIDE DEF x
  <2> QED
    BY <1>1, <1>3, <2>1, <2>3, <2>4, InstNames
<1> QED
  BY <1>4, <1>5, <1>6, <1>7, <1>8

(* The value of a block that has been loaded. *)
LEMMA BlockValueNames ==
  ASSUME LoaderInv, NamesInv, LoadBlockValue
  PROVE  NamesInv'
<1> DEFINE b == FindBlock(p)
<1>1. /\ Word /\ phase = "load" /\ p # End /\ Tok = Opener /\ infos[b].scope = Cur
      /\ AddReference(Global(Cur), "PushBlock", Global(b))
      /\ MoveTo(infos[b].end + 1)
  BY DEF LoadBlockValue, Word, InLoad, Opener, AddInstPushBlock
<1>2. /\ Loading /\ toks \in Seq(STRING)
      /\ p \in 1..Len(toks) /\ Tok = toks[p] /\ Len(infos) \in Nat
      /\ Cur \in 1..Len(infos) /\ Cur \in Nat /\ infos[1].scope = None
      /\ TreeDone(toks, infos) /\ Forest(toks, infos) /\ Ended(infos)
  BY <1>1, InTheLoad
<1>3. /\ b \in 1..Len(infos) /\ infos[b].begin = p
      /\ p # 1 => b \in 2..Len(infos)
      /\ p = 1 => b = 1
  BY <1>1, <1>2, FindBlockIs
<1> HIDE DEF b
<1>4. b \in 2..Len(infos)
  <2>1. b # 1
    BY <1>1, <1>2 DEF None
  <2> QED
    BY <1>3, <2>1
<1>5. ASSUME ListsHoldNames, toks[1] # Opener
      PROVE  Placed(toks, infos, Cur, infos[b].end + 1)
  <2>1. Placed(toks, infos, Cur, infos[b].begin) /\ ListsClosed(toks)
    BY <1>1, <1>3, <1>5, NamesInTheLoad
  <2>2. Innermost(infos, Cur, infos[b].begin)
    BY <1>1, <1>2, <1>4, InForest
  <2> QED
    BY <1>2, <1>4, <2>1, <2>2, PlacedJumps
<1>6. Global(b) \in Blocks /\ Global(b) \in Nat
  <2>1. Len(blockTable) = prior + Len(infos) /\ prior \in Nat
    BY <1>2, WhileLoading
  <2> QED
    BY <1>2, <1>3, <2>1 DEF Global, Blocks
<1>7. "PushBlock" \in Opcodes
  BY DEF Opcodes
<1> QED
  BY <1>1, <1>5, <1>6, <1>7, InstNames

(* A definition is skipped. *)
LEMMA LoadDefNames ==
  ASSUME LoaderInv, NamesInv, LoadDef
  PROVE  NamesInv'
<1> DEFINE b == FindDef(DefOf[Tok]).block
<1>1. /\ Word /\ phase = "load" /\ p # End /\ Tok \in DOMAIN DefOf
      /\ DefScopes(DefOf[Tok]) # {} /\ infos[b].begin = p + 1
      /\ MoveTo(infos[b].end + 1)
      /\ blockTable' = blockTable
  BY DEF LoadDef, Word, InLoad, DefHere, blockVars
<1>2. /\ toks \in Seq(STRING) /\ p \in Nat /\ Tok = toks[p] /\ Cur \in 1..Len(infos)
      /\ Forest(toks, infos) /\ Ended(infos)
      /\ ListsHoldNames => Innermost(infos, Cur, p)
  BY <1>1, InTheLoad DEF Word
<1>3. b \in 2..Len(infos)
  BY <1>1, <1>2, FindDefIs
<1> HIDE DEF b
<1>4. Tok \notin Braces /\ Tok # ListBegin
  <2>1. {"{", "}", "[", "]", "#"} \intersect DOMAIN DefOf = {}
    BY Zenon, WordsAssumption
  <2>2. ListBegin \notin DOMAIN DefOf
    BY <2>1, Zenon DEF ListBegin
  <2> QED
    BY <1>1, <2>2, DefNoBrace
<1>5. ASSUME ListsHoldNames, toks[1] # Opener
      PROVE  Placed(toks, infos, Cur, infos[b].end + 1)
  <2>1. Placed(toks, infos, Cur, p) /\ ListsClosed(toks)
    BY <1>1, <1>5, NamesInTheLoad
  <2>2. Placed(toks, infos, Cur, infos[b].begin)
    <3>1. Placed(toks, infos, Cur, p + 1)
      BY <1>2, <1>4, <2>1, PlacedSteps
    <3> QED
      BY <1>1, <3>1
  <2>3. Innermost(infos, Cur, infos[b].begin)
    <3>1. Innermost(infos, Cur, p + 1)
      BY <1>2, <1>4, <1>5, StepInnermost
    <3> QED
      BY <1>1, <3>1
  <2> QED
    BY <1>2, <1>3, <2>1, <2>2, <2>3, PlacedJumps
<1> QED
  BY <1>1, <1>5, NamesInTheLoad, WordNames

-------------------------------------------------------------------------------
(* A list of variables. *)

(* g is inf with the names ns bound in block c, to variables from n on. *)
BoundMore(inf, g, c, ns, n) ==
  /\ Len(g) = Len(inf)
  /\ \A i \in 1..Len(inf) : i # c => g[i].vars = inf[i].vars
  /\ Len(g[c].vars) = Len(inf[c].vars) + Len(ns)
  /\ \A x \in 1..Len(inf[c].vars) : g[c].vars[x] = inf[c].vars[x]
  /\ \A k \in 1..Len(ns) :
       /\ g[c].vars[Len(inf[c].vars) + k].name = ns[k]
       /\ g[c].vars[Len(inf[c].vars) + k].var = n + k - 1

(* That is what LoadVars does to the table of blocks, *)
LEMMA BoundMoreIs ==
  ASSUME NEW inf \in Seq(LoadBlockInfo), NEW c \in 1..Len(inf),
         NEW ns \in Seq(STRING), NEW n \in Nat
  PROVE  BoundMore(inf,
           [inf EXCEPT ![c].vars =
              @ \o [k \in 1..Len(ns) |-> [name |-> ns[k], var |-> n + k - 1]]], c, ns, n)
<1> DEFINE m == Len(ns)
           w == [k \in 1..m |-> [name |-> ns[k], var |-> n + k - 1]]
           old == inf[c].vars
           v == old \o w
           r == [inf[c] EXCEPT !.vars = v]
           g == [inf EXCEPT ![c] = r]
           E == [name : STRING, var : Nat]
<1>1. m \in Nat /\ old \in Seq(E) /\ Len(old) \in Nat
  <2>1. old \in Seq(E)
    BY InfoFields
  <2> QED
    BY <2>1
<1>2. w \in Seq(E) /\ Len(w) = m
  <2>1. \A k \in 1..m : [name |-> ns[k], var |-> n + k - 1] \in E
    <3> TAKE k \in 1..m
    <3>1. ns[k] \in STRING
      BY ElementOfSeq
    <3>2. n + k - 1 \in Nat
      BY <1>1
    <3> QED
      BY <3>1, <3>2
  <2>2. w \in [1..m -> E]
    BY <2>1
  <2> HIDE DEF w, E, m
  <2> QED
    BY <1>1, <2>2, FunctionIsSeq
<1>3. \A k \in 1..m : w[k].name = ns[k] /\ w[k].var = n + k - 1
  OBVIOUS
<1> HIDE DEF w, old, E
<1>4. /\ v \in Seq(E) /\ Len(v) = Len(old) + m
      /\ \A x \in 1..Len(old) : v[x] = old[x]
      /\ \A k \in 1..m : v[Len(old) + k] = w[k]
  <2>1. v \in Seq(E)
    BY <1>1, <1>2, ConcatProperties, Zenon
  <2>2. Len(v) = Len(old) + Len(w)
    BY <1>1, <1>2, ConcatProperties, Zenon
  <2>3. \A i \in 1..Len(old) + Len(w) :
          v[i] = IF i <= Len(old) THEN old[i] ELSE w[i - Len(old)]
    BY <1>1, <1>2, ConcatProperties, Zenon
  <2> HIDE DEF v, m
  <2>4. \A x \in 1..Len(old) : x \in 1..Len(old) + Len(w) /\ x <= Len(old)
    BY <1>1, <1>2
  <2>5. \A k \in 1..m : /\ Len(old) + k \in 1..Len(old) + Len(w)
                        /\ ~ (Len(old) + k <= Len(old)) /\ (Len(old) + k) - Len(old) = k
    BY <1>1, <1>2
  <2>6. \A x \in 1..Len(old) : v[x] = old[x]
    BY <2>3, <2>4
  <2>7. \A k \in 1..m : v[Len(old) + k] = w[k]
    BY <2>3, <2>5
  <2> QED
    BY <1>2, <2>1, <2>2, <2>6, <2>7
<1> HIDE DEF v
<1>5. r \in LoadBlockInfo /\ r.vars = v
  <2>1. inf[c] \in LoadBlockInfo
    BY ElementOfSeq
  <2> QED
    BY <1>4, <2>1 DEF LoadBlockInfo, E
<1> HIDE DEF r
<1>6. Len(g) = Len(inf) /\ g[c] = r /\ \A i \in 1..Len(inf) : i # c => g[i] = inf[i]
  BY <1>5, ExceptSeq
<1> HIDE DEF g
<1>7. BoundMore(inf, g, c, ns, n)
  BY <1>3, <1>4, <1>5, <1>6 DEF BoundMore, old, m
<1> QED
  BY <1>7 DEF g, r, v, old, w, m

(* u is t with m bindings appended to block b. *)
BoundIn(t, u, b, m) ==
  /\ Len(u) = Len(t)
  /\ \A y \in 1..Len(t) : y # b => u[y] = t[y]
  /\ u[b].varCount = t[b].varCount + m
  /\ Len(u[b].code) = Len(t[b].code) + m
  /\ \A i \in 1..Len(t[b].code) : u[b].code[i] = t[b].code[i]
  /\ \A i \in (Len(t[b].code) + 1)..Len(u[b].code) : u[b].code[i].op = "PopVar"

(* That is what LoadVars does to the code. *)
LEMMA BoundInIs ==
  ASSUME NEW t \in Seq(BlockInfo), NEW b \in 1..Len(t), NEW m \in Nat
  PROVE  LET n == t[b].varCount
         IN BoundIn(t, [t EXCEPT
                          ![b].code = @ \o [k \in 1..m |-> Inst("PopVar", n + k - 1)],
                          ![b].varCount = @ + m], b, m)
<1> DEFINE n == t[b].varCount
           s == [k \in 1..m |-> Inst("PopVar", n + k - 1)]
           c == t[b].code
           d == c \o s
           r == WithCode(t[b], d, n + m)
           u == [t EXCEPT ![b] = r]
<1>1. t[b] \in BlockInfo /\ n \in Nat /\ c \in Seq(Instruction)
  <2>1. t[b] \in BlockInfo
    BY ElementOfSeq
  <2> QED
    BY <2>1 DEF BlockInfo
<1> HIDE DEF n, c
<1>2. s \in Seq(Instruction) /\ Len(s) = m /\ \A k \in 1..m : s[k].op = "PopVar"
  <2>1. \A k \in 1..m : Inst("PopVar", n + k - 1) \in Instruction
    <3> TAKE k \in 1..m
    <3>1. n + k - 1 \in Nat
      BY <1>1
    <3>2. "PopVar" \in Opcodes
      BY DEF Opcodes
    <3> QED
      BY <3>1, <3>2 DEF Inst, Instruction
  <2>2. s \in [1..m -> Instruction]
    BY <2>1
  <2>3. \A k \in 1..m : s[k].op = "PopVar"
    BY DEF Inst
  <2> HIDE DEF s
  <2> QED
    BY <2>2, <2>3, FunctionIsSeq
<1> HIDE DEF s
<1>3. /\ d \in Seq(Instruction) /\ Len(c) \in Nat /\ Len(d) = Len(c) + m
      /\ \A i \in 1..Len(c) : d[i] = c[i]
      /\ \A i \in 1..Len(s) : d[Len(c) + i] = s[i]
  BY <1>1, <1>2, Concatenated
<1> HIDE DEF d
<1>4. ASSUME NEW i \in (Len(c) + 1)..Len(d) PROVE d[i].op = "PopVar"
  <2>1. i - Len(c) \in 1..m /\ Len(c) + (i - Len(c)) = i
    BY <1>3
  <2> QED
    BY <1>2, <1>3, <2>1
<1>5. r \in BlockInfo /\ r.code = d /\ r.varCount = n + m
  <2> DEFINE k == n + m
             x == t[b]
  <2>1. r = WithCode(x, d, k)
    OBVIOUS
  <2>2. k \in Nat /\ x \in BlockInfo
    BY <1>1
  <2> HIDE DEF r, k, x
  <2>3. /\ WithCode(x, d, k) \in BlockInfo
        /\ WithCode(x, d, k).code = d
        /\ WithCode(x, d, k).varCount = k
    <3>1. d \in Seq(Instruction)
      BY <1>3
    <3> QED
      BY <2>2, <3>1, Fields
  <2> QED
    BY <2>1, <2>3 DEF k
<1>6. u = [t EXCEPT ![b].code = @ \o s, ![b].varCount = @ + m]
  BY DEF WithCode, d, c, n
<1> HIDE DEF r
<1>7. Len(u) = Len(t) /\ u[b] = r /\ \A y \in 1..Len(t) : y # b => u[y] = t[y]
  BY <1>5, ExceptSeq
<1> HIDE DEF u
<1>8. BoundIn(t, u, b, m)
  BY <1>3, <1>4, <1>5, <1>7 DEF BoundIn, c, n
<1> QED
  BY <1>6, <1>8 DEF s, n

(* Bindings alone read nothing and are no literals. *)
LEMMA BoundInKeeps ==
  ASSUME NEW t \in Seq(BlockInfo), NEW b \in 1..Len(t), NEW m \in Nat, NEW u,
         BoundIn(t, u, b, m)
  PROVE  /\ AllLiteralsFit(t) => AllLiteralsFit(u)
         /\ AllReadBound(t) => AllReadBound(u)
<1> DEFINE c == t[b].code
           d == u[b].code
<1>1. Len(c) \in Nat
  <2>1. t[b] \in BlockInfo
    BY ElementOfSeq
  <2> QED
    BY <2>1 DEF BlockInfo
<1>2. /\ Len(u) = Len(t) /\ \A y \in 1..Len(t) : y # b => u[y] = t[y]
      /\ Len(d) = Len(c) + m /\ \A i \in 1..Len(c) : d[i] = c[i]
      /\ \A i \in (Len(c) + 1)..Len(d) : d[i].op = "PopVar"
  BY DEF BoundIn
<1> HIDE DEF c, d
<1>3. LiteralsFit(c) => LiteralsFit(d)
  <2> SUFFICES ASSUME LiteralsFit(c), NEW i \in 1..Len(d), d[i].op = "PushImm"
               PROVE  d[i].arg \in Numerals
    BY DEF LiteralsFit
  <2>1. i \in 1..Len(c) \/ i \in (Len(c) + 1)..Len(d)
    BY <1>1, <1>2
  <2> QED
    BY <1>2, <2>1 DEF LiteralsFit
<1>4. ReadsBound(c) => ReadsBound(d)
  <2> SUFFICES ASSUME ReadsBound(c) PROVE ReadsBound(d)
    OBVIOUS
  <2>1. Len(d) \in Nat /\ Len(c) <= Len(d)
    BY <1>1, <1>2
  <2>2. \A i \in (Len(c) + 1)..Len(d) :
          d[i].op = "PushVar" => d[i].arg < Cardinality(BindersIn(d, i - 1))
    BY <1>2
  <2> QED
    BY <1>1, <1>2, <2>1, <2>2, ReadsOn
<1>5. ASSUME AllLiteralsFit(t), NEW y \in 1..Len(u) PROVE LiteralsFit(u[y].code)
  BY <1>2, <1>3, <1>5 DEF AllLiteralsFit, c, d
<1>6. ASSUME AllReadBound(t), NEW y \in 1..Len(u) PROVE ReadsBound(u[y].code)
  BY <1>2, <1>4, <1>6 DEF AllReadBound, c, d
<1> QED
  BY <1>5, <1>6 DEF AllLiteralsFit, AllReadBound

(* What is bound stays known. *)
LEMMA BoundKnowsMore ==
  ASSUME NEW inf, NEW g, NEW c \in 1..Len(inf), NEW ns, NEW n, Len(ns) \in Nat,
         Len(inf[c].vars) \in Nat, BoundMore(inf, g, c, ns, n)
  PROVE  /\ KnowMore(inf, g)
         /\ \A k \in 1..Len(ns) : Known(g, c, ns[k])
<1>1. ASSUME NEW i \in 1..Len(inf), NEW name, Known(inf, i, name) PROVE Known(g, i, name)
  <2>1. PICK x \in 1..Len(inf[i].vars) : inf[i].vars[x].name = name
    BY <1>1 DEF Known
  <2>2. x \in 1..Len(g[i].vars) /\ g[i].vars[x] = inf[i].vars[x]
    <3>1. CASE i = c
      BY <2>1, <3>1 DEF BoundMore
    <3>2. CASE i # c
      BY <2>1, <3>2 DEF BoundMore
    <3> QED
      BY <3>1, <3>2
  <2> QED
    BY <2>1, <2>2 DEF Known
<1>2. ASSUME NEW k \in 1..Len(ns) PROVE Known(g, c, ns[k])
  <2>1. Len(inf[c].vars) + k \in 1..Len(g[c].vars)
    BY DEF BoundMore
  <2>2. g[c].vars[Len(inf[c].vars) + k].name = ns[k]
    BY DEF BoundMore
  <2> QED
    BY <2>1, <2>2 DEF Known
<1> QED
  BY <1>1, <1>2 DEF KnowMore

(* The names bound are those of the list between k and e. *)
ListNames(tk, k, e, ns) ==
  /\ Len(ns) = e - k - 1
  /\ \A j \in 1..Len(ns) : ns[j] = tk[e - j]

(* The names between two brackets, in the order in which they are bound. *)
LEMMA ListNamesAre ==
  ASSUME NEW tk \in Seq(STRING), NEW k \in 1..Len(tk), NEW e \in (k + 1)..Len(tk)
  PROVE  LET ns == BoundFirst(SubSeq(tk, k + 1, e - 1))
         IN ns \in Seq(STRING) /\ ListNames(tk, k, e, ns)
<1> DEFINE s == SubSeq(tk, k + 1, e - 1)
           ns == BoundFirst(s)
<1>1. k \in Nat /\ e \in Nat /\ k < e /\ Len(tk) \in Nat
  OBVIOUS
<1>2. /\ s \in Seq(STRING) /\ Len(s) = e - k - 1
      /\ \A i \in 1..Len(s) : s[i] = tk[(k + 1) + i - 1]
  <2>1. \A i \in (k + 1)..(e - 1) : tk[i] \in STRING
    <3> TAKE i \in (k + 1)..(e - 1)
    <3>1. i \in 1..Len(tk)
      BY <1>1
    <3> QED
      BY <3>1, ElementOfSeq
  <2>2. k + 1 \in Int /\ e - 1 \in Int /\ k + 1 <= (e - 1) + 1
    BY <1>1
  <2>3. /\ s \in Seq(STRING)
        /\ Len(s) = IF k + 1 <= e - 1 THEN ((e - 1) - (k + 1)) + 1 ELSE 0
        /\ \A i \in 1..((e - 1) - (k + 1) + 1) : s[i] = tk[(k + 1) + i - 1]
    BY <2>1, <2>2, SubSeqProperties
  <2>4. Len(s) = e - k - 1
    BY <1>1, <2>3
  <2>5. (e - 1) - (k + 1) + 1 = e - k - 1
    BY <1>1
  <2> QED
    BY <2>3, <2>4, <2>5
<1> HIDE DEF s
<1>3. ns = [i \in 1..Len(s) |-> s[(Len(s) - i) + 1]]
  BY DEF BoundFirst, Reverse
<1>4. ns \in Seq(STRING) /\ Len(ns) \in Nat
  BY <1>2, NamesAreStrings
<1> HIDE DEF ns
<1>5. Len(ns) = Len(s)
  <2>1. DOMAIN ns = 1..Len(s) /\ DOMAIN ns = 1..Len(ns) /\ Len(s) \in Nat
    BY <1>1, <1>2, <1>3, <1>4
  <2> QED
    BY <1>2, <1>4, <2>1, SameLength
<1>6. ASSUME NEW j \in 1..Len(ns) PROVE ns[j] = tk[e - j]
  <2>1. (Len(s) - j) + 1 \in 1..Len(s) /\ (k + 1) + ((Len(s) - j) + 1) - 1 = e - j
    BY <1>1, <1>2, <1>5
  <2> QED
    BY <1>2, <1>3, <1>5, <2>1
<1>7. ListNames(tk, k, e, ns)
  BY <1>2, <1>5, <1>6 DEF ListNames
<1> QED
  BY <1>4, <1>7 DEF ns, s

(* A list binds the names between its brackets, all of which lie in the block *)
(* that is being loaded.                                                      *)
LEMMA ListBinds ==
  ASSUME NEW tk \in Seq(STRING), ListsClosed(tk), NEW inf, Forest(tk, inf), Ended(inf),
         NEW k \in 1..Len(tk), tk[k] = ListBegin, NEW e \in (k + 1)..Len(tk),
         tk[e] = ListEnd, \A m \in (k + 1)..(e - 1) : tk[m] # ListEnd,
         NoBrace(tk, k, e + 1),
         NEW c, Innermost(inf, c, k), NEW ns \in Seq(STRING), ListNames(tk, k, e, ns),
         NEW j \in 1..Len(ns)
  PROVE  e - j \in 1..Len(tk) /\ InList(tk, e - j) /\ tk[e - j] = ns[j]
         /\ Innermost(inf, c, e - j)
<1>1. k \in Nat /\ e \in Nat /\ k < e /\ Len(tk) \in Nat /\ Len(ns) = e - k - 1
  <2>1. PICK m : m = Len(tk)
    OBVIOUS
  <2>2. m \in Nat /\ k \in 1..m /\ e \in (k + 1)..m
    BY <2>1
  <2>3. k \in Nat /\ e \in Nat /\ k < e
    BY <2>2
  <2>4. Len(ns) = e - k - 1
    BY Zenon DEF ListNames
  <2> QED
    BY <2>1, <2>2, <2>3, <2>4, Zenon
<1>2. e - j \in (k + 1)..(e - 1) /\ e - j \in 1..Len(tk) /\ e - j \in Nat /\ k <= e - j
  BY <1>1
<1>3. InList(tk, e - j)
  BY <1>2, ListIs
<1>4. tk[e - j] = ns[j]
  BY DEF ListNames
<1>5. NoBrace(tk, k, e - j)
  <2>1. \A x \in k..((e - j) - 1) : x \in k..((e + 1) - 1)
    BY <1>1
  <2> QED
    BY <2>1 DEF NoBrace
<1>6. Innermost(inf, c, e - j)
  BY <1>1, <1>2, <1>5, StretchInnermost
<1> QED
  BY <1>2, <1>3, <1>4, <1>6

(* So the variables still are those of the lists, *)
LEMMA ListVarsFit ==
  ASSUME NEW tk \in Seq(STRING), ListsClosed(tk), NEW inf, Forest(tk, inf), Ended(inf),
         NEW k \in 1..Len(tk), tk[k] = ListBegin, NEW e \in (k + 1)..Len(tk),
         tk[e] = ListEnd, \A m \in (k + 1)..(e - 1) : tk[m] # ListEnd,
         NoBrace(tk, k, e + 1),
         NEW c, Innermost(inf, c, k), NEW ns \in Seq(STRING), ListNames(tk, k, e, ns),
         NEW t \in Seq(BlockInfo), NEW u, NEW pr \in Nat, Len(t) = pr + Len(inf),
         BoundIn(t, u, pr + c, Len(ns)),
         NEW g, BoundMore(inf, g, c, ns, t[pr + c].varCount), SameBlocks(inf, g),
         AllVarsFit(tk, inf, t, pr)
  PROVE  AllVarsFit(tk, g, u, pr)
<1>1. /\ Len(inf) \in Nat /\ inf \in Seq(LoadBlockInfo) /\ c \in 1..Len(inf) /\ c \in Nat
      /\ pr + c \in 1..Len(t) /\ Len(ns) \in Nat
  <2>1. Len(inf) \in Nat /\ inf \in Seq(LoadBlockInfo) /\ c \in 1..Len(inf) /\ Len(ns) \in Nat
    BY DEF Forest, Innermost
  <2> QED
    BY <2>1
<1>2. PICK n : n = t[pr + c].varCount
  OBVIOUS
<1>3. n \in Nat
  <2>1. t[pr + c] \in BlockInfo
    BY <1>1, ElementOfSeq
  <2> QED
    BY <1>2, <2>1 DEF BlockInfo
<1>4. PICK a : a = Len(inf[c].vars)
  OBVIOUS
<1>5. a \in Nat
  <2>1. inf[c].vars \in Seq([name : STRING, var : Nat])
    BY <1>1, InfoFields
  <2> QED
    BY <1>4, <2>1
<1>6. /\ Len(g) = Len(inf)
      /\ \A i \in 1..Len(inf) : i # c => g[i].vars = inf[i].vars
      /\ Len(g[c].vars) = a + Len(ns)
      /\ \A x \in 1..a : g[c].vars[x] = inf[c].vars[x]
      /\ \A j \in 1..Len(ns) : g[c].vars[a + j].name = ns[j] /\ g[c].vars[a + j].var = n + j - 1
  BY <1>2, <1>4 DEF BoundMore
<1>7. /\ Len(u) = Len(t) /\ u[pr + c].varCount = n + Len(ns)
      /\ \A y \in 1..Len(t) : y # pr + c => u[y] = t[y]
  BY <1>2 DEF BoundIn
<1> SUFFICES ASSUME NEW i \in 1..Len(g), NEW x \in 1..Len(g[i].vars)
             PROVE  VarFits(tk, g, i, g[i].vars[x], u[pr + i].varCount)
  BY DEF AllVarsFit, VarsFit
<1>8. i \in 1..Len(inf) /\ i \in Nat /\ VarsFit(tk, inf, i, t[pr + i].varCount)
      /\ pr + i \in 1..Len(t)
  <2>1. i \in 1..Len(inf) /\ i \in Nat /\ pr + i \in 1..Len(t)
    BY <1>1, <1>6
  <2> QED
    BY <2>1 DEF AllVarsFit
<1>9. t[pr + i].varCount \in Nat
  <2>1. t[pr + i] \in BlockInfo
    BY <1>8, ElementOfSeq
  <2> QED
    BY <2>1 DEF BlockInfo
<1>10. ASSUME NEW y \in 1..Len(inf[i].vars), g[i].vars[x] = inf[i].vars[y],
              u[pr + i].varCount >= t[pr + i].varCount,
              u[pr + i].varCount \in Nat
       PROVE  VarFits(tk, g, i, g[i].vars[x], u[pr + i].varCount)
  <2>1. VarFits(tk, inf, i, inf[i].vars[y], t[pr + i].varCount)
    BY <1>8 DEF VarsFit
  <2>2. inf[i].vars[y].var \in Nat
    <3>1. inf[i].vars \in Seq([name : STRING, var : Nat])
      BY <1>1, <1>8, InfoFields
    <3>2. inf[i].vars[y] \in [name : STRING, var : Nat]
      BY <3>1, ElementOfSeq
    <3> QED
      BY <3>2
  <2>3. PICK v : v = inf[i].vars[y]
    OBVIOUS
  <2>4. /\ v.var < t[pr + i].varCount
        /\ \E l \in 1..Len(tk) : InList(tk, l) /\ tk[l] = v.name /\ Innermost(inf, i, l)
    BY <2>1, <2>3 DEF VarFits
  <2>5. v.var < u[pr + i].varCount
    <3>1. PICK d : d = t[pr + i].varCount
      OBVIOUS
    <3>2. PICK f : f = u[pr + i].varCount
      OBVIOUS
    <3>3. d \in Nat /\ f \in Nat /\ f >= d /\ v.var \in Nat /\ v.var < d
      BY <1>9, <1>10, <2>2, <2>3, <2>4, <3>1, <3>2, Zenon
    <3>4. v.var < f
      BY <3>3
    <3> QED
      BY <3>2, <3>4, Zenon
  <2>6. VarFits(tk, g, i, v, u[pr + i].varCount)
    BY <2>4, <2>5 DEF VarFits, SameBlocks
  <2> QED
    BY <1>10, <2>3, <2>6, Zenon
<1>11. CASE i # c
  <2>1. g[i].vars = inf[i].vars
    BY <1>6, <1>8, <1>11
  <2>2. pr + i # pr + c
    BY <1>1, <1>8, <1>11
  <2>3. u[pr + i] = t[pr + i]
    BY <1>7, <1>8, <2>2
  <2>4. u[pr + i].varCount \in Nat /\ u[pr + i].varCount >= t[pr + i].varCount
    <3>1. PICK d : d = t[pr + i].varCount
      OBVIOUS
    <3>2. d \in Nat
      BY <1>9, <3>1, Zenon
    <3>3. d >= d
      BY <3>2
    <3>4. u[pr + i].varCount = d
      BY <2>3, <3>1, Zenon
    <3> QED
      BY <3>1, <3>2, <3>3, <3>4, Zenon
  <2> QED
    BY <1>10, <2>1, <2>4
<1>12. CASE i = c
  <2>1. x \in 1..(a + Len(ns))
    BY <1>6, <1>12
  <2>2. x \in 1..a \/ x - a \in 1..Len(ns)
    BY <1>1, <1>5, <2>1
  <2>3. u[pr + c].varCount >= n /\ u[pr + c].varCount \in Nat
    <3>1. n + Len(ns) >= n /\ n + Len(ns) \in Nat
      <4>1. PICK m : m = Len(ns)
        OBVIOUS
      <4>2. m \in Nat /\ n \in Nat
        BY <1>1, <1>3, <4>1, Zenon
      <4>3. n + m >= n /\ n + m \in Nat
        BY <4>2
      <4> QED
        BY <4>1, <4>3, Zenon
    <3>2. u[pr + c].varCount = n + Len(ns)
      BY <1>7
    <3> QED
      BY <3>1, <3>2, Zenon
  <2>4. CASE x \in 1..a
    <3>1. g[c].vars[x] = inf[c].vars[x]
      BY <1>6, <2>4
    <3> QED
      BY <1>2, <1>4, <1>10, <1>12, <2>3, <2>4, <3>1
  <2>5. CASE x - a \in 1..Len(ns)
    <3>1. PICK j : j = x - a
      OBVIOUS
    <3>2. j \in 1..Len(ns) /\ a + j = x
      BY <1>5, <2>1, <2>5, <3>1
    <3>3. g[c].vars[x].name = ns[j] /\ g[c].vars[x].var = n + j - 1
      BY <1>6, <3>2
    <3>4. n + j - 1 < n + Len(ns)
      BY <1>1, <1>3, <3>2
    <3>5. e - j \in 1..Len(tk) /\ InList(tk, e - j) /\ tk[e - j] = ns[j]
          /\ Innermost(inf, c, e - j)
      BY <3>2, ListBinds
    <3> QED
      BY <1>7, <1>12, <3>3, <3>4, <3>5 DEF VarFits, SameBlocks
  <2> QED
    BY <2>2, <2>4, <2>5
<1> QED
  BY <1>11, <1>12

(* and the block knows all it has bound. *)
LEMMA ListPlaced ==
  ASSUME NEW tk \in Seq(STRING), ListsClosed(tk), NEW inf, Forest(tk, inf), Ended(inf),
         NEW k \in 1..Len(tk), tk[k] = ListBegin, NEW e \in (k + 1)..Len(tk),
         tk[e] = ListEnd, \A m \in (k + 1)..(e - 1) : tk[m] # ListEnd,
         NEW c \in 1..Len(inf), NEW ns \in Seq(STRING), ListNames(tk, k, e, ns),
         NEW n, NEW g, BoundMore(inf, g, c, ns, n), SameBlocks(inf, g),
         Placed(tk, inf, c, k)
  PROVE  Placed(tk, g, c, e + 1)
<1>1. /\ k \in Nat /\ e \in Nat /\ k < e /\ Len(tk) \in Nat /\ Len(ns) \in Nat
      /\ Len(ns) = e - k - 1
  BY DEF ListNames
<1>2. Len(inf[c].vars) \in Nat
  <2>1. inf[c].vars \in Seq([name : STRING, var : Nat])
    BY InfoFields DEF Forest
  <2> QED
    BY <2>1
<1>3. KnowMore(inf, g) /\ \A j \in 1..Len(ns) : Known(g, c, ns[j])
  BY <1>1, <1>2, BoundKnowsMore
<1>4. Outside(tk, e + 1) /\ ~ InList(tk, e) /\ ~ InList(tk, k)
  <2>1. ~ InList(tk, k)
    BY <1>1, OutsideIsPlain DEF Placed
  <2> QED
    BY <2>1, ListIs
<1>5. ASSUME NEW l \in 1..((e + 1) - 1), InList(tk, l), Innermost(g, c, l)
      PROVE  Known(g, c, tk[l])
  <2>1. Innermost(inf, c, l)
    BY <1>5 DEF SameBlocks
  <2>2. CASE l \in 1..(k - 1)
    BY <1>3, <1>5, <2>1, <2>2 DEF Placed, KnowMore
  <2>3. CASE l \in (k + 1)..(e - 1)
    <3>1. e - l \in 1..Len(ns) /\ e - (e - l) = l
      BY <1>1, <2>3
    <3>2. ns[e - l] = tk[l]
      BY <3>1 DEF ListNames
    <3> QED
      BY <1>3, <3>1, <3>2
  <2>4. l \in 1..(k - 1) \/ l = k \/ l \in (k + 1)..(e - 1) \/ l = e
    BY <1>1
  <2> QED
    BY <1>4, <1>5, <2>2, <2>3, <2>4
<1> QED
  BY <1>4, <1>5 DEF Placed

(* A list of variables binds its names: the slots follow those bound before. *)
LEMMA LoadVarsNames ==
  ASSUME LoaderInv, NamesInv, LoadVars
  PROVE  NamesInv'
<1> DEFINE close == Min(ListEnds)
           ns == BoundFirst(SubSeq(toks, p + 1, close - 1))
           b == Global(Cur)
           n == blockTable[b].varCount
<1>1. /\ phase = "load" /\ p # End /\ Tok = "[" /\ ListEnds # {}
      /\ infos' = [infos EXCEPT ![Cur].vars =
                     @ \o [k \in 1..Len(ns) |-> [name |-> ns[k], var |-> n + k - 1]]]
      /\ blockTable' =
           [blockTable EXCEPT
              ![b].code = @ \o [k \in 1..Len(ns) |-> Inst("PopVar", n + k - 1)],
              ![b].varCount = @ + Len(ns)]
      /\ p' = close + 1 /\ toks' = toks /\ prior' = prior /\ phase' = phase
      /\ callStack' = callStack
  BY DEF LoadVars, InLoad, MoveTo
<1>2. /\ Loading /\ toks \in Seq(STRING) /\ Len(toks) \in Nat
      /\ p \in 1..Len(toks) /\ p \in Nat /\ Tok = toks[p]
      /\ infos \in Seq(LoadBlockInfo) /\ Len(infos) \in Nat /\ Len(infos) >= 1
      /\ Cur \in 1..Len(infos) /\ b \in Blocks
      /\ CallsFit(toks, infos, callStack) /\ infos[1].loaded
      /\ Len(callStack) \in Nat /\ Len(callStack) >= 1
      /\ Cur = callStack[Len(callStack)].block
      /\ TreeDone(toks, infos) /\ Forest(toks, infos) /\ Ended(infos)
      /\ ListsHoldNames => Innermost(infos, Cur, p)
  BY <1>1, InTheLoad
<1>3. /\ close \in (p + 1)..Len(toks) /\ close \in Nat /\ toks[close] = ListEnd
      /\ \A m \in (p + 1)..(close - 1) : toks[m] # ListEnd
  <2>1. /\ ListEnds \subseteq Nat
        /\ ListEnds = { m \in (p + 1)..Len(toks) : toks[m] = ListEnd }
    <3>1. ListEnds = { m \in (p + 1)..Len(toks) : toks[m] = ListEnd }
      BY Zenon DEF ListEnds, ListEnd
    <3> QED
      BY <1>2, <3>1
  <2>2. Min(ListEnds) \in ListEnds /\ \A y \in ListEnds : Min(ListEnds) <= y
    BY <1>1, <2>1, MinIsLeast
  <2> HIDE DEF close
  <2>3. close \in ListEnds /\ \A y \in ListEnds : close <= y
    BY <2>2 DEF close
  <2>4. close \in (p + 1)..Len(toks) /\ toks[close] = ListEnd
    BY <2>1, <2>3
  <2>5. ASSUME NEW m \in (p + 1)..(close - 1) PROVE toks[m] # ListEnd
    <3>1. m \in (p + 1)..Len(toks) /\ ~ (close <= m)
      BY <1>2, <2>4
    <3> QED
      BY <2>1, <2>3, <3>1
  <2> QED
    BY <1>2, <2>4, <2>5
<1>4. ns \in Seq(STRING) /\ ListNames(toks, p, close, ns)
  BY <1>2, <1>3, ListNamesAre
<1>5. ListsHoldNames => NoBrace(toks, p, close + 1)
  BY <1>1, <1>2, ListIsClosed
<1> HIDE DEF ns, close
<1>6. TableInv /\ Len(blockTable) = prior + Len(infos) /\ prior \in Nat
  BY <1>2, WhileLoading
<1>7. blockTable \in Seq(BlockInfo) /\ b \in 1..Len(blockTable) /\ Len(ns) \in Nat /\ n \in Nat
  <2>1. blockTable \in Seq(BlockInfo) /\ b \in 1..Len(blockTable) /\ Len(ns) \in Nat
    BY <1>2, <1>4, <1>6 DEF TableInv, Blocks
  <2>2. blockTable[b] \in BlockInfo
    BY <2>1, ElementOfSeq
  <2> QED
    BY <2>1, <2>2 DEF BlockInfo
<1>8. PICK t : t = blockTable
  OBVIOUS
<1>9. PICK u : u = blockTable'
  OBVIOUS
<1>10. PICK g : g = infos'
  OBVIOUS
<1>11. BoundIn(t, u, b, Len(ns))
  <2> DEFINE m == Len(ns)
             x == [t EXCEPT
                     ![b].code = @ \o [k \in 1..m |-> Inst("PopVar", t[b].varCount + k - 1)],
                     ![b].varCount = @ + m]
  <2>1. u = x
    BY <1>1, <1>8, <1>9
  <2>2. t \in Seq(BlockInfo) /\ b \in 1..Len(t) /\ m \in Nat
    BY <1>7, <1>8
  <2> HIDE DEF m, b
  <2>3. BoundIn(t, x, b, m)
    BY <2>2, BoundInIs
  <2> HIDE DEF x
  <2> QED
    BY <2>1, <2>3 DEF m
<1>12. BoundMore(infos, g, Cur, ns, n)
  <2> DEFINE x == [infos EXCEPT ![Cur].vars =
                     @ \o [k \in 1..Len(ns) |-> [name |-> ns[k], var |-> n + k - 1]]]
  <2>1. g = x
    BY <1>1, <1>10
  <2> HIDE DEF n
  <2>2. BoundMore(infos, x, Cur, ns, n)
    <3>1. PICK c : c = Cur
      OBVIOUS
    <3>2. infos \in Seq(LoadBlockInfo) /\ c \in 1..Len(infos)
      BY <1>2, <3>1, Zenon
    <3>3. ns \in Seq(STRING) /\ n \in Nat
      BY <1>4, <1>7, Zenon
    <3> HIDE DEF x
    <3>4. PICK y : y = [infos EXCEPT ![c].vars =
                         @ \o [k \in 1..Len(ns) |-> [name |-> ns[k], var |-> n + k - 1]]]
      OBVIOUS
    <3>5. BoundMore(infos, y, c, ns, n)
      BY <3>2, <3>3, <3>4, BoundMoreIs
    <3>6. y = x
      BY <3>1, <3>4 DEF x
    <3> QED
      BY <3>1, <3>5, <3>6
  <2> HIDE DEF x
  <2> QED
    BY <2>1, <2>2
<1>13. SameTree(infos, g) /\ g[1].loaded
  <2>1. LoaderInv'
    BY LoadVarsKeeps
  <2>2. infos' \in Seq(LoadBlockInfo)
    BY <2>1 DEF LoaderInv, Base
  <2>3. PICK c : c = Cur
    OBVIOUS
  <2>4. PICK w : w = infos[c].vars \o
                       [k \in 1..Len(ns) |-> [name |-> ns[k], var |-> n + k - 1]]
    OBVIOUS
  <2>5. g = [infos EXCEPT ![c].vars = w]
    BY <1>1, <1>10, <2>3, <2>4
  <2>6. c \in 1..Len(infos) /\ infos \in Seq(LoadBlockInfo)
    BY <1>2, <2>3
  <2>7. g[c].vars = w /\ g[c] \in LoadBlockInfo
    <3>1. g \in Seq(LoadBlockInfo) /\ c \in DOMAIN infos /\ DOMAIN g = DOMAIN infos
      BY <1>10, <2>2, <2>5, <2>6
    <3>2. infos[c] \in LoadBlockInfo
      BY <2>6, ElementOfSeq
    <3>3. g[c] = [infos[c] EXCEPT !.vars = w]
      BY <2>5, <3>1
    <3>4. g[c] \in LoadBlockInfo
      BY <3>1
    <3> QED
      BY <3>2, <3>3, <3>4 DEF LoadBlockInfo
  <2>8. w \in Seq([name : STRING, var : Nat])
    BY <2>7 DEF LoadBlockInfo
  <2>9. SameTree(infos, g) /\ \A i \in 1..Len(infos) : infos[i].loaded => g[i].loaded
    BY <2>5, <2>6, <2>8, BoundIs, Zenon
  <2>10. 1 \in 1..Len(infos)
    BY <1>2
  <2> QED
    BY <1>2, <2>9, <2>10
<1>14. SameBlocks(infos, g)
  BY <1>2, <1>13, DoneKept DEF SameBlocks
<1>15. AllLiteralsFit(u) /\ Len(u) > prior
  <2>1. AllLiteralsFit(t) /\ Len(t) > prior
    BY <1>1, <1>8, NamesInTheLoad
  <2>2. Len(u) = Len(t)
    BY <1>11 DEF BoundIn
  <2> QED
    BY <1>7, <1>8, <1>11, <2>1, <2>2, BoundInKeeps
<1>16. ASSUME ListsHoldNames, ~ Captures PROVE AllReadBound(u)
  <2>1. AllReadBound(t)
    BY <1>1, <1>8, <1>16, NamesInTheLoad
  <2> QED
    BY <1>7, <1>8, <1>11, <2>1, BoundInKeeps
<1>17. ASSUME ListsHoldNames, toks[1] # Opener
       PROVE  NamesAt(toks, g, u, prior, callStack, close + 1)
  <2>1. /\ ListsClosed(toks) /\ AllVarsFit(toks, infos, t, prior)
        /\ AllPlaced(toks, infos, callStack, p) /\ Placed(toks, infos, Cur, p)
    BY <1>1, <1>8, <1>17, NamesInTheLoad
  <2>2. toks[p] = ListBegin
    BY <1>1, <1>2 DEF ListBegin
  <2>3. b = prior + Cur
    BY DEF Global
  <2>4. AllVarsFit(toks, g, u, prior)
    <3>1. /\ t \in Seq(BlockInfo) /\ Len(t) = prior + Len(infos)
          /\ BoundIn(t, u, prior + Cur, Len(ns))
          /\ BoundMore(infos, g, Cur, ns, t[prior + Cur].varCount)
      BY <1>6, <1>7, <1>8, <1>11, <1>12, <2>3
    <3> HIDE DEF n, b
    <3> QED
      BY <1>2, <1>3, <1>4, <1>5, <1>6, <1>14, <1>17, <2>1, <2>2, <3>1, ListVarsFit
  <2>5. Placed(toks, g, Cur, close + 1)
    <3> HIDE DEF n, b
    <3> QED
      BY <1>2, <1>3, <1>4, <1>12, <1>14, <2>1, <2>2, ListPlaced
  <2>6. KnowMore(infos, g)
    <3>1. Len(infos[Cur].vars) \in Nat
      <4>1. infos[Cur].vars \in Seq([name : STRING, var : Nat])
        BY <1>2, InfoFields
      <4> QED
        BY <4>1
    <3> HIDE DEF n, b
    <3> QED
      BY <1>2, <1>7, <1>12, <3>1, BoundKnowsMore
  <2>7. AllPlaced(toks, g, callStack, p)
    BY <1>2, <1>14, <2>1, <2>6, AllPlacedSame
  <2>8. AllPlaced(toks, g, callStack, close + 1)
    BY <1>2, <2>5, <2>7, AllPlacedMove
  <2> QED
    BY <2>4, <2>8 DEF NamesAt
<1> QED
  BY <1>1, <1>9, <1>10, <1>15, <1>16, <1>17, NamesLoad

(* Every step of the loader. *)
LEMMA StepNames ==
  ASSUME LoaderInv, NamesInv, LoadStep
  PROVE  NamesInv'
  BY TreeKeepsNames, TreeEndNames, StopsNames, LoadEndNames, LoadCloseNames, LoadOpenNames,
     LoadCalleeNames, PlainWordsNames, BlockValueNames, LoadDefNames, LoadVarsNames
     DEF LoadStep

(* A loader that begins has emitted nothing. *)
LEMMA BeginsNamed ==
  ASSUME LoadInit
  PROVE  NamesInv
<1>1. phase = "tree" /\ blockTable = [b \in 1..(prior + 1) |-> EmptyBlock] /\ LoaderInv
  BY BeginsWell DEF LoadInit
<1>2. Len(blockTable) = prior + 1
  BY <1>1, WhileLoading DEF Loading, LoaderInv, Base, Unlinked
<1>3. ASSUME NEW b \in 1..Len(blockTable) PROVE Len(blockTable[b].code) = 0
  <2>1. blockTable[b] = EmptyBlock
    BY <1>1, <1>2
  <2> QED
    BY <2>1 DEF EmptyBlock
<1> QED
  BY <1>1, <1>3 DEF NamesInv, NoCodeIn

(* A step that leaves the loader alone keeps what it knows. *)
LEMMA SameNames ==
  ASSUME NamesInv, toks' = toks, prior' = prior, infos' = infos, callStack' = callStack,
         p' = p, phase' = phase, blockTable' = blockTable
  PROVE  NamesInv'
  BY SameText DEF NamesInv

-------------------------------------------------------------------------------
(* What the link makes of code that reads only what it has bound.            *)

(* The code src is at s in c: nothing returns in it, it binds where src does,*)
(* and it reads the variables and the literals that src does.                *)
Copied(c, src, s) ==
  \A i \in 1..Len(src) :
    /\ c[s + i - 1].op # "Ret"
    /\ c[s + i - 1].op = "PopVar" <=> src[i].op = "PopVar"
    /\ c[s + i - 1].op \in {"PushVar", "PushImm"} =>
         src[i].op = c[s + i - 1].op /\ src[i].arg = c[s + i - 1].arg

(* A block that a link has emitted is copied to its base. *)
LEMMA CopiedIs ==
  ASSUME NEW bt \in Seq(BlockInfo), SourceTable(bt), NEW b \in 1..Len(bt),
         NEW R, NEW c, NEW lk, R[b].code = bt[b].code, BlockFaithful(R, c, lk, b)
  PROVE  Copied(c, bt[b].code, R[b].base)
<1> SUFFICES ASSUME NEW i \in 1..Len(bt[b].code)
             PROVE  LET x == bt[b].code[i]
                        y == c[R[b].base + i - 1]
                    IN /\ y.op # "Ret" /\ (y.op = "PopVar" <=> x.op = "PopVar")
                       /\ y.op \in {"PushVar", "PushImm"} => x.op = y.op /\ x.arg = y.arg
  BY DEF Copied
<1> DEFINE x == bt[b].code[i]
           y == c[R[b].base + i - 1]
<1>1. x.op \notin {"Ret", "TailCall", "TailApply"} /\ x \in Instruction
  <2>1. bt[b].code \in Seq(Instruction)
    <3>1. bt[b] \in BlockInfo
      BY ElementOfSeq
    <3> QED
      BY <3>1 DEF BlockInfo
  <2> QED
    BY <2>1, ElementOfSeq DEF SourceTable, SourceInst
<1>2. y.op = TailForm(x).op \/ y.op = x.op
  BY DEF BlockFaithful
<1>3. SameInst(R, lk, x, y)
  BY DEF BlockFaithful
<1> HIDE DEF x, y
<1>4. \/ TailForm(x).op = x.op
      \/ x.op = "Call" /\ TailForm(x).op = "TailCall"
      \/ x.op = "Apply" /\ TailForm(x).op = "TailApply"
  BY <1>1 DEF TailForm, Instruction
<1>5. /\ y.op # "Ret" /\ (y.op = "PopVar" <=> x.op = "PopVar")
      /\ y.op \in {"PushVar", "PushImm"} => x.op = y.op /\ x.arg = y.arg
  BY <1>1, <1>2, <1>3, <1>4 DEF SameInst
<1> QED
  BY <1>5 DEF x, y

(* There are finitely many binders before an address. *)
LEMMA BoundIsFinite ==
  ASSUME NEW c, NEW a \in Nat
  PROVE  IsFiniteSet(BindersBefore(c, a)) /\ Bound(c, a) \in Nat
<1>1. IsFiniteSet(1..(a - 1))
  BY FS_Interval
<1>2. IsFiniteSet(BindersBefore(c, a))
  BY <1>1, FS_Subset DEF BindersBefore
<1> QED
  BY <1>2, FS_CardinalityType DEF Bound

(* What the code has bound is bound where it is copied to. *)
LEMMA CopiedBound ==
  ASSUME NEW c, NEW src, NEW s \in Nat, s >= 1, Copied(c, src, s),
         Len(src) \in Nat, NEW i \in 1..Len(src)
  PROVE  Cardinality(BindersIn(src, i - 1)) <= Bound(c, s + i - 1)
<1> DEFINE S == BindersIn(src, i - 1)
           k == s - 1
           T == { k + j : j \in S }
           B == BindersBefore(c, s + i - 1)
<1>1. i - 1 \in Nat /\ k \in Nat /\ s + i - 1 \in Nat /\ i \in Nat
  OBVIOUS
<1>2. S \in SUBSET Nat /\ IsFiniteSet(S) /\ \A j \in S : j \in 1..(i - 1) /\ src[j].op = "PopVar"
  <2>1. IsFiniteSet(S)
    BY <1>1, BindersFinite
  <2>2. \A j \in S : j \in 1..(i - 1) /\ src[j].op = "PopVar"
    BY DEF BindersIn
  <2> HIDE DEF S
  <2>3. S \in SUBSET Nat
    BY <2>2
  <2> QED
    BY <2>1, <2>2, <2>3
<1>3. IsFiniteSet(B)
  BY <1>1, BoundIsFinite
<1> HIDE DEF S, B
<1>4. Cardinality(T) = Cardinality(S)
  BY <1>1, <1>2, ShiftedSet
<1>5. ASSUME NEW j \in S PROVE k + j \in B
  <2>1. j \in 1..(i - 1) /\ src[j].op = "PopVar" /\ j \in 1..Len(src)
    BY <1>2
  <2>2. s + j - 1 = k + j /\ k + j \in 1..((s + i - 1) - 1)
    BY <1>1, <2>1
  <2>3. c[k + j].op = "PopVar"
    BY <2>1, <2>2 DEF Copied
  <2>4. ASSUME NEW a \in (k + j)..((s + i - 1) - 1) PROVE c[a].op # "Ret"
    <3>1. a - k \in 1..Len(src) /\ s + (a - k) - 1 = a
      BY <1>1, <2>1, <2>2
    <3> QED
      BY <3>1 DEF Copied
  <2>5. Straight(c, k + j, s + i - 1)
    BY <2>4 DEF Straight
  <2> QED
    BY <2>2, <2>3, <2>5 DEF B, BindersBefore
<1>6. T \subseteq B
  BY <1>5
<1> HIDE DEF T
<1>7. Cardinality(T) <= Cardinality(B)
  BY <1>3, <1>6, FS_Subset
<1> QED
  BY <1>4, <1>7 DEF Bound, S, B

(* R and c are what a link makes of the table bt and the code old: where the *)
(* blocks of bt begin, and the image that holds them.                        *)
LinkOf(bt, old, e, R, c) ==
  /\ LinkedIs(c, bt, old, e)
  /\ \A b \in Emitted(bt, e) :
       /\ R[b].code = bt[b].code /\ R[b].base = Place(old, bt, e, b, 1)
       /\ BlockFaithful(R, c, Emitted(bt, e), b)

(* What is at the address a of c is in the copy of some block of bt. *)
FoundIn(bt, c, a) ==
  \E b \in 1..Len(bt) : \E i \in 1..Len(bt[b].code) : \E s \in Nat :
    s >= 1 /\ a = s + i - 1 /\ Copied(c, bt[b].code, s)

(* Whatever a link appends, but the Rets, is copied from a block. *)
LEMMA ImageFound ==
  ASSUME NEW bt \in Seq(BlockInfo), SourceTable(bt), NEW e, NEW old \in Seq(Instruction),
         NEW R, NEW c, LinkOf(bt, old, e, R, c),
         NEW k, k = Len(old) + 1, NEW a \in k..Len(c), c[a].op # "Ret"
  PROVE  FoundIn(bt, c, a)
<1>1. LinkedIs(c, bt, old, e) /\ Len(old) \in Nat /\ a \in (Len(old) + 1)..Len(c)
  <2>1. LinkedIs(c, bt, old, e)
    BY Zenon DEF LinkOf
  <2>2. a \in (Len(old) + 1)..Len(c)
    BY Zenon
  <2>3. Len(old) \in Nat
    OBVIOUS
  <2> QED
    BY <2>1, <2>2, <2>3, Zenon
<1>2. PICK b \in Emitted(bt, e) : \E i \in 1..Len(ImageOf(bt[b].code)) :
             a = Place(old, bt, e, b, i)
  BY <1>1, PlaceFound
<1>3. PICK i \in 1..Len(ImageOf(bt[b].code)) : a = Place(old, bt, e, b, i)
  BY <1>2
<1>4. b \in 1..Len(bt)
  BY DEF Emitted
<1>5. /\ R[b].code = bt[b].code /\ R[b].base = Place(old, bt, e, b, 1)
      /\ BlockFaithful(R, c, Emitted(bt, e), b)
  BY DEF LinkOf
<1>6. PICK src : src = bt[b].code
  OBVIOUS
<1>7. src \in Seq(Instruction) /\ Len(src) \in Nat
  <2>1. bt[b] \in BlockInfo
    BY <1>4, ElementOfSeq
  <2>2. src \in Seq(Instruction)
    BY <1>6, <2>1 DEF BlockInfo
  <2> QED
    BY <2>2
<1>8. Len(ImageOf(src)) = Len(src) + 1
  BY <1>7, ImageIs
<1>9. PICK n : n = Len(old) + Before(bt, e, b)
  OBVIOUS
<1>10. n \in Nat
  BY <1>1, <1>4, <1>9, BeforeNat
<1>11. R[b].base = n + 1 /\ a = n + i /\ i \in 1..(Len(src) + 1)
  <2>1. Place(old, bt, e, b, 1) = n + 1 /\ Place(old, bt, e, b, i) = n + i
    BY <1>9 DEF Place
  <2>2. i \in 1..(Len(src) + 1)
    BY <1>6, <1>8
  <2> QED
    BY <1>3, <1>5, <2>1, <2>2
<1>12. i # Len(src) + 1
  <2> SUFFICES ASSUME i = Len(src) + 1 PROVE FALSE
    OBVIOUS
  <2>1. a = R[b].base + Len(src)
    BY <1>7, <1>10, <1>11
  <2>2. c[R[b].base + Len(R[b].code)].op = "Ret"
    BY <1>5 DEF BlockFaithful
  <2> QED
    BY <1>5, <1>6, <2>1, <2>2
<1>13. i \in 1..Len(src) /\ n + 1 \in Nat /\ n + 1 >= 1 /\ a = (n + 1) + i - 1
  <2>1. PICK m : m = Len(src)
    OBVIOUS
  <2>2. m \in Nat /\ i \in 1..(m + 1) /\ i # m + 1
    BY <1>7, <1>11, <1>12, <2>1, Zenon
  <2>3. i \in 1..m
    BY <2>2
  <2>4. n + 1 \in Nat /\ n + 1 >= 1
    BY <1>10
  <2>5. i \in Nat /\ n + i = (n + 1) + i - 1
    BY <1>10, <2>2
  <2>6. a = (n + 1) + i - 1
    BY <1>11, <2>5, Zenon
  <2> QED
    BY <2>1, <2>3, <2>4, <2>6, Zenon
<1>14. Copied(c, src, n + 1)
  <2>1. Copied(c, bt[b].code, R[b].base)
    BY <1>4, <1>5, CopiedIs
  <2> QED
    BY <1>6, <1>11, <2>1
<1> QED
  BY <1>4, <1>6, <1>13, <1>14 DEF FoundIn

(***************************************************************************)
(* The image of a table whose literals are numerals has only such; and if  *)
(* every block reads only what it has bound, so does the image.            *)
(***************************************************************************)
LEMMA ImageFits ==
  ASSUME NEW bt \in Seq(BlockInfo), SourceTable(bt), NEW e \in 1..Len(bt)
  PROVE  /\ AllLiteralsFit(bt) => LiteralsFit(Linked(<< >>, bt, e))
         /\ AllReadBound(bt) => SelfContained(Linked(<< >>, bt, e))
<1>0. PICK old : old = << >>
  OBVIOUS
<1>1. old \in Seq(Instruction) /\ EndsInRet(old) /\ Len(old) = 0
  BY <1>0, EmptySeq DEF EndsInRet
<1>2. PICK c : c = Linked(old, bt, e)
  OBVIOUS
<1>3. PICK R : R = Rebased(old, bt, e)
  OBVIOUS
<1>4. /\ LinkedIs(c, bt, old, e)
      /\ \A b \in Emitted(bt, e) : BlockFaithful(R, c, Emitted(bt, e), b)
  <2>1. old \in Seq(Instruction)
    BY <1>1
  <2>2. EndsInRet(old)
    BY <1>1
  <2>3. LinkedIs(c, bt, old, e)
    BY <1>2, <2>1, LinkedHolds
  <2>4. \A b \in Emitted(bt, e) :
          BlockFaithful(Rebased(old, bt, e), Linked(old, bt, e), Emitted(bt, e), b)
    BY <2>1, <2>2, LinkFaithful
  <2> QED
    BY <1>2, <1>3, <2>3, <2>4, Zenon
<1>5. /\ \A b \in 1..Len(bt) : R[b].code = bt[b].code
      /\ \A b \in Emitted(bt, e) : R[b].base = Place(old, bt, e, b, 1)
  <2>1. old \in Seq(Instruction)
    BY <1>1
  <2>2. EndsInRet(old)
    BY <1>1
  <2>3. LinkedIs(c, bt, old, e)
    BY <1>4
  <2>4. \A b \in 1..Len(bt) : Rebased(old, bt, e)[b].code = bt[b].code
    BY <2>1, RebasedIs
  <2>5. ASSUME NEW b \in Emitted(bt, e)
        PROVE  Rebased(old, bt, e)[b].base = Place(old, bt, e, b, 1)
    BY <2>1, <2>2, <2>3, BlockStarts
  <2> QED
    BY <1>3, <2>4, <2>5, Zenon
<1>6. LinkOf(bt, old, e, R, c)
  <2>1. \A b \in Emitted(bt, e) : b \in 1..Len(bt)
    BY DEF Emitted
  <2> QED
    BY <1>4, <1>5, <2>1 DEF LinkOf
<1>7. ASSUME NEW a \in 1..Len(c), c[a].op # "Ret" PROVE FoundIn(bt, c, a)
  <2>1. old \in Seq(Instruction)
    BY <1>1
  <2>2. PICK k : k = Len(old) + 1
    OBVIOUS
  <2>3. a \in k..Len(c)
    BY <1>1, <2>2
  <2> QED
    BY <1>6, <1>7, <2>1, <2>2, <2>3, ImageFound
<1>8. ASSUME AllLiteralsFit(bt) PROVE LiteralsFit(c)
  <2> SUFFICES ASSUME NEW a \in 1..Len(c), c[a].op = "PushImm" PROVE c[a].arg \in Numerals
    BY DEF LiteralsFit
  <2>1. PICK b \in 1..Len(bt) : \E i \in 1..Len(bt[b].code) : \E s \in Nat :
               s >= 1 /\ a = s + i - 1 /\ Copied(c, bt[b].code, s)
    BY <1>7 DEF FoundIn
  <2>2. PICK i \in 1..Len(bt[b].code) : \E s \in Nat :
               s >= 1 /\ a = s + i - 1 /\ Copied(c, bt[b].code, s)
    BY <2>1
  <2>3. bt[b].code[i].op = "PushImm" /\ bt[b].code[i].arg = c[a].arg
    BY <2>2 DEF Copied
  <2> QED
    BY <1>8, <2>3 DEF AllLiteralsFit, LiteralsFit
<1>9. ASSUME AllReadBound(bt) PROVE SelfContained(c)
  <2> SUFFICES ASSUME NEW a \in 1..Len(c), c[a].op = "PushVar" PROVE c[a].arg < Bound(c, a)
    BY DEF SelfContained
  <2>1. PICK b \in 1..Len(bt) : \E i \in 1..Len(bt[b].code) : \E s \in Nat :
               s >= 1 /\ a = s + i - 1 /\ Copied(c, bt[b].code, s)
    BY <1>7 DEF FoundIn
  <2>2. PICK i \in 1..Len(bt[b].code) : \E s \in Nat :
               s >= 1 /\ a = s + i - 1 /\ Copied(c, bt[b].code, s)
    BY <2>1
  <2>3. PICK s \in Nat : s >= 1 /\ a = s + i - 1 /\ Copied(c, bt[b].code, s)
    BY <2>2
  <2>4. PICK src : src = bt[b].code
    OBVIOUS
  <2>5. src \in Seq(Instruction) /\ Len(src) \in Nat /\ i \in 1..Len(src)
    <3>1. bt[b] \in BlockInfo
      BY ElementOfSeq
    <3>2. src \in Seq(Instruction)
      BY <2>4, <3>1 DEF BlockInfo
    <3> QED
      BY <2>4, <3>2
  <2>6. src[i].op = "PushVar" /\ src[i].arg = c[a].arg /\ src[i] \in Instruction
    BY <2>3, <2>4, <2>5, ElementOfSeq DEF Copied
  <2>7. src[i].arg < Cardinality(BindersIn(src, i - 1))
    BY <1>9, <2>4, <2>5, <2>6 DEF AllReadBound, ReadsBound
  <2>8. Cardinality(BindersIn(src, i - 1)) <= Bound(c, a)
    BY <2>3, <2>4, <2>5, CopiedBound
  <2>9. c[a].arg \in Nat /\ Cardinality(BindersIn(src, i - 1)) \in Nat /\ Bound(c, a) \in Nat
    <3>1. i - 1 \in Nat /\ a \in Nat
      BY <2>5
    <3> QED
      BY <2>6, <3>1, BindersFinite, BoundIsFinite DEF Instruction
  <2> QED
    BY <2>6, <2>7, <2>8, <2>9
<1> QED
  BY <1>0, <1>2, <1>8, <1>9

-------------------------------------------------------------------------------
(* The assumptions of SorcerVM hold of the machine that runs the source, and *)
(* the two instances of it, that of SorcerProgram and that of its proofs,    *)
(* say the same.                                                             *)

(* The operators of SR_arith are operators. *)
LEMMA ArithFits == ArithOprs \in Seq(Opr)
<1> DEFINE u == Unary
           b == Binary
           s == << u, b, b, b, b >>
<1>1. u \in Opr /\ b \in Opr
  BY DEF Unary, Binary, Opr
<1>2. ArithOprs = s
  BY DEF ArithOprs
<1> HIDE DEF u, b
<1>3. Len(s) = 5 /\ s = [i \in 1..5 |-> s[i]] /\ \A i \in 1..5 : s[i] \in Opr
  BY <1>1
<1> HIDE DEF s
<1>4. s \in Seq(Opr)
  BY <1>3
<1> QED
  BY <1>2, <1>4

(* What SorcerVM assumes holds of the machine of one source. *)
LEMMA MachineAssumed ==
  /\ VMP!ImagesAssumption /\ VMP!OprAssumption /\ VMP!HandlesAssumption
  /\ VMP!BoundsAssumption /\ VMP!ReuseAssumption
<1>1. VMP!ImagesAssumption
  BY DEF VMP!ImagesAssumption
<1>2. VMP!OprAssumption
  BY ArithFits DEF VMP!OprAssumption, VMP!Opr, Opr
<1>3. VMP!HandlesAssumption
  BY PoolAssumption DEF VMP!HandlesAssumption
<1>4. VMP!BoundsAssumption
  BY StackAssumption DEF VMP!BoundsAssumption
<1>5. VMP!ReuseAssumption
  BY DEF VMP!ReuseAssumption
<1> QED
  BY <1>1, <1>2, <1>3, <1>4, <1>5

(* The instructions, *)
LEMMA OneStep == VM!Step <=> VMP!Step
  BY DEF VM!Step, VMP!Step, VM!PopNull, VMP!PopNull, VM!PopVar, VMP!PopVar,
         VM!PopNothing, VMP!PopNothing, VM!PushImm, VMP!PushImm, VM!PushBadImm,
         VMP!PushBadImm, VM!PushVar, VMP!PushVar, VM!ReadsUnbound, VMP!ReadsUnbound,
         VM!PushRemains,
         VMP!PushRemains, VM!PushNothing, VMP!PushNothing, VM!PushBlock,
         VMP!PushBlock, VM!Call, VMP!Call, VM!Apply, VMP!Apply, VM!ApplyFail,
         VMP!ApplyFail, VM!OprRun, VMP!OprRun, VM!OprFail, VMP!OprFail, VM!Ret,
         VMP!Ret, VM!RetEnd, VMP!RetEnd, VM!BadFrame, VMP!BadFrame, VM!TailCall,
         VMP!TailCall, VM!TailApply, VMP!TailApply, VM!TailApplyFail,
         VMP!TailApplyFail, VM!FetchNothing, VMP!FetchNothing, VM!Executing,
         VMP!Executing, VM!Front, VMP!Front, VM!Freed, VMP!Freed, VM!Last,
         VMP!Last, VM!Jump, VMP!Jump, VM!ExecutingOneOf, VMP!ExecutingOneOf,
         VM!VarBase, VMP!VarBase, VM!Fault, VMP!Fault, VM!Arg, VMP!Arg,
         VM!PushCell, VMP!PushCell, VM!Num, VMP!Num, VM!Fresh, VMP!Fresh,
         VM!Slot, VMP!Slot, VM!CellDup, VMP!CellDup, VM!Blk, VMP!Blk,
         VM!Entries, VMP!Entries, VM!PushFrame, VMP!PushFrame, VM!TopIsBlock,
         VMP!TopIsBlock, VM!Fail, VMP!Fail, VM!Free, VMP!Free, VM!OprFits,
         VMP!OprFits, VM!OprResult, VMP!OprResult, VM!OprPool, VMP!OprPool,
         VM!CutVars, VMP!CutVars, VM!Halt, VMP!Halt, VM!Owned, VMP!Owned,
         VM!NUM, VMP!NUM, VM!BLOCK, VMP!BLOCK, VM!Wild, VMP!Wild

(* the start and the end of the machine's life, *)
LEMMA OneLife == (\A a : VM!Run(a) <=> VMP!Run(a)) /\ (VM!CtxFree => VMP!Host)
<1>1. \A a : VM!Run(a) <=> VMP!Run(a)
  BY DEF VM!Run, VMP!Run
<1>2. VM!CtxFree => VMP!CtxFree
  BY DEF VM!CtxFree, VMP!CtxFree, VM!Freed, VMP!Freed, VM!Owned, VMP!Owned,
         VM!NUM, VMP!NUM
<1> QED
  BY <1>1, <1>2 DEF VMP!Host

(* and what they say of code. *)
LEMMA OneCode ==
  /\ VMP!Instruction = Instruction /\ VMP!BLOCK = BLOCK
  /\ \A c, m : VMP!LinkageFrom(c, m) <=> LinkageFrom(c, m)
  /\ \A c, m : VMP!EntriesFrom(c, m) = EntriesFrom(c, m)
  /\ \A c : VMP!SelfContained(c) <=> SelfContained(c)
<1>1. \A c : VMP!SelfContained(c) <=> SelfContained(c)
  BY DEF VMP!SelfContained, SelfContained, VMP!Bound, Bound, VMP!BindersBefore,
         BindersBefore, VMP!Straight, Straight, VMP!Cardinality, Cardinality
<1> QED
  BY <1>1 DEF VMP!Instruction, Instruction, VMP!Opcodes, Opcodes, VMP!BLOCK, BLOCK,
              VMP!LinkageFrom, LinkageFrom, VMP!EntriesFrom, EntriesFrom,
              VMP!Entries, Entries

-------------------------------------------------------------------------------
(* The invariant of the whole. *)

(* The machine before anything runs. *)
Unused ==
  /\ ds = << >> /\ rs = << >> /\ vt = << >> /\ pool = {}
  /\ pc = Wild /\ err = "NONE" /\ mode \in {"idle", "freed"}

(* The image of a source that compiled. *)
ImageReady ==
  /\ IInv /\ codeUpdated /\ Root \in linked
  /\ Linkage(code) /\ TailCallsEliminated(code) /\ LiteralsFit(code)
  /\ ListsHoldNames /\ ~ Captures => SelfContained(code)

(* The machine on it. *)
MachineReady ==
  /\ VMP!Machine(1)
  /\ mode \notin {"assertImm", "noInst"}
  /\ mode = "noSlot" => Captures \/ ~ ListsHoldNames

ProgramInv ==
  /\ phase # "executed" => LoaderInv /\ NamesInv /\ Unused
  /\ phase = "executed" => ImageReady /\ MachineReady

(* The invariant has both properties. *)
LEMMA ProgramInvIsEnough ==
  ASSUME ProgramInv
  PROVE  CompiledImage /\ ProgramSafe
<1>1. CASE phase # "executed"
  <2>1. codeUpdated = FALSE /\ mode \in {"idle", "freed"}
    BY <1>1 DEF ProgramInv, LoaderInv, Unlinked, Unused
  <2> QED
    BY <2>1 DEF CompiledImage, ProgramSafe
<1>2. CASE phase = "executed"
  <2>1. ImageReady /\ MachineReady
    BY <1>2 DEF ProgramInv
  <2>2. FreshImage
    BY <2>1, IInvIsEnough DEF ImageReady
  <2>3. CompiledImage
    BY <2>1, <2>2 DEF ImageReady, CompiledImage
  <2>4. mode # "assertFrame"
    BY <2>1 DEF MachineReady, VMP!Machine
  <2> QED
    BY <2>1, <2>3, <2>4 DEF MachineReady, ProgramSafe
<1> QED
  BY <1>1, <1>2

(* A machine that has not run is in order. *)
LEMMA UnusedMachine ==
  ASSUME Unused, code = << >>
  PROVE  VMP!Machine(1)
<1>1. /\ << >> \in Seq(VMP!Instruction) /\ << >> \in Seq(VMP!Cell)
      /\ << >> \in Seq(VMP!Frame) /\ Len(<< >>) = 0
  BY EmptySeq
<1>2. VMP!TypeOK
  BY <1>1 DEF Unused, VMP!TypeOK, Wild
<1> QED
  BY <1>1, <1>2 DEF Unused, VMP!Machine, VMP!CallSites, VMP!BlockCells

-------------------------------------------------------------------------------
(* The steps. *)

(* The loader works in its two passes only. *)
LEMMA StepLoads ==
  ASSUME LoadStep
  PROVE  Loading
<1>1. TreeEnd \/ TreeUnclosed \/ TreeClose \/ TreeUnopened \/ TreeOpen
      \/ TreeDef \/ TreeBadDef \/ TreeLostDef \/ TreeOther => Loading
  BY DEF TreeEnd, TreeUnclosed, TreeClose, TreeUnopened, TreeOpen, TreeDef, TreeBadDef,
         TreeLostDef, TreeOther, InTree, Loading
<1>2. LoadEnd \/ LoadUnclosed \/ LoadClose \/ LoadMisplacedClose \/ LoadOpen
      \/ LoadForeignBlock \/ LoadVars \/ LoadOpenList \/ LoadForeignDef \/ LoadCallee
      \/ LoadUnknown => Loading
  BY DEF LoadEnd, LoadUnclosed, LoadClose, LoadMisplacedClose, LoadOpen, LoadForeignBlock,
         LoadVars, LoadOpenList, LoadForeignDef, LoadCallee, LoadUnknown, InLoad, Loading
<1>3. LoadBlockValue \/ LoadDef \/ LoadApply \/ LoadVar \/ LoadCallInst \/ LoadOpr \/ LoadImm
        => Loading
  BY DEF LoadBlockValue, LoadDef, LoadApply, LoadVar, LoadCallInst, LoadOpr, LoadImm,
         Word, InLoad, Loading
<1> QED
  BY <1>1, <1>2, <1>3 DEF LoadStep

(* A step of the loader leaves the machine unused. *)
LEMMA LoadKeepsProgram ==
  ASSUME ProgramInv, Load
  PROVE  ProgramInv'
<1>1. LoadStep /\ UNCHANGED machineVars
  BY DEF Load
<1>2. phase # "executed"
  BY <1>1, StepLoads DEF Loading
<1>3. LoaderInv /\ NamesInv /\ Unused
  BY <1>2 DEF ProgramInv
<1>4. LoaderInv' /\ NamesInv'
  BY <1>1, <1>3, StepKeeps, StepNames
<1>5. Unused'
  BY <1>1, <1>3 DEF Unused, machineVars
<1>6. phase' # "executed"
  BY <1>4 DEF LoaderInv, Base
<1> QED
  BY <1>4, <1>5, <1>6 DEF ProgramInv

(* SR_run links the root block of what the loader left, and starts there. *)
LEMMA RunRootKeeps ==
  ASSUME ProgramInv, RunRoot
  PROVE  ProgramInv'
<1>1. /\ prior = 0 /\ phase = "loaded" /\ phase' = "executed"
      /\ CodeUpdate(Root) /\ VM!Run(blockTable'[Root].base)
      /\ toks' = toks /\ prior' = prior
  BY DEF RunRoot, Alone
<1>2. LoaderInv /\ NamesInv /\ Unused
  BY <1>1 DEF ProgramInv
<1>3. /\ TableInv /\ code = << >> /\ codeUpdated = FALSE /\ linked = {} /\ unlinked = {}
      /\ AllLiteralsFit(blockTable) /\ Len(blockTable) > prior
      /\ ListsHoldNames /\ ~ Captures => AllReadBound(blockTable)
  BY <1>1, <1>2 DEF LoaderInv, Unlinked, NamesInv
<1>4. IInv
  <2>1. << >> \in Seq(Instruction)
    BY EmptySeq
  <2> QED
    BY <1>3, <2>1 DEF IInv, ImageInv, EndsInRet
<1>5. /\ blockTable \in Seq(BlockInfo) /\ SourceTable(blockTable)
      /\ Root = 1 /\ Root \in Blocks /\ Root \in 1..Len(blockTable)
  <2>1. blockTable \in Seq(BlockInfo) /\ SourceTable(blockTable)
    BY <1>3, TableInvIsEnough DEF TableInv
  <2>2. Root = 1
    BY <1>1 DEF Root, Global
  <2>3. Len(blockTable) \in Nat
    BY <2>1
  <2> QED
    BY <1>1, <1>3, <2>1, <2>2, <2>3 DEF Blocks
<1>6. IInv'
  BY <1>1, <1>4, <1>5, CodeUpdateKeeps
<1>7. PICK t : t = blockTable
  OBVIOUS
<1>8. PICK e : e = Root
  OBVIOUS
<1>9. /\ code' = Linked(<< >>, t, e) /\ codeUpdated' = TRUE /\ linked' = Emitted(t, e)
      /\ blockTable' = Rebased(<< >>, t, e)
  BY <1>1, <1>3, <1>7, <1>8 DEF CodeUpdate
<1>10. t \in Seq(BlockInfo) /\ SourceTable(t) /\ e \in 1..Len(t) /\ Root' = e
  BY <1>1, <1>5, <1>7, <1>8 DEF Root, Global
<1>11. << >> \in Seq(Instruction) /\ EndsInRet(<< >>) /\ Len(<< >>) = 0
  BY EmptySeq DEF EndsInRet
<1>12. LinkageFrom(code', 1)
  <2>1. LinkageFrom(Linked(<< >>, t, e), Len(<< >>) + 1)
    BY <1>10, <1>11, LinkSound
  <2>2. Len(<< >>) + 1 = 1
    BY <1>11
  <2> QED
    BY <1>9, <2>1, <2>2
<1>13. TailCallsEliminated(code')
  <2>1. TailCallsEliminated(<< >>)
    BY <1>11 DEF TailCallsEliminated
  <2> QED
    BY <1>9, <1>10, <1>11, <2>1, LinkTailCalls
<1>14. e \in linked' /\ blockTable'[e].base \in EntriesFrom(code', 1)
  <2>1. e \in Emitted(t, e)
    BY <1>10 DEF Emitted
  <2>2. LinkedIs(code', t, << >>, e)
    BY <1>9, <1>10, <1>11, LinkedHolds
  <2>3. blockTable'[e].base \in EntriesFrom(code', Len(<< >>) + 1)
    BY <1>9, <1>10, <1>11, <2>1, <2>2, BlockStarts
  <2>4. Len(<< >>) + 1 = 1
    BY <1>11
  <2> QED
    BY <1>9, <2>1, <2>3, <2>4
<1>15. LiteralsFit(code') /\ (ListsHoldNames /\ ~ Captures => SelfContained(code'))
  <2>1. /\ AllLiteralsFit(t) => LiteralsFit(Linked(<< >>, t, e))
        /\ AllReadBound(t) => SelfContained(Linked(<< >>, t, e))
    BY <1>10, ImageFits
  <2> QED
    BY <1>3, <1>7, <1>9, <2>1
<1>16. (ListsHoldNames' <=> ListsHoldNames) /\ (Captures' <=> Captures)
  BY <1>1, SameText
<1>17. ImageReady'
  <2>1. Linkage(code')
    BY <1>12 DEF Linkage
  <2> QED
    BY <1>6, <1>9, <1>10, <1>13, <1>14, <1>15, <1>16, <2>1 DEF ImageReady
<1>18. PICK a : a = blockTable'[e].base
  OBVIOUS
<1>19. VMP!Run(a) /\ a \in VMP!EntriesFrom(code', 1)
  BY <1>1, <1>8, <1>14, <1>18, OneLife, OneCode
<1>20. VMP!Machine(1) /\ rs = << >> /\ ds = << >>
  BY <1>2, <1>3, UnusedMachine DEF Unused
<1>21. code' \in Seq(VMP!Instruction) /\ VMP!BlockCells(code', 1, ds)
  <2>1. code' \in Seq(VMP!Instruction)
    BY <1>6, OneCode DEF IInv, ImageInv
  <2>2. Len(ds) = 0
    BY <1>20
  <2> QED
    BY <2>1, <2>2 DEF VMP!BlockCells
<1>22. VMP!Machine(1)'
  BY <1>19, <1>20, <1>21, MachineAssumed, VMP!StartMachine
<1>23. mode' = "running"
  BY <1>19 DEF VMP!Run
<1>24. MachineReady'
  BY <1>22, <1>23 DEF MachineReady
<1> QED
  BY <1>1, <1>17, <1>24 DEF ProgramInv

(* The image stays what it is while it runs. *)
LEMMA ImageStays ==
  ASSUME ImageReady, UNCHANGED manaVars
  PROVE  ImageReady' /\ code' = code /\ phase' = phase
         /\ (ListsHoldNames' <=> ListsHoldNames) /\ (Captures' <=> Captures)
<1>1. UNCHANGED blockVars /\ toks' = toks /\ prior' = prior /\ phase' = phase
  BY DEF manaVars, loadVars
<1>2. (ListsHoldNames' <=> ListsHoldNames) /\ (Captures' <=> Captures)
  BY <1>1, SameText
<1>3. code' = code /\ codeUpdated' = codeUpdated /\ linked' = linked
  BY <1>1 DEF blockVars
<1>4. Root' = Root
  BY <1>1 DEF Root, Global
<1>5. IInv'
  BY <1>1, StutterKeeps DEF ImageReady
<1> QED
  BY <1>1, <1>2, <1>3, <1>4, <1>5 DEF ImageReady

(* A step of the machine stays on the image. *)
LEMMA ExecuteKeepsProgram ==
  ASSUME ProgramInv, Execute
  PROVE  ProgramInv'
<1>1. VMP!Step /\ UNCHANGED manaVars
  BY OneStep DEF Execute
<1>2. mode = "running"
  BY <1>1, MachineAssumed, VMP!StepRuns
<1>3. phase = "executed"
  BY <1>2 DEF ProgramInv, Unused
<1>4. ImageReady /\ VMP!Machine(1)
  BY <1>3 DEF ProgramInv, MachineReady
<1>5. ImageReady' /\ code' = code /\ phase' = phase
      /\ (ListsHoldNames' <=> ListsHoldNames) /\ (Captures' <=> Captures)
  BY <1>1, <1>4, ImageStays
<1>6. VMP!LinkageFrom(code, 1) /\ 1 \in Nat
  BY <1>4, OneCode DEF ImageReady, Linkage
<1>7. VMP!Machine(1)'
  BY <1>1, <1>4, <1>5, <1>6, MachineAssumed, VMP!StepMachine
<1>8. /\ mode' = "assertImm" => VMP!PushBadImm
      /\ mode' = "noSlot" => VMP!PushNothing
      /\ mode' = "noInst" => VMP!FetchNothing
  BY <1>1, MachineAssumed, VMP!StepFaults
<1>9. ~ VMP!PushBadImm
  <2>1. VMP!PushBadImm =>
          pc \in 1..Len(code) /\ code[pc].op = "PushImm" /\ code[pc].arg \notin Numerals
    BY DEF VMP!PushBadImm, VMP!Executing, VMP!ExecutingOneOf, VMP!Arg
  <2> QED
    BY <1>4, <2>1 DEF ImageReady, LiteralsFit
<1>10. ~ VMP!FetchNothing
  <2>1. pc \in 1..Len(code)
    BY <1>2, <1>4 DEF VMP!Machine
  <2> QED
    BY <2>1 DEF VMP!FetchNothing
<1>11. VMP!PushNothing => Captures \/ ~ ListsHoldNames
  <2> SUFFICES ASSUME VMP!PushNothing, ListsHoldNames, ~ Captures PROVE FALSE
    OBVIOUS
  <2>1. VMP!SelfContained(code)
    BY <1>4, OneCode DEF ImageReady
  <2>2. VMP!Executing("PushVar") /\ VMP!Slot(VMP!Arg) > Len(vt)
    BY DEF VMP!PushNothing, VMP!ReadsUnbound
  <2>3. VMP!Slot(VMP!Arg) \in (VMP!VarBase + 1)..Len(vt)
    BY <1>4, <1>6, <2>1, <2>2, MachineAssumed, VMP!MachineReads
  <2>4. Len(vt) \in Nat
    BY <1>4 DEF VMP!Machine, VMP!TypeOK
  <2> QED
    BY <2>2, <2>3, <2>4
<1>12. MachineReady'
  BY <1>5, <1>7, <1>8, <1>9, <1>10, <1>11 DEF MachineReady
<1> QED
  BY <1>3, <1>5, <1>12 DEF ProgramInv

(* Freeing the context keeps the image, and the machine idle. *)
LEMMA FinishKeeps ==
  ASSUME ProgramInv, Finish
  PROVE  ProgramInv'
<1>1. /\ VM!CtxFree /\ VMP!Host /\ UNCHANGED manaVars
  BY OneLife DEF Finish
<1>2. mode' = "freed" /\ ds' = << >> /\ rs' = << >> /\ vt' = vt /\ pc' = pc /\ err' = err
      /\ pool' = VM!Freed(pool, ds)
  BY <1>1 DEF VM!CtxFree
<1>3. CASE phase # "executed"
  <2>1. LoaderInv /\ NamesInv /\ Unused
    BY <1>3 DEF ProgramInv
  <2>2. LoaderInv' /\ NamesInv' /\ phase' = phase
    BY <1>1, <2>1, SameKeeps, SameNames DEF manaVars, loadVars, blockVars
  <2>3. Unused'
    BY <1>2, <2>1 DEF Unused, VM!Freed
  <2> QED
    BY <1>3, <2>2, <2>3 DEF ProgramInv
<1>4. CASE phase = "executed"
  <2>1. ImageReady /\ VMP!Machine(1)
    BY <1>4 DEF ProgramInv, MachineReady
  <2>2. ImageReady' /\ code' = code /\ phase' = phase
    BY <1>1, <2>1, ImageStays
  <2>3. VMP!Machine(1)'
    BY <1>1, <2>1, <2>2, MachineAssumed, VMP!HostMachine
  <2> QED
    BY <1>2, <1>4, <2>2, <2>3 DEF ProgramInv, MachineReady
<1> QED
  BY <1>3, <1>4

(* So does a step of nothing. *)
LEMMA SameProgram ==
  ASSUME ProgramInv, UNCHANGED programVars
  PROVE  ProgramInv'
<1>1. UNCHANGED manaVars /\ UNCHANGED machineVars
  BY DEF programVars
<1>2. CASE phase # "executed"
  <2>1. LoaderInv /\ NamesInv /\ Unused
    BY <1>2 DEF ProgramInv
  <2>2. LoaderInv' /\ NamesInv' /\ phase' = phase
    BY <1>1, <2>1, SameKeeps, SameNames DEF manaVars, loadVars, blockVars
  <2>3. Unused'
    BY <1>1, <2>1 DEF Unused, machineVars
  <2> QED
    BY <1>2, <2>2, <2>3 DEF ProgramInv
<1>3. CASE phase = "executed"
  <2>1. ImageReady /\ MachineReady
    BY <1>3 DEF ProgramInv
  <2>2. ImageReady' /\ code' = code /\ phase' = phase
        /\ (ListsHoldNames' <=> ListsHoldNames) /\ (Captures' <=> Captures)
    BY <1>1, <2>1, ImageStays
  <2>3. VMP!Machine(1)'
    BY <1>1, <2>1, <2>2 DEF MachineReady, VMP!Machine, VMP!TypeOK, machineVars
  <2>4. MachineReady'
    BY <1>1, <2>1, <2>2, <2>3 DEF MachineReady, machineVars
  <2> QED
    BY <1>3, <2>2, <2>4 DEF ProgramInv
<1> QED
  BY <1>2, <1>3

(* A new context begins with the loader. *)
LEMMA ProgramBegins ==
  ASSUME ProgramInit
  PROVE  ProgramInv
<1>1. LoaderInv /\ NamesInv /\ phase # "executed"
  BY BeginsWell, BeginsNamed DEF ProgramInit, LoadInit
<1>2. Unused
  BY DEF ProgramInit, Unused
<1> QED
  BY <1>1, <1>2 DEF ProgramInv

-------------------------------------------------------------------------------
(***************************************************************************)
(* While the source compiles the loader's invariants hold; from SR_run on  *)
(* the image is what its blocks say and the machine is on it, until the    *)
(* context is freed (execCode of shell/main.c, test of tests/main.c).      *)
(***************************************************************************)
THEOREM ProgramInvariance == ProgramSpec => []ProgramInv
<1>1. ProgramInit => ProgramInv
  BY ProgramBegins
<1>2. ProgramInv /\ [ProgramNext]_programVars => ProgramInv'
  BY LoadKeepsProgram, RunRootKeeps, ExecuteKeepsProgram, FinishKeeps, SameProgram DEF ProgramNext
<1> QED
  BY <1>1, <1>2, PTL DEF ProgramSpec

(***************************************************************************)
(* What a compiled source is linked to (SR_codeUpdate) is one image with   *)
(* its tail calls eliminated, which holds the root block and every block   *)
(* it names as the loader left them; and unless the source captures a      *)
(* variable (or hides one in braces inside a list), every block reads only *)
(* what it has bound.                                                      *)
(***************************************************************************)
THEOREM ImagesCompiled == ProgramSpec => []CompiledImage
  BY ProgramInvariance, ProgramInvIsEnough, PTL

(***************************************************************************)
(* A source that compiles runs without a failed assertion and never leaves *)
(* the code; and it reads a variable that is not there only if it captures *)
(* one (SR_run, on what SR_blockFromManaCode made).                        *)
(***************************************************************************)
THEOREM ProgramsSafe == ProgramSpec => []ProgramSafe
  BY ProgramInvariance, ProgramInvIsEnough, PTL

===============================================================================
