--------------------------- MODULE SorcerMana_proofs ---------------------------
(***************************************************************************)
(* Proofs about SorcerMana, for every source and every table of words: the *)
(* first pass makes a forest of the blocks of the text, and the second is  *)
(* always inside the block it thinks it is in.  So the loader's variables  *)
(* keep their types (LoaderTypeOK), and on a well-formed source none of    *)
(* its assertions fails (SafeLoad).                                        *)
(***************************************************************************)
EXTENDS SorcerMana, SorcerBlocks_proofs

-------------------------------------------------------------------------------
(* Counting braces. *)

(* The tokens a block begins and ends with. *)
Opener == "{"
Closer == "}"
Braces == {Opener, Closer}

(* The two braces are different tokens.                                       *)
LEMMA BracesDiffer == Opener # Closer
  BY Zenon DEF Opener, Closer

Count(tk, t, j, k) == Cardinality({ i \in j..k : tk[i] = t })

(* How many more braces open than close from j to k in the text tk. *)
Rise(tk, j, k) == Count(tk, Opener, j, k) - Count(tk, Closer, j, k)

(* The tokens of one kind can be counted, one position after the other. *)
LEMMA CountNext ==
  ASSUME NEW tk, NEW t, NEW j \in Nat, NEW k \in Nat, j <= k + 1
  PROVE  /\ Count(tk, t, j, k) \in Nat
         /\ tk[k + 1] = t => Count(tk, t, j, k + 1) = Count(tk, t, j, k) + 1
         /\ tk[k + 1] # t => Count(tk, t, j, k + 1) = Count(tk, t, j, k)
         /\ j = k + 1 => Count(tk, t, j, k) = 0
<1> DEFINE A == { i \in j..k : tk[i] = t }
           B == { i \in j..(k + 1) : tk[i] = t }
<1>1. IsFiniteSet(A)
  <2>1. IsFiniteSet(j..k)
    BY FS_Interval
  <2> QED
    BY <2>1, FS_Subset
<1>2. tk[k + 1] = t => B = A \union {k + 1} /\ k + 1 \notin A
  OBVIOUS
<1>3. tk[k + 1] # t => B = A
  OBVIOUS
<1>4. j = k + 1 => A = {}
  OBVIOUS
<1>5. Count(tk, t, j, k) = Cardinality(A) /\ Count(tk, t, j, k + 1) = Cardinality(B)
  BY DEF Count
<1> HIDE DEF A, B
<1>6. Cardinality(A) \in Nat
  BY <1>1, FS_CardinalityType
<1>7. k + 1 \notin A => Cardinality(A \union {k + 1}) = Cardinality(A) + 1
  BY <1>1, FS_AddElement
<1>8. A = {} => Cardinality(A) = 0
  BY FS_EmptySet
<1> QED
  BY <1>2, <1>3, <1>4, <1>5, <1>6, <1>7, <1>8

(* So a brace more changes the difference by one. *)
LEMMA RiseNext ==
  ASSUME NEW tk, NEW j \in Nat, NEW k \in Nat, j <= k + 1
  PROVE  /\ Rise(tk, j, k) \in Int
         /\ tk[k + 1] = Opener => Rise(tk, j, k + 1) = Rise(tk, j, k) + 1
         /\ tk[k + 1] = Closer => Rise(tk, j, k + 1) = Rise(tk, j, k) - 1
         /\ tk[k + 1] \notin Braces => Rise(tk, j, k + 1) = Rise(tk, j, k)
         /\ j = k + 1 => Rise(tk, j, k) = 0
<1> DEFINE a == Count(tk, Opener, j, k)
           b == Count(tk, Closer, j, k)
           x == Count(tk, Opener, j, k + 1)
           y == Count(tk, Closer, j, k + 1)
<1>1. /\ a \in Nat
      /\ tk[k + 1] = Opener => x = a + 1
      /\ tk[k + 1] # Opener => x = a
      /\ j = k + 1 => a = 0
  BY CountNext
<1>2. /\ b \in Nat
      /\ tk[k + 1] = Closer => y = b + 1
      /\ tk[k + 1] # Closer => y = b
      /\ j = k + 1 => b = 0
  BY CountNext
<1>3. Rise(tk, j, k) = a - b /\ Rise(tk, j, k + 1) = x - y
  BY DEF Rise
<1>4. Opener # Closer
  BY BracesDiffer
<1> HIDE DEF a, b, x, y
<1>5. tk[k + 1] = Opener => x = a + 1 /\ y = b
  BY <1>1, <1>2, <1>4
<1>6. tk[k + 1] = Closer => x = a /\ y = b + 1
  BY <1>1, <1>2, <1>4
<1>7. tk[k + 1] \notin Braces => x = a /\ y = b
  BY <1>1, <1>2 DEF Braces
<1>8. a \in Nat /\ b \in Nat /\ (j = k + 1 => a = 0 /\ b = 0)
  BY <1>1, <1>2
<1>9. a - b \in Int
  BY <1>8
<1>10. tk[k + 1] = Opener => x - y = (a - b) + 1
  BY <1>5, <1>8
<1>11. tk[k + 1] = Closer => x - y = (a - b) - 1
  BY <1>6, <1>8
<1>12. tk[k + 1] \notin Braces => x - y = a - b
  BY <1>7
<1>13. j = k + 1 => a - b = 0
  BY <1>8
<1> QED
  BY <1>3, <1>9, <1>10, <1>11, <1>12, <1>13

(* This is what the module counts. *)
LEMMA OpeningIs == \A j, k : Opening(j, k) = Rise(toks, j, k)
  BY DEF Opening, Rise, Count, Opener, Closer

-------------------------------------------------------------------------------
(* The block infos as a forest over the text tk: a block spans the positions *)
(* after its begin, up to its end if it has one; the root spans them all.    *)

Spans(inf, i, k) ==
  i = 1 \/ (inf[i].begin < k /\ (inf[i].end = None \/ k <= inf[i].end))

(* The last block that spans k is the innermost: see Apart. *)
Innermost(inf, i, k) ==
  /\ i \in 1..Len(inf) /\ Spans(inf, i, k)
  /\ \A j \in 1..Len(inf) : Spans(inf, j, k) => j <= i

(* A block lies between two braces, and its scope is the block it begins in. *)
Formed(tk, inf, i) ==
  /\ inf[i].begin \in 1..Len(tk) /\ tk[inf[i].begin] = Opener
  /\ inf[i].end # None =>
       /\ inf[i].end \in 1..Len(tk) /\ inf[i].begin < inf[i].end
       /\ tk[inf[i].end] = Closer
  /\ Innermost(inf, inf[i].scope, inf[i].begin)

(* Of two blocks, the second begins after the first has ended or ends inside *)
(* it.                                                                       *)
Apart(inf, i, j) ==
  /\ inf[i].begin < inf[j].begin
  /\ \/ inf[i].end = None \/ inf[i].end < inf[j].begin
     \/ inf[j].end # None /\ inf[j].end < inf[i].end

(* The name in front of a block that begins at b. *)
HasName(tk, b) == b - 1 \in 1..Len(tk) /\ tk[b - 1] \in DOMAIN DefOf

NameOf(tk, b) == DefOf[tk[b - 1]]

(* An entry d of the definitions of block i. *)
DefFits(tk, inf, i, d) ==
  /\ d.block \in 2..Len(inf) /\ inf[d.block].scope = i /\ inf[d.block].end # None
  /\ HasName(tk, inf[d.block].begin) /\ d.name = NameOf(tk, inf[d.block].begin)

DefsFit(tk, inf, i) == \A x \in 1..Len(inf[i].defs) : DefFits(tk, inf, i, inf[i].defs[x])

AllApart(inf) == \A i, j \in 2..Len(inf) : i < j => Apart(inf, i, j)

Forest(tk, inf) ==
  /\ inf \in Seq(LoadBlockInfo) /\ Len(inf) >= 1
  /\ inf[1].scope = None /\ inf[1].begin = 1
  /\ \A i \in 2..Len(inf) : Formed(tk, inf, i)
  /\ AllApart(inf)
  /\ \A i \in 1..Len(inf) : DefsFit(tk, inf, i)

-------------------------------------------------------------------------------
(* The first pass, before position q. *)

(* The stack holds the blocks that have not ended, the innermost last. *)
Rising(cs) == \A m, n \in 1..Len(cs) : m < n => cs[m].block < cs[n].block

OpenStack(tk, inf, cs) ==
  /\ cs \in Seq(LoadCall) /\ Len(cs) >= 1
  /\ cs[1].block = 1 /\ cs[1].def = NoName
  /\ Rising(cs)
  /\ \A n \in 1..Len(cs) : cs[n].block \in 1..Len(inf) /\ inf[cs[n].block].end = None
  /\ \A i \in 1..Len(inf) : inf[i].end = None => \E n \in 1..Len(cs) : cs[n].block = i
  /\ \A n \in 2..Len(cs) : cs[n].def # NoName =>
       /\ HasName(tk, inf[cs[n].block].begin)
       /\ cs[n].def = NameOf(tk, inf[cs[n].block].begin)

(* Everything in the table was read before q. *)
ReadBefore(inf, q) == \A i \in 2..Len(inf) : inf[i].begin < q /\ inf[i].end < q

(* The name of block i, which its scope learns when the block ends. *)
NameKept(inf, cs, i, name) ==
  IF inf[i].end = None
  THEN \E n \in 2..Len(cs) : cs[n].block = i /\ cs[n].def = name
  ELSE \E x \in 1..Len(inf[inf[i].scope].defs) :
         inf[inf[i].scope].defs[x] = [name |-> name, block |-> i]

(* Nothing before q was missed. *)
Noted(tk, inf, cs, k) ==
  /\ tk[k] = Opener => \E i \in 2..Len(inf) : inf[i].begin = k
  /\ tk[k] = Closer => \E i \in 2..Len(inf) : inf[i].end = k
  /\ tk[k] \in DOMAIN DefOf =>
       \E i \in 2..Len(inf) : inf[i].begin = k + 1 /\ NameKept(inf, cs, i, DefOf[tk[k]])

AllNoted(tk, inf, cs, q) == \A k \in 1..(q - 1) : Noted(tk, inf, cs, k)

(* Braces balance where the table says a block ends, and not before. *)
OpenFrom(tk, b, q) == \A m \in b..(q - 1) : Rise(tk, b, m) > 0

(* The block that begins at b has not ended before q, d blocks inside it have *)
(* not either, itself included.                                               *)
Open(tk, b, q, d) == OpenFrom(tk, b, q) /\ Rise(tk, b, q - 1) = d

Balanced(tk, inf, cs, q) ==
  /\ \A n \in 2..Len(cs) : Open(tk, inf[cs[n].block].begin, q, Len(cs) - n + 1)
  /\ \A i \in 2..Len(inf) : inf[i].end # None =>
       OpenFrom(tk, inf[i].begin, inf[i].end) /\ Rise(tk, inf[i].begin, inf[i].end) = 0

(* The second pass has not begun. *)
Untouched(inf) == \A i \in 1..Len(inf) : inf[i].vars = << >> /\ ~ inf[i].loaded

(* All of it, as a relation of the tables and a position. *)
TreeAt(tk, inf, cs, q) ==
  /\ Forest(tk, inf)
  /\ OpenStack(tk, inf, cs)
  /\ ReadBefore(inf, q)
  /\ Balanced(tk, inf, cs, q)
  /\ Untouched(inf)

TreeInv == TreeAt(toks, infos, callStack, p) /\ AllNoted(toks, infos, callStack, p)

-------------------------------------------------------------------------------
(* The second pass. *)

AllEnded(tk, inf) ==
  inf[1].end = Len(tk) + 1 /\ \A i \in 2..Len(inf) : inf[i].end # None

CallsFit(tk, inf, cs) ==
  /\ cs \in Seq(LoadCall) /\ Len(cs) >= 1 /\ cs[1].block = 1
  /\ \A n \in 2..Len(cs) : cs[n].block \in 2..Len(inf) /\ cs[n].retP \in 1..Len(tk)

(* What the second pass takes over from the first, and keeps. *)
TreeDone(tk, inf) ==
  /\ Forest(tk, inf)
  /\ AllEnded(tk, inf)
  /\ inf[1].loaded
  /\ AllNoted(tk, inf, << >>, Len(tk) + 1)
  /\ Balanced(tk, inf, << >>, Len(tk) + 1)

LoadInv == TreeDone(toks, infos) /\ CallsFit(toks, infos, callStack)

(* Position q is innermost in the block of the last call, and each block goes *)
(* on where it was left.                                                      *)
Inside(inf, cs, q) ==
  /\ Innermost(inf, cs[Len(cs)].block, q)
  /\ \A n \in 2..Len(cs) : Innermost(inf, cs[n - 1].block, cs[n].retP)

(* A source that begins with a block is not read beyond it. *)
Tracked ==
  /\ p \in 1..Len(toks) /\ toks[1] = Opener => p = 1
  /\ Inside(infos, callStack, p)

-------------------------------------------------------------------------------
(* The inductive invariant. *)

Loading == phase \in {"tree", "load"}

Base ==
  /\ toks \in Seq(STRING) /\ prior \in Nat
  /\ phase \in Phases \ {"executed"} /\ error \in { "NONE", "Syntax", "UnkWord" }
  /\ p \in 1..End
  /\ infos \in Seq(LoadBlockInfo) /\ callStack \in Seq(LoadCall)

(* The loader never links, and emits to a sound table; what is left of it by *)
(* a load that is rejected is a table still.                                 *)
Unlinked ==
  /\ blockTable \in Seq(BlockInfo)
  /\ phase \notin {"rejected", "badFree"} => TableInv
  /\ code = << >> /\ codeUpdated = FALSE /\ linked = {} /\ unlinked = {}
  /\ Loading => Len(blockTable) = prior + Len(infos)
  /\ phase = "rejected" => Len(blockTable) = prior

LoaderInv ==
  /\ Base
  /\ Unlinked
  /\ phase = "tree" => TreeInv
  /\ phase = "load" => LoadInv
  /\ phase = "load" /\ ListsHoldNames => Tracked
  /\ WellFormed => phase \notin Crashes \union {"abandoned"}


-------------------------------------------------------------------------------
(* Where positions lie in a forest. *)

(* What is known of a block other than the root.                             *)
LEMMA InForest ==
  ASSUME NEW tk \in Seq(STRING), NEW inf, Forest(tk, inf), NEW i \in 2..Len(inf)
  PROVE  /\ Len(inf) \in Nat /\ Len(tk) \in Nat
         /\ inf[i] \in LoadBlockInfo /\ inf[i].scope \in Nat
         /\ inf[i].begin \in 1..Len(tk) /\ tk[inf[i].begin] = Opener
         /\ inf[i].end \in Nat
         /\ inf[i].end # None =>
              inf[i].end \in 1..Len(tk) /\ inf[i].begin < inf[i].end /\ tk[inf[i].end] = Closer
         /\ Innermost(inf, inf[i].scope, inf[i].begin)
<1>1. inf \in Seq(LoadBlockInfo) /\ Len(inf) \in Nat /\ Len(tk) \in Nat
  BY DEF Forest
<1>2. Formed(tk, inf, i)
  BY DEF Forest
<1>3. i \in 1..Len(inf)
  BY <1>1
<1>4. inf[i] \in LoadBlockInfo
  BY <1>1, <1>3, ElementOfSeq
<1>5. inf[i].scope \in Nat /\ inf[i].end \in Nat
  BY <1>4 DEF LoadBlockInfo
<1> QED
  BY <1>1, <1>2, <1>4, <1>5 DEF Formed

(* Blocks are numbered in the order in which they begin.                     *)
LEMMA InOrderOfBegin ==
  ASSUME NEW tk \in Seq(STRING), NEW inf, Forest(tk, inf),
         NEW i \in 2..Len(inf), NEW j \in 2..Len(inf)
  PROVE  /\ i < j => inf[i].begin < inf[j].begin
         /\ inf[i].begin < inf[j].begin => i < j
         /\ inf[i].begin = inf[j].begin => i = j
<1>1. /\ inf[i].begin \in Nat /\ inf[j].begin \in Nat /\ i \in Nat /\ j \in Nat
  <2>1. inf[i].begin \in 1..Len(tk) /\ inf[j].begin \in 1..Len(tk)
    BY InForest
  <2> QED
    BY <2>1
<1>2. i < j => inf[i].begin < inf[j].begin
  BY DEF Forest, AllApart, Apart
<1>3. j < i => inf[j].begin < inf[i].begin
  BY DEF Forest, AllApart, Apart
<1> QED
  BY <1>1, <1>2, <1>3

(* A block begins inside an earlier one, its scope.                          *)
LEMMA ScopeBelow ==
  ASSUME NEW tk \in Seq(STRING), NEW inf, Forest(tk, inf), NEW i \in 2..Len(inf)
  PROVE  inf[i].scope \in 1..(i - 1)
<1> DEFINE s == inf[i].scope
           b == inf[i].begin
<1>1. /\ s \in 1..Len(inf) /\ Spans(inf, s, b) /\ b \in Nat /\ Len(inf) \in Nat
  <2>1. Innermost(inf, s, b) /\ b \in 1..Len(tk) /\ Len(inf) \in Nat
    BY InForest
  <2> QED
    BY <2>1 DEF Innermost
<1>2. s = 1 \/ (s \in 2..Len(inf) /\ inf[s].begin < b)
  BY <1>1 DEF Spans
<1>3. s \in 2..Len(inf) /\ inf[s].begin < b => s < i
  BY InOrderOfBegin
<1> QED
  BY <1>1, <1>2, <1>3

(* Only one block is innermost.                                              *)
LEMMA OneInnermost ==
  ASSUME NEW inf, NEW i, NEW j, NEW k, Len(inf) \in Nat,
         Innermost(inf, i, k), Innermost(inf, j, k)
  PROVE  i = j
<1>1. i <= j /\ j <= i /\ i \in Nat /\ j \in Nat
  BY DEF Innermost
<1> QED
  BY <1>1

NoBrace(tk, p1, q) == \A k \in p1..(q - 1) : tk[k] \notin Braces

Ended(inf) == \A i \in 2..Len(inf) : inf[i].end # None

(* Between braces nothing changes.                                           *)
LEMMA Stretch ==
  ASSUME NEW tk \in Seq(STRING), NEW inf, Forest(tk, inf), Ended(inf),
         NEW k \in Nat, NEW q \in Nat, k <= q, NoBrace(tk, k, q),
         NEW j \in 1..Len(inf)
  PROVE  Spans(inf, j, k) <=> Spans(inf, j, q)
<1>1. CASE j = 1
  BY <1>1 DEF Spans
<1>2. CASE j # 1
  <2>1. j \in 2..Len(inf)
    BY <1>2 DEF Forest
  <2>2. /\ inf[j].begin \in 1..Len(tk) /\ tk[inf[j].begin] = Opener
        /\ inf[j].end \in 1..Len(tk) /\ tk[inf[j].end] = Closer /\ Len(tk) \in Nat
    BY <2>1, InForest DEF Ended
  <2> DEFINE b == inf[j].begin
             e == inf[j].end
  <2>3. b \in Nat /\ e \in Nat /\ e # None
    BY <2>2 DEF None
  <2>4. b \notin k..(q - 1) /\ e \notin k..(q - 1)
    BY <2>2 DEF NoBrace, Braces
  <2>5. /\ Spans(inf, j, k) <=> b < k /\ k <= e
        /\ Spans(inf, j, q) <=> b < q /\ q <= e
    BY <1>2, <2>3 DEF Spans
  <2> HIDE DEF b, e
  <2> QED
    BY <2>3, <2>4, <2>5
<1> QED
  BY <1>1, <1>2

(* ... nor which block is innermost.                                          *)
LEMMA StretchInnermost ==
  ASSUME NEW tk \in Seq(STRING), NEW inf, Forest(tk, inf), Ended(inf),
         NEW k \in Nat, NEW q \in Nat, k <= q, NoBrace(tk, k, q), NEW i
  PROVE  Innermost(inf, i, k) <=> Innermost(inf, i, q)
<1>1. \A j \in 1..Len(inf) : Spans(inf, j, k) <=> Spans(inf, j, q)
  BY Stretch
<1> QED
  BY <1>1 DEF Innermost

(* A step over a word other than a brace.                                    *)
LEMMA StepInnermost ==
  ASSUME NEW tk \in Seq(STRING), NEW inf, Forest(tk, inf), Ended(inf),
         NEW k \in Nat, tk[k] \notin Braces, NEW i
  PROVE  Innermost(inf, i, k) <=> Innermost(inf, i, k + 1)
<1>1. NoBrace(tk, k, k + 1)
  <2> SUFFICES ASSUME NEW m \in k..((k + 1) - 1) PROVE tk[m] \notin Braces
    BY DEF NoBrace
  <2>1. m = k
    OBVIOUS
  <2> QED
    BY <2>1
<1>2. k + 1 \in Nat /\ k <= k + 1
  OBVIOUS
<1> QED
  BY <1>1, <1>2, StretchInnermost

(* A jump over a whole block.                                                *)
LEMMA JumpInnermost ==
  ASSUME NEW tk \in Seq(STRING), NEW inf, Forest(tk, inf), Ended(inf),
         NEW b \in 2..Len(inf), NEW i, Innermost(inf, i, inf[b].begin)
  PROVE  Innermost(inf, i, inf[b].end + 1)
<1> DEFINE bb == inf[b].begin
           be == inf[b].end
<1>1. /\ bb \in Nat /\ be \in Nat /\ bb < be /\ be # None /\ Len(inf) \in Nat
      /\ i \in 1..Len(inf) /\ Spans(inf, i, bb)
      /\ \A j \in 1..Len(inf) : Spans(inf, j, bb) => j <= i
  <2>1. bb \in 1..Len(tk) /\ be \in 1..Len(tk) /\ bb < be /\ be # None /\ Len(inf) \in Nat
    BY InForest DEF Ended
  <2> QED
    BY <2>1 DEF Innermost
<1>2. ASSUME NEW j \in 2..Len(inf)
      PROVE  /\ inf[j].begin \in Nat /\ inf[j].end \in Nat /\ inf[j].end # None
             /\ \A k : Spans(inf, j, k) <=> inf[j].begin < k /\ k <= inf[j].end
  <2>1. inf[j].begin \in 1..Len(tk) /\ inf[j].end \in Nat /\ inf[j].end # None
    BY InForest DEF Ended
  <2>2. j # 1
    OBVIOUS
  <2> QED
    BY <2>1, <2>2 DEF Spans
<1>3. ASSUME NEW j \in 2..Len(inf), inf[j].begin < bb, bb <= inf[j].end
      PROVE  be < inf[j].end
  <2>1. j < b
    BY <1>3, InOrderOfBegin
  <2>2. Apart(inf, j, b)
    BY <2>1 DEF Forest, AllApart
  <2>3. inf[j].end \in Nat /\ inf[j].end # None
    BY <1>2
  <2> QED
    BY <1>1, <1>3, <2>2, <2>3 DEF Apart
<1>4. Spans(inf, i, be + 1)
  <2>1. CASE i = 1
    BY <2>1 DEF Spans
  <2>2. CASE i # 1
    <3>1. i \in 2..Len(inf) /\ inf[i].begin < bb /\ bb <= inf[i].end
      BY <1>1, <1>2, <2>2
    <3>2. be < inf[i].end /\ inf[i].begin \in Nat /\ inf[i].end \in Nat
      BY <1>2, <1>3, <3>1
    <3>3. inf[i].begin < be + 1 /\ be + 1 <= inf[i].end
      BY <1>1, <3>1, <3>2
    <3> QED
      BY <1>2, <3>1, <3>3
  <2> QED
    BY <2>1, <2>2
<1>5. ASSUME NEW j \in 1..Len(inf), Spans(inf, j, be + 1)
      PROVE  j <= i
  <2>1. CASE j = 1
    BY <1>1, <2>1
  <2>2. CASE j # 1
    <3>1. j \in 2..Len(inf)
      BY <1>1, <2>2
    <3>2. /\ inf[j].begin < be + 1 /\ be + 1 <= inf[j].end
          /\ inf[j].begin \in Nat /\ inf[j].end \in Nat
      BY <1>2, <1>5, <3>1
    <3>3. inf[j].begin # bb
      BY <1>1, <3>1, <3>2, InOrderOfBegin
    <3>4. ~ (bb < inf[j].begin)
      <4>1. SUFFICES ASSUME bb < inf[j].begin PROVE FALSE
        OBVIOUS
      <4>2. b < j
        BY <3>1, <4>1, InOrderOfBegin
      <4>3. Apart(inf, b, j)
        BY <3>1, <4>2 DEF Forest, AllApart
      <4> QED
        BY <1>1, <3>2, <4>3 DEF Apart
    <3>5. inf[j].begin < bb /\ bb <= inf[j].end
      <4> DEFINE x == inf[j].begin
                 y == inf[j].end
      <4>1. /\ x \in Nat /\ y \in Nat /\ bb \in Nat /\ be \in Nat /\ bb < be
            /\ be + 1 <= y /\ x # bb /\ ~ (bb < x)
        BY <1>1, <3>2, <3>3, <3>4
      <4> HIDE DEF x, y
      <4>2. x < bb /\ bb <= y
        BY <4>1
      <4> QED
        BY <4>2 DEF x, y
    <3>6. Spans(inf, j, bb)
      BY <1>2, <3>1, <3>5
    <3> QED
      BY <1>1, <3>6
  <2> QED
    BY <2>1, <2>2
<1> QED
  BY <1>1, <1>4, <1>5 DEF Innermost

(* The first position of a block.                                            *)
LEMMA EnterInnermost ==
  ASSUME NEW tk \in Seq(STRING), NEW inf, Forest(tk, inf), Ended(inf), NEW b \in 2..Len(inf)
  PROVE  Innermost(inf, b, inf[b].begin + 1)
<1>1. /\ inf[b].begin \in Nat /\ inf[b].end \in Nat /\ inf[b].begin < inf[b].end
      /\ Len(inf) \in Nat
  <2>1. /\ inf[b].begin \in 1..Len(tk) /\ inf[b].end \in Nat /\ inf[b].begin < inf[b].end
        /\ Len(inf) \in Nat
    BY InForest DEF Ended
  <2> QED
    BY <2>1
<1>2. inf[b].begin < inf[b].begin + 1 /\ inf[b].begin + 1 <= inf[b].end
  BY <1>1
<1>3. Spans(inf, b, inf[b].begin + 1)
  BY <1>2 DEF Spans
<1>4. ASSUME NEW j \in 1..Len(inf), Spans(inf, j, inf[b].begin + 1)
      PROVE  j <= b
  <2>1. CASE j = 1
    BY <2>1, <1>1
  <2>2. CASE j # 1
    <3>1. j \in 2..Len(inf) /\ inf[j].begin < inf[b].begin + 1
      BY <1>1, <1>4, <2>2 DEF Spans
    <3>2. ~ (b < j)
      <4>1. SUFFICES ASSUME b < j PROVE FALSE
        OBVIOUS
      <4>2. inf[b].begin < inf[j].begin
        BY <3>1, <4>1, InOrderOfBegin
      <4>3. inf[j].begin \in 1..Len(tk)
        BY <3>1, InForest
      <4> QED
        BY <1>1, <3>1, <4>2, <4>3
    <3> QED
      BY <3>1, <3>2
  <2> QED
    BY <2>1, <2>2
<1> QED
  BY <1>1, <1>3, <1>4 DEF Innermost

(* A closing brace ends the block it lies in.                                *)
LEMMA CloseInnermost ==
  ASSUME NEW tk \in Seq(STRING), NEW inf, Forest(tk, inf), Ended(inf),
         NEW c \in 2..Len(inf), NEW i, Innermost(inf, i, inf[c].end)
  PROVE  i = c
<1>1. /\ inf[c].begin \in Nat /\ inf[c].end \in Nat /\ inf[c].begin < inf[c].end
      /\ inf[c].end # None /\ Len(inf) \in Nat
  <2>1. /\ inf[c].begin \in 1..Len(tk) /\ inf[c].end \in Nat /\ inf[c].begin < inf[c].end
        /\ inf[c].end # None /\ Len(inf) \in Nat
    BY InForest DEF Ended
  <2> QED
    BY <2>1
<1>2. Spans(inf, c, inf[c].end)
  BY <1>1 DEF Spans
<1>3. i \in 1..Len(inf) /\ Spans(inf, i, inf[c].end) /\ c <= i
  BY <1>1, <1>2 DEF Innermost
<1>4. ~ (c < i)
  <2>1. SUFFICES ASSUME c < i PROVE FALSE
    OBVIOUS
  <2>2. i \in 2..Len(inf) /\ i # 1
    BY <1>1, <1>3, <2>1
  <2>3. inf[i].begin \in 1..Len(tk) /\ inf[i].end \in Nat /\ inf[i].end # None
    BY <2>2, InForest DEF Ended
  <2>4. inf[i].begin < inf[c].end /\ inf[c].end <= inf[i].end
    BY <1>3, <2>2, <2>3 DEF Spans
  <2>5. Apart(inf, c, i)
    BY <2>1, <2>2 DEF Forest, AllApart
  <2> QED
    BY <1>1, <2>3, <2>4, <2>5 DEF Apart
<1> QED
  BY <1>1, <1>3, <1>4

(* Only the root reaches beyond the last token.                              *)
LEMMA EndInnermost ==
  ASSUME NEW tk \in Seq(STRING), NEW inf, Forest(tk, inf), Ended(inf),
         NEW i, Innermost(inf, i, Len(tk) + 1)
  PROVE  i = 1
<1>1. i \in 1..Len(inf) /\ Spans(inf, i, Len(tk) + 1) /\ Len(inf) \in Nat
  BY DEF Innermost, Forest
<1> SUFFICES ASSUME i # 1 PROVE FALSE
  OBVIOUS
<1>2. i \in 2..Len(inf)
  BY <1>1
<1>3. inf[i].end \in 1..Len(tk) /\ inf[i].end # None /\ Len(tk) \in Nat
  BY <1>2, InForest DEF Ended
<1>4. Len(tk) + 1 <= inf[i].end
  BY <1>1, <1>3 DEF Spans
<1> QED
  BY <1>3, <1>4

-------------------------------------------------------------------------------
(* What a step of the loader changes in its tables, field by field. *)

(* A block that begins at k in block c is new. *)
Opened(inf, g, c, k) ==
  /\ g \in Seq(LoadBlockInfo) /\ Len(g) = Len(inf) + 1
  /\ \A i \in 1..Len(inf) : g[i] = inf[i]
  /\ g[Len(inf) + 1].scope = c /\ g[Len(inf) + 1].begin = k
  /\ g[Len(inf) + 1].end = None /\ ~ g[Len(inf) + 1].loaded
  /\ Len(g[Len(inf) + 1].defs) = 0 /\ g[Len(inf) + 1].vars = << >>

(* Block c ends at q, and name joins the names of its scope. *)
SameButEnd(inf, g, c, i) ==
  /\ g[i].scope = inf[i].scope /\ g[i].begin = inf[i].begin
  /\ g[i].loaded = inf[i].loaded /\ g[i].vars = inf[i].vars
  /\ i # c => g[i].end = inf[i].end

SameDefs(inf, g, i) ==
  /\ Len(g[i].defs) = Len(inf[i].defs)
  /\ \A x \in 1..Len(inf[i].defs) : g[i].defs[x] = inf[i].defs[x]

OneDefMore(inf, g, i, d) ==
  /\ Len(g[i].defs) = Len(inf[i].defs) + 1
  /\ \A x \in 1..Len(inf[i].defs) : g[i].defs[x] = inf[i].defs[x]
  /\ g[i].defs[Len(inf[i].defs) + 1] = d

Shut(inf, g, c, q, name) ==
  /\ g \in Seq(LoadBlockInfo) /\ Len(g) = Len(inf)
  /\ \A i \in 1..Len(inf) : SameButEnd(inf, g, c, i)
  /\ g[c].end = q
  /\ \A i \in 1..Len(inf) : i # inf[c].scope \/ name = NoName => SameDefs(inf, g, i)
  /\ name # NoName =>
       OneDefMore(inf, g, inf[c].scope, [name |-> name, block |-> c])

(* Nothing but what the second pass notes. *)
SameTree(inf, g) ==
  /\ g \in Seq(LoadBlockInfo) /\ Len(g) = Len(inf)
  /\ \A i \in 1..Len(inf) :
       /\ g[i].scope = inf[i].scope /\ g[i].begin = inf[i].begin
       /\ g[i].end = inf[i].end /\ g[i].defs = inf[i].defs

(* A call joins the stack, or leaves it. *)
Pushed(cs, ds, b, name) ==
  /\ ds \in Seq(LoadCall) /\ Len(ds) = Len(cs) + 1
  /\ \A n \in 1..Len(cs) : ds[n] = cs[n]
  /\ ds[Len(cs) + 1].block = b /\ ds[Len(cs) + 1].def = name

Popped(cs, ds) ==
  /\ ds \in Seq(LoadCall) /\ Len(ds) = Len(cs) - 1
  /\ \A n \in 1..Len(ds) : ds[n] = cs[n]

(* The fields of a block info and the length of its tables.                  *)
LEMMA InfoFields ==
  ASSUME NEW inf \in Seq(LoadBlockInfo), NEW i \in 1..Len(inf)
  PROVE  /\ inf[i] \in LoadBlockInfo
         /\ inf[i].scope \in Nat /\ inf[i].begin \in Nat /\ inf[i].end \in Nat
         /\ inf[i].defs \in Seq([name : STRING, block : Nat]) /\ Len(inf[i].defs) \in Nat
         /\ inf[i].vars \in Seq([name : STRING, var : Nat])
<1>1. inf[i] \in LoadBlockInfo
  BY ElementOfSeq
<1>2. /\ inf[i].scope \in Nat /\ inf[i].begin \in Nat /\ inf[i].end \in Nat
      /\ inf[i].defs \in Seq([name : STRING, block : Nat])
      /\ inf[i].vars \in Seq([name : STRING, var : Nat])
  BY <1>1 DEF LoadBlockInfo
<1>3. Len(inf[i].defs) \in Nat
  BY <1>2, LenProperties
<1> QED
  BY <1>1, <1>2, <1>3

(* SR_manaLoadBlockNew appends an info.                                       *)
LEMMA OpenedIs ==
  ASSUME NEW inf \in Seq(LoadBlockInfo), NEW c \in Nat, NEW k \in Nat
  PROVE  Opened(inf, Append(inf, NewInfo(c, k)), c, k)
<1> DEFINE x == NewInfo(c, k)
           g == Append(inf, x)
<1>1. x \in LoadBlockInfo
  <2>1. << >> \in Seq([name : STRING, block : Nat]) /\ << >> \in Seq([name : STRING, var : Nat])
    BY EmptySeq
  <2>2. None \in Nat
    BY DEF None
  <2> QED
    BY <2>1, <2>2 DEF NewInfo, LoadBlockInfo
<1>2. /\ x.scope = c /\ x.begin = k /\ x.end = None /\ ~ x.loaded
      /\ x.defs = << >> /\ x.vars = << >>
  BY DEF NewInfo
<1> HIDE DEF x
<1>3. /\ g \in Seq(LoadBlockInfo) /\ Len(g) = Len(inf) + 1
      /\ \A i \in 1..Len(inf) : g[i] = inf[i]
      /\ g[Len(inf) + 1] = x
  BY <1>1, AppendProperties
<1>4. Len(x.defs) = 0
  BY <1>2, EmptySeq
<1> HIDE DEF g
<1>5. Opened(inf, g, c, k)
  BY <1>2, <1>3, <1>4 DEF Opened
<1> QED
  BY <1>5 DEF g, x

(* A call is pushed ...                                                       *)
LEMMA PushedIs ==
  ASSUME NEW cs \in Seq(LoadCall), NEW b \in Nat, NEW name \in STRING, NEW r \in Nat
  PROVE  /\ Pushed(cs, Append(cs, [block |-> b, def |-> name, retP |-> r]), b, name)
         /\ Append(cs, [block |-> b, def |-> name, retP |-> r])[Len(cs) + 1].retP = r
<1> DEFINE x == [block |-> b, def |-> name, retP |-> r]
           g == Append(cs, x)
<1>1. x \in LoadCall /\ x.block = b /\ x.def = name /\ x.retP = r
  BY DEF LoadCall
<1> HIDE DEF x
<1>2. /\ g \in Seq(LoadCall) /\ Len(g) = Len(cs) + 1
      /\ \A i \in 1..Len(cs) : g[i] = cs[i]
      /\ g[Len(cs) + 1] = x
  BY <1>1, AppendProperties
<1> HIDE DEF g
<1>3. Pushed(cs, g, b, name) /\ g[Len(cs) + 1].retP = r
  BY <1>1, <1>2 DEF Pushed
<1> QED
  BY <1>3 DEF g, x

(* ... and popped.                                                            *)
LEMMA PoppedIs ==
  ASSUME NEW cs \in Seq(LoadCall), Len(cs) > 1
  PROVE  Popped(cs, Front(cs))
<1>1. Len(cs) \in Nat /\ cs # << >> /\ Front(cs) = SubSeq(cs, 1, Len(cs) - 1)
  BY EmptySeq DEF Front
<1>2. 1 \in 1..(Len(cs) + 1) /\ Len(cs) - 1 \in 0..Len(cs) /\ 1 <= Len(cs) - 1
  BY <1>1
<1> QED
  BY <1>1, <1>2, SubSeqProperties DEF Popped

(* SR_manaLoadBlockDefTreeCallback, as two writes of the table.              *)
ShutInfos(inf, c, q, name) ==
  IF name = NoName THEN [inf EXCEPT ![c].end = q]
  ELSE [[inf EXCEPT ![c].end = q] EXCEPT ![inf[c].scope].defs =
          Append(@, [name |-> name, block |-> c])]

(* Only the end of one block changes.                                         *)
LEMMA EndedIs ==
  ASSUME NEW inf \in Seq(LoadBlockInfo), NEW c \in 1..Len(inf), NEW q \in Nat
  PROVE  LET g == [inf EXCEPT ![c].end = q]
         IN /\ g \in Seq(LoadBlockInfo) /\ Len(g) = Len(inf)
            /\ \A i \in 1..Len(inf) : SameButEnd(inf, g, c, i) /\ g[i].defs = inf[i].defs
            /\ g[c].end = q
<1> DEFINE x == [inf[c] EXCEPT !.end = q]
           g == [inf EXCEPT ![c] = x]
<1>1. inf[c] \in LoadBlockInfo
  BY InfoFields
<1>2. /\ x \in LoadBlockInfo /\ x.scope = inf[c].scope /\ x.begin = inf[c].begin /\ x.end = q
      /\ x.loaded = inf[c].loaded /\ x.vars = inf[c].vars /\ x.defs = inf[c].defs
  BY <1>1 DEF LoadBlockInfo
<1>3. [inf EXCEPT ![c].end = q] = g
  OBVIOUS
<1> HIDE DEF x
<1>4. /\ g \in Seq(LoadBlockInfo) /\ Len(g) = Len(inf) /\ g[c] = x
      /\ \A i \in 1..Len(inf) : i # c => g[i] = inf[i]
  BY <1>2, ExceptSeq
<1> HIDE DEF g
<1>5. \A i \in 1..Len(inf) : SameButEnd(inf, g, c, i) /\ g[i].defs = inf[i].defs
  BY <1>2, <1>4 DEF SameButEnd
<1> QED
  BY <1>2, <1>3, <1>4, <1>5

(* SR_manaLoadBlockDefTreeCallback ends a block and notes its name.           *)
LEMMA ShutIs ==
  ASSUME NEW inf \in Seq(LoadBlockInfo), NEW c \in 1..Len(inf), NEW q \in Nat,
         NEW name \in STRING, inf[c].scope \in 1..Len(inf) \/ name = NoName
  PROVE  Shut(inf, ShutInfos(inf, c, q, name), c, q, name)
<1> DEFINE e == [inf EXCEPT ![c].end = q]
<1>1. /\ e \in Seq(LoadBlockInfo) /\ Len(e) = Len(inf)
      /\ \A i \in 1..Len(inf) : SameButEnd(inf, e, c, i) /\ e[i].defs = inf[i].defs
      /\ e[c].end = q
  BY EndedIs
<1> HIDE DEF e
<1>2. CASE name = NoName
  <2>1. ShutInfos(inf, c, q, name) = e
    BY <1>2 DEF ShutInfos, e
  <2>2. \A i \in 1..Len(inf) : SameDefs(inf, e, i)
    BY <1>1 DEF SameDefs
  <2>3. Shut(inf, e, c, q, name)
    BY <1>1, <1>2, <2>2 DEF Shut
  <2> QED
    BY <2>1, <2>3
<1>3. CASE name # NoName
  <2> DEFINE s == inf[c].scope
             d == [name |-> name, block |-> c]
             x == [e[s] EXCEPT !.defs = Append(@, d)]
             g == [e EXCEPT ![s] = x]
  <2>1. s \in 1..Len(inf) /\ s \in 1..Len(e)
    BY <1>1, <1>3
  <2>2. ShutInfos(inf, c, q, name) = g
    BY <1>3 DEF ShutInfos, e
  <2>3. d \in [name : STRING, block : Nat]
    OBVIOUS
  <2>4. /\ e[s] \in LoadBlockInfo /\ e[s].defs \in Seq([name : STRING, block : Nat])
    BY <1>1, <2>1, InfoFields
  <2> HIDE DEF d, s
  <2>5. Append(e[s].defs, d) \in Seq([name : STRING, block : Nat])
    BY <2>3, <2>4, AppendProperties
  <2>6. /\ x \in LoadBlockInfo /\ x.scope = e[s].scope /\ x.begin = e[s].begin
        /\ x.end = e[s].end /\ x.loaded = e[s].loaded /\ x.vars = e[s].vars
        /\ x.defs = Append(e[s].defs, d)
    BY <2>4, <2>5 DEF LoadBlockInfo
  <2> HIDE DEF x
  <2>7. /\ g \in Seq(LoadBlockInfo) /\ Len(g) = Len(e) /\ g[s] = x
        /\ \A i \in 1..Len(e) : i # s => g[i] = e[i]
    BY <1>1, <2>1, <2>6, ExceptSeq
  <2> HIDE DEF g
  <2>8. ASSUME NEW i \in 1..Len(inf)
        PROVE  SameButEnd(inf, g, c, i) /\ g[i].end = e[i].end
    <3>1. SameButEnd(inf, e, c, i) /\ i \in 1..Len(e)
      BY <1>1
    <3>2. CASE i = s
      BY <2>6, <2>7, <3>1, <3>2 DEF SameButEnd
    <3>3. CASE i # s
      BY <2>7, <3>1, <3>3 DEF SameButEnd
    <3> QED
      BY <3>2, <3>3
  <2>9. \A i \in 1..Len(inf) : i # s => SameDefs(inf, g, i)
    BY <1>1, <2>7 DEF SameDefs
  <2>10. OneDefMore(inf, g, s, d)
    <3>1. g[s].defs = Append(inf[s].defs, d) /\ inf[s].defs = e[s].defs
      BY <1>1, <2>1, <2>6, <2>7
    <3>2. /\ Len(Append(e[s].defs, d)) = Len(e[s].defs) + 1
          /\ \A y \in 1..Len(e[s].defs) : Append(e[s].defs, d)[y] = e[s].defs[y]
          /\ Append(e[s].defs, d)[Len(e[s].defs) + 1] = d
      BY <2>3, <2>4, AppendProperties
    <3> QED
      BY <3>1, <3>2 DEF OneDefMore
  <2>11. g[c].end = q /\ Len(g) = Len(inf)
    BY <1>1, <2>7, <2>8
  <2>12. Shut(inf, g, c, q, name)
    BY <1>3, <2>7, <2>8, <2>9, <2>10, <2>11 DEF Shut, s, d
  <2> QED
    BY <2>2, <2>12
<1> QED
  BY <1>2, <1>3

-------------------------------------------------------------------------------
(* The first pass opens a block. *)

(* The last call is of the innermost open block.                             *)
LEMMA StackTop ==
  ASSUME NEW tk, NEW inf \in Seq(LoadBlockInfo), NEW cs, OpenStack(tk, inf, cs)
  PROVE  /\ Len(cs) \in Nat /\ Len(cs) >= 1
         /\ cs[Len(cs)] \in LoadCall /\ cs[Len(cs)].def \in STRING
         /\ cs[Len(cs)].block \in 1..Len(inf) /\ inf[cs[Len(cs)].block].end = None
         /\ \A n \in 1..Len(cs) : cs[n].block <= cs[Len(cs)].block
         /\ \A i \in 1..Len(inf) : inf[i].end = None => i <= cs[Len(cs)].block
<1>1. Len(cs) \in Nat /\ Len(cs) >= 1 /\ cs \in Seq(LoadCall)
  BY DEF OpenStack
<1>2. Len(cs) \in 1..Len(cs)
  BY <1>1
<1>3. cs[Len(cs)] \in LoadCall
  BY <1>1, <1>2, ElementOfSeq
<1>4. cs[Len(cs)].def \in STRING
  BY <1>3 DEF LoadCall
<1>5. \A n \in 1..Len(cs) : cs[n].block \in 1..Len(inf) /\ inf[cs[n].block].end = None
  BY DEF OpenStack
<1>6. ASSUME NEW n \in 1..Len(cs) PROVE cs[n].block <= cs[Len(cs)].block
  <2>1. n = Len(cs) \/ n < Len(cs)
    BY <1>1
  <2>2. n < Len(cs) => cs[n].block < cs[Len(cs)].block
    BY <1>2 DEF OpenStack, Rising
  <2>3. cs[n].block \in Nat /\ cs[Len(cs)].block \in Nat
    BY <1>2, <1>5
  <2> QED
    BY <2>1, <2>2, <2>3
<1>7. ASSUME NEW i \in 1..Len(inf), inf[i].end = None PROVE i <= cs[Len(cs)].block
  <2>1. PICK n \in 1..Len(cs) : cs[n].block = i
    BY <1>7 DEF OpenStack
  <2> QED
    BY <1>6, <2>1
<1> QED
  BY <1>1, <1>2, <1>3, <1>4, <1>5, <1>6, <1>7

(* A new block spans nothing up to its begin, and what the others span stays. *)
LEMMA OpenKeepsSpans ==
  ASSUME NEW inf, NEW g, NEW c, NEW k \in Nat, Opened(inf, g, c, k), Len(inf) \in Nat,
         Len(inf) >= 1, NEW q \in Nat, q <= k, NEW i
  PROVE  Innermost(g, i, q) <=> Innermost(inf, i, q)
<1>1. \A j \in 1..Len(inf) : Spans(g, j, q) <=> Spans(inf, j, q)
  BY DEF Opened, Spans
<1>2. ~ Spans(g, Len(inf) + 1, q)
  BY DEF Opened, Spans
<1>3. 1..Len(g) = (1..Len(inf)) \union {Len(inf) + 1}
  BY DEF Opened
<1> QED
  BY <1>1, <1>2, <1>3 DEF Innermost

(* A new block leaves the forest a forest.                                    *)
LEMMA OpenKeepsForest ==
  ASSUME NEW tk \in Seq(STRING), NEW inf, Forest(tk, inf), NEW cs, OpenStack(tk, inf, cs),
         NEW k \in 1..Len(tk), tk[k] = Opener, ReadBefore(inf, k),
         NEW g, Opened(inf, g, cs[Len(cs)].block, k)
  PROVE  Forest(tk, g)
<1> DEFINE c == cs[Len(cs)].block
           N == Len(inf)
<1>1. /\ inf \in Seq(LoadBlockInfo) /\ N \in Nat /\ N >= 1 /\ k \in Nat /\ k # 0
      /\ g \in Seq(LoadBlockInfo) /\ Len(g) = N + 1 /\ \A i \in 1..N : g[i] = inf[i]
      /\ g[N + 1].scope = c /\ g[N + 1].begin = k /\ g[N + 1].end = None
      /\ Len(g[N + 1].defs) = 0
  BY DEF Forest, Opened
<1>2. c \in 1..N /\ inf[c].end = None /\ \A i \in 1..N : inf[i].end = None => i <= c
  BY <1>1, StackTop
<1>3. ASSUME NEW i \in 2..N
      PROVE  /\ inf[i].begin \in Nat /\ inf[i].end \in Nat
             /\ inf[i].begin < k /\ inf[i].end < k /\ g[i] = inf[i]
  <2>1. i \in 1..N
    BY <1>1
  <2> QED
    BY <1>1, <2>1, InfoFields DEF ReadBefore
<1>4. Innermost(inf, c, k)
  <2>1. Spans(inf, c, k)
    <3>1. c = 1 \/ c \in 2..N
      BY <1>1, <1>2
    <3> QED
      BY <1>2, <1>3, <3>1 DEF Spans
  <2>2. ASSUME NEW j \in 1..N, Spans(inf, j, k) PROVE j <= c
    <3>1. CASE j = 1
      BY <1>1, <1>2, <3>1
    <3>2. CASE j # 1
      <4>1. j \in 2..N
        BY <1>1, <3>2
      <4>2. inf[j].end = None
        BY <1>1, <1>3, <2>2, <3>2, <4>1 DEF Spans
      <4> QED
        BY <1>2, <4>2
    <3> QED
      BY <3>1, <3>2
  <2> QED
    BY <1>2, <2>1, <2>2 DEF Innermost
<1>5. Opened(inf, g, c, k)
  OBVIOUS
<1> HIDE DEF c, N
<1>6. ASSUME NEW i, NEW q \in Nat, q <= k
      PROVE  Innermost(g, i, q) <=> Innermost(inf, i, q)
  BY <1>1, <1>5, <1>6, OpenKeepsSpans DEF N
<1>7. ASSUME NEW i \in 2..Len(g) PROVE Formed(tk, g, i)
  <2>1. CASE i = N + 1
    <3>1. Innermost(g, g[i].scope, g[i].begin)
      BY <1>1, <1>4, <1>6, <2>1
    <3> QED
      BY <1>1, <2>1, <3>1 DEF Formed
  <2>2. CASE i # N + 1
    <3>1. i \in 2..N
      BY <1>1, <2>2
    <3>2. Formed(tk, inf, i)
      BY <3>1 DEF Forest, N
    <3>3. Innermost(g, inf[i].scope, inf[i].begin)
      BY <1>1, <1>3, <1>6, <3>1, <3>2 DEF Formed
    <3> QED
      BY <1>3, <3>1, <3>2, <3>3 DEF Formed
  <2> QED
    BY <2>1, <2>2
<1>8. ASSUME NEW i \in 2..Len(g), NEW j \in 2..Len(g), i < j PROVE Apart(g, i, j)
  <2>1. i \in 2..N
    BY <1>1, <1>8
  <2>2. CASE j = N + 1
    BY <1>1, <1>3, <2>1, <2>2 DEF Apart
  <2>3. CASE j # N + 1
    <3>1. j \in 2..N
      BY <1>1, <2>3
    <3>2. Apart(inf, i, j)
      BY <1>8, <2>1, <3>1 DEF Forest, AllApart, N
    <3> QED
      BY <1>3, <2>1, <3>1, <3>2 DEF Apart
  <2> QED
    BY <2>2, <2>3
<1>9. ASSUME NEW i \in 1..Len(g) PROVE DefsFit(tk, g, i)
  <2>1. CASE i = N + 1
    BY <1>1, <2>1 DEF DefsFit
  <2>2. CASE i # N + 1
    <3>1. i \in 1..N /\ g[i] = inf[i]
      BY <1>1, <2>2
    <3>2. DefsFit(tk, inf, i)
      BY <3>1 DEF Forest, N
    <3>3. ASSUME NEW x \in 1..Len(inf[i].defs) PROVE DefFits(tk, g, i, inf[i].defs[x])
      <4>1. DefFits(tk, inf, i, inf[i].defs[x])
        BY <3>2 DEF DefsFit
      <4>2. inf[i].defs[x].block \in 2..N
        BY <4>1 DEF DefFits, N
      <4>3. /\ inf[i].defs[x].block \in 2..Len(g)
            /\ g[inf[i].defs[x].block] = inf[inf[i].defs[x].block]
        <5> DEFINE b == inf[i].defs[x].block
        <5>1. b \in 2..N
          BY <4>2
        <5> HIDE DEF b
        <5>2. b \in 2..Len(g) /\ g[b] = inf[b]
          BY <1>1, <1>3, <5>1
        <5> QED
          BY <5>2 DEF b
      <4> QED
        BY <4>1, <4>3 DEF DefFits
    <3> QED
      BY <3>1, <3>3 DEF DefsFit
  <2> QED
    BY <2>1, <2>2
<1>10. g[1] = inf[1] /\ inf[1].scope = None /\ inf[1].begin = 1
  BY <1>1 DEF Forest
<1>11. Len(g) >= 1
  BY <1>1
<1>12. AllApart(g)
  BY <1>8 DEF AllApart
<1> QED
  BY <1>1, <1>7, <1>9, <1>10, <1>11, <1>12 DEF Forest

(* The new block is the last of those that have not ended.                    *)
LEMMA OpenKeepsStack ==
  ASSUME NEW tk \in Seq(STRING), NEW inf, Forest(tk, inf), NEW cs, OpenStack(tk, inf, cs),
         NEW k \in 1..Len(tk), NEW g, Opened(inf, g, cs[Len(cs)].block, k),
         NEW name, name # NoName => HasName(tk, k) /\ name = NameOf(tk, k),
         NEW ds, Pushed(cs, ds, Len(inf) + 1, name)
  PROVE  OpenStack(tk, g, ds)
<1> DEFINE N == Len(inf)
           L == Len(cs)
<1>1. /\ inf \in Seq(LoadBlockInfo) /\ N \in Nat /\ N >= 1
      /\ Len(g) = N + 1 /\ \A i \in 1..N : g[i] = inf[i]
      /\ g[N + 1].begin = k /\ g[N + 1].end = None
  BY DEF Forest, Opened
<1>2. /\ L \in Nat /\ L >= 1 /\ ds \in Seq(LoadCall) /\ Len(ds) = L + 1
      /\ \A n \in 1..L : ds[n] = cs[n]
      /\ ds[L + 1].block = N + 1 /\ ds[L + 1].def = name
  BY DEF OpenStack, Pushed
<1>3. /\ \A n \in 1..L : cs[n].block \in 1..N /\ inf[cs[n].block].end = None
      /\ \A i \in 1..N : inf[i].end = None => \E n \in 1..L : cs[n].block = i
      /\ \A n \in 2..L : cs[n].def # NoName =>
           HasName(tk, inf[cs[n].block].begin) /\ cs[n].def = NameOf(tk, inf[cs[n].block].begin)
      /\ \A m, n \in 1..L : m < n => cs[m].block < cs[n].block
      /\ cs[1].block = 1 /\ cs[1].def = NoName
  BY DEF OpenStack, Rising
<1> HIDE DEF N, L
<1>4. ds[1].block = 1 /\ ds[1].def = NoName
  BY <1>2, <1>3
<1>5. Rising(ds)
  <2> SUFFICES ASSUME NEW m \in 1..(L + 1), NEW n \in 1..(L + 1), m < n
               PROVE  ds[m].block < ds[n].block
    BY <1>2 DEF Rising
  <2>1. m \in 1..L
    BY <1>2
  <2>2. CASE n = L + 1
    <3>1. ds[n].block = N + 1 /\ ds[m].block = cs[m].block
      BY <1>2, <2>1, <2>2
    <3>2. PICK x : x = cs[m].block
      OBVIOUS
    <3>3. x \in 1..N /\ N \in Nat
      BY <1>1, <1>3, <2>1, <3>2, Zenon
    <3>4. x < N + 1
      BY <3>3
    <3> QED
      BY <3>1, <3>2, <3>4, Zenon
  <2>3. CASE n # L + 1
    <3>1. n \in 1..L
      BY <1>2, <2>3
    <3>2. cs[m].block < cs[n].block
      BY <1>3, <2>1, <3>1
    <3>3. ds[m] = cs[m] /\ ds[n] = cs[n]
      BY <1>2, <2>1, <3>1
    <3> QED
      BY <3>2, <3>3
  <2> QED
    BY <2>2, <2>3
<1>6. ASSUME NEW n \in 1..(L + 1) PROVE ds[n].block \in 1..Len(g) /\ g[ds[n].block].end = None
  <2>1. CASE n = L + 1
    BY <1>1, <1>2, <2>1
  <2>2. CASE n # L + 1
    <3>1. n \in 1..L
      BY <1>2, <2>2
    <3>2. ds[n] = cs[n] /\ cs[n].block \in 1..N /\ inf[cs[n].block].end = None
      BY <1>2, <1>3, <3>1
    <3> QED
      BY <1>1, <3>2
  <2> QED
    BY <2>1, <2>2
<1>7. ASSUME NEW i \in 1..(N + 1), g[i].end = None PROVE \E n \in 1..(L + 1) : ds[n].block = i
  <2>1. CASE i = N + 1
    BY <1>2, <2>1
  <2>2. CASE i # N + 1
    <3>1. i \in 1..N /\ inf[i].end = None
      BY <1>1, <1>7, <2>2
    <3>2. PICK n \in 1..L : cs[n].block = i
      BY <1>3, <3>1
    <3>3. n \in 1..(L + 1) /\ ds[n].block = i
      BY <1>2, <3>2
    <3> QED
      BY <3>3
  <2> QED
    BY <2>1, <2>2
<1>8. ASSUME NEW n \in 2..(L + 1), ds[n].def # NoName
      PROVE  HasName(tk, g[ds[n].block].begin) /\ ds[n].def = NameOf(tk, g[ds[n].block].begin)
  <2>1. CASE n = L + 1
    BY <1>1, <1>2, <1>8, <2>1
  <2>2. CASE n # L + 1
    <3>1. n \in 2..L /\ n \in 1..L
      BY <1>2, <2>2
    <3>2. ds[n] = cs[n] /\ g[cs[n].block] = inf[cs[n].block]
      BY <1>1, <1>2, <1>3, <3>1
    <3> QED
      BY <1>3, <1>8, <3>1, <3>2
  <2> QED
    BY <2>1, <2>2
<1>9. Len(ds) >= 1
  BY <1>2
<1> QED
  BY <1>1, <1>2, <1>4, <1>5, <1>6, <1>7, <1>8, <1>9 DEF OpenStack

(* What was noted of an earlier position is still noted.                     *)
LEMMA OpenKeepsNoted ==
  ASSUME NEW tk \in Seq(STRING), NEW inf, Forest(tk, inf), NEW cs, OpenStack(tk, inf, cs),
         NEW c, NEW k, NEW g, Opened(inf, g, c, k),
         NEW b, NEW name, NEW ds, Pushed(cs, ds, b, name),
         NEW m \in 1..Len(tk), Noted(tk, inf, cs, m)
  PROVE  Noted(tk, g, ds, m)
<1> DEFINE N == Len(inf)
           L == Len(cs)
<1>1. /\ inf \in Seq(LoadBlockInfo) /\ N \in Nat /\ N >= 1
      /\ Len(g) = N + 1 /\ \A i \in 1..N : g[i] = inf[i]
  BY DEF Forest, Opened
<1>2. L \in Nat /\ Len(ds) = L + 1 /\ \A n \in 1..L : ds[n] = cs[n]
  BY DEF OpenStack, Pushed
<1>3. \A i \in 2..N : i \in 2..Len(g) /\ g[i] = inf[i]
  BY <1>1
<1>4. ASSUME NEW i \in 2..N, NEW nm, NameKept(inf, cs, i, nm) PROVE NameKept(g, ds, i, nm)
  <2>1. CASE inf[i].end = None
    <3>1. PICK n \in 2..L : cs[n].block = i /\ cs[n].def = nm
      BY <1>4, <2>1 DEF NameKept
    <3>2. n \in 2..Len(ds) /\ ds[n] = cs[n]
      BY <1>2
    <3> QED
      BY <1>3, <2>1, <3>1, <3>2 DEF NameKept
  <2>2. CASE inf[i].end # None
    <3>1. inf[i].scope \in 1..N
      <4>1. inf[i].scope \in 1..(i - 1)
        BY ScopeBelow
      <4> QED
        BY <1>1, <4>1
    <3> QED
      BY <1>1, <1>3, <1>4, <2>2, <3>1 DEF NameKept
  <2> QED
    BY <2>1, <2>2
<1> HIDE DEF N, L
<1>5. tk[m] = Opener => \E i \in 2..Len(g) : g[i].begin = m
  BY <1>3 DEF Noted, N
<1>6. tk[m] = Closer => \E i \in 2..Len(g) : g[i].end = m
  BY <1>3 DEF Noted, N
<1>7. tk[m] \in DOMAIN DefOf =>
        \E i \in 2..Len(g) : g[i].begin = m + 1 /\ NameKept(g, ds, i, DefOf[tk[m]])
  <2> SUFFICES ASSUME tk[m] \in DOMAIN DefOf
               PROVE \E i \in 2..Len(g) : g[i].begin = m + 1 /\ NameKept(g, ds, i, DefOf[tk[m]])
    OBVIOUS
  <2>1. PICK i \in 2..N : inf[i].begin = m + 1 /\ NameKept(inf, cs, i, DefOf[tk[m]])
    BY DEF Noted, N
  <2>2. i \in 2..Len(g) /\ g[i].begin = m + 1 /\ NameKept(g, ds, i, DefOf[tk[m]])
    BY <1>3, <1>4, <2>1
  <2> QED
    BY <2>2
<1> QED
  BY <1>5, <1>6, <1>7 DEF Noted

(* One position more, for a block that is open at it.                        *)
LEMMA OpenNext ==
  ASSUME NEW tk, NEW b \in Nat, NEW q \in Nat, 1 <= b, b < q, NEW d \in Int, Open(tk, b, q, d)
  PROVE  /\ tk[q] \notin Braces /\ d > 0 => Open(tk, b, q + 1, d)
         /\ tk[q] = Opener /\ d >= 0 => Open(tk, b, q + 1, d + 1)
         /\ tk[q] = Closer /\ d > 1 => Open(tk, b, q + 1, d - 1)
         /\ tk[q] = Closer => Rise(tk, b, q) = d - 1
<1> DEFINE k == q - 1
<1>1. k \in Nat /\ k + 1 = q /\ b <= k + 1 /\ (q + 1) - 1 = q /\ q \in b..q
  OBVIOUS
<1>2. Rise(tk, b, k) = d /\ OpenFrom(tk, b, q)
  BY DEF Open
<1>3. /\ tk[q] = Opener => Rise(tk, b, q) = d + 1
      /\ tk[q] = Closer => Rise(tk, b, q) = d - 1
      /\ tk[q] \notin Braces => Rise(tk, b, q) = d
  <2>1. /\ tk[k + 1] = Opener => Rise(tk, b, k + 1) = Rise(tk, b, k) + 1
        /\ tk[k + 1] = Closer => Rise(tk, b, k + 1) = Rise(tk, b, k) - 1
        /\ tk[k + 1] \notin Braces => Rise(tk, b, k + 1) = Rise(tk, b, k)
    BY <1>1, RiseNext
  <2> QED
    BY <1>1, <1>2, <2>1
<1> HIDE DEF k
<1>4. Rise(tk, b, q) > 0 => OpenFrom(tk, b, q + 1)
  <2> SUFFICES ASSUME Rise(tk, b, q) > 0, NEW m \in b..((q + 1) - 1)
               PROVE  Rise(tk, b, m) > 0
    BY DEF OpenFrom
  <2>1. m = q \/ m \in b..(q - 1)
    OBVIOUS
  <2>2. m \in b..(q - 1) => Rise(tk, b, m) > 0
    BY <1>2 DEF OpenFrom
  <2> QED
    BY <2>1, <2>2
<1> DEFINE r == Rise(tk, b, q)
<1>5. /\ r > 0 => Open(tk, b, q + 1, r)
  BY <1>1, <1>4 DEF Open
<1>6. /\ tk[q] = Opener => r = d + 1
      /\ tk[q] = Closer => r = d - 1
      /\ tk[q] \notin Braces => r = d
  BY <1>3
<1> HIDE DEF r
<1>7. tk[q] \notin Braces /\ d > 0 => Open(tk, b, q + 1, d)
  BY <1>5, <1>6
<1>8. tk[q] = Opener /\ d >= 0 => Open(tk, b, q + 1, d + 1)
  <2> SUFFICES ASSUME tk[q] = Opener, d >= 0 PROVE Open(tk, b, q + 1, d + 1)
    OBVIOUS
  <2>1. r = d + 1
    BY <1>6
  <2>2. r > 0
    BY <2>1
  <2> QED
    BY <1>5, <2>1, <2>2
<1>9. tk[q] = Closer /\ d > 1 => Open(tk, b, q + 1, d - 1)
  <2> SUFFICES ASSUME tk[q] = Closer, d > 1 PROVE Open(tk, b, q + 1, d - 1)
    OBVIOUS
  <2>1. r = d - 1
    BY <1>6
  <2>2. r > 0
    BY <2>1
  <2> QED
    BY <1>5, <2>1, <2>2
<1> QED
  BY <1>3, <1>7, <1>8, <1>9

(* The block that begins at k is open there.                                 *)
LEMMA OpenAtBegin ==
  ASSUME NEW tk, NEW k \in Nat, 1 <= k, tk[k] = Opener
  PROVE  Open(tk, k, k + 1, 1)
<1> DEFINE j == k - 1
<1>1. j \in Nat /\ j + 1 = k /\ k <= j + 1
  OBVIOUS
<1>2. Rise(tk, k, j) = 0 /\ Rise(tk, k, j + 1) = Rise(tk, k, j) + 1
  BY <1>1, RiseNext
<1>3. Rise(tk, k, k) = 1
  BY <1>1, <1>2
<1> HIDE DEF j
<1>4. OpenFrom(tk, k, k + 1)
  <2> SUFFICES ASSUME NEW m \in k..((k + 1) - 1) PROVE Rise(tk, k, m) > 0
    BY DEF OpenFrom
  <2>1. m = k
    OBVIOUS
  <2> QED
    BY <1>3, <2>1
<1>5. (k + 1) - 1 = k
  OBVIOUS
<1> QED
  BY <1>3, <1>4, <1>5 DEF Open

(* Where the blocks on the stack begin.                                      *)
LEMMA StackBegins ==
  ASSUME NEW tk \in Seq(STRING), NEW inf, Forest(tk, inf), NEW cs, OpenStack(tk, inf, cs),
         NEW q \in Nat, ReadBefore(inf, q), NEW n \in 2..Len(cs)
  PROVE  /\ cs[n].block \in 2..Len(inf)
         /\ inf[cs[n].block].begin \in Nat /\ 1 <= inf[cs[n].block].begin
         /\ inf[cs[n].block].begin < q
         /\ Len(cs) \in Nat
<1>1. Len(inf) \in Nat /\ Len(cs) \in Nat
  BY DEF Forest, OpenStack
<1>2. 1 \in 1..Len(cs) /\ n \in 1..Len(cs) /\ 1 < n
  BY <1>1
<1>3. cs[n].block \in 1..Len(inf) /\ cs[1].block = 1 /\ cs[1].block < cs[n].block
  BY <1>2 DEF OpenStack, Rising
<1>4. cs[n].block \in 2..Len(inf)
  BY <1>1, <1>3
<1>5. inf[cs[n].block].begin \in 1..Len(tk) /\ Len(tk) \in Nat
  BY <1>4, InForest
<1> QED
  BY <1>1, <1>4, <1>5 DEF ReadBefore

(* A token that is no brace changes no balance.                               *)
LEMMA BalancedSkip ==
  ASSUME NEW tk \in Seq(STRING), NEW inf, Forest(tk, inf), NEW cs, OpenStack(tk, inf, cs),
         NEW q \in Nat, ReadBefore(inf, q), Balanced(tk, inf, cs, q), tk[q] \notin Braces
  PROVE  Balanced(tk, inf, cs, q + 1)
<1>1. ASSUME NEW n \in 2..Len(cs)
      PROVE  Open(tk, inf[cs[n].block].begin, q + 1, Len(cs) - n + 1)
  <2>1. Open(tk, inf[cs[n].block].begin, q, Len(cs) - n + 1)
    BY DEF Balanced
  <2>2. /\ inf[cs[n].block].begin \in Nat /\ 1 <= inf[cs[n].block].begin
        /\ inf[cs[n].block].begin < q /\ Len(cs) \in Nat
    BY StackBegins
  <2>3. Len(cs) - n + 1 \in Int /\ Len(cs) - n + 1 > 0
    BY <2>2
  <2> QED
    BY <2>1, <2>2, <2>3, OpenNext
<1> QED
  BY <1>1 DEF Balanced

(* A brace that opens raises every balance by one, and starts one.            *)
LEMMA BalancedOpen ==
  ASSUME NEW tk \in Seq(STRING), NEW inf, Forest(tk, inf), NEW cs, OpenStack(tk, inf, cs),
         NEW k \in 1..Len(tk), ReadBefore(inf, k), Balanced(tk, inf, cs, k), tk[k] = Opener,
         NEW c, NEW g, Opened(inf, g, c, k),
         NEW name, NEW ds, Pushed(cs, ds, Len(inf) + 1, name)
  PROVE  Balanced(tk, g, ds, k + 1)
<1> DEFINE N == Len(inf)
           L == Len(cs)
<1>1. /\ inf \in Seq(LoadBlockInfo) /\ N \in Nat /\ N >= 1 /\ k \in Nat /\ 1 <= k
      /\ Len(g) = N + 1 /\ \A i \in 1..N : g[i] = inf[i]
      /\ g[N + 1].begin = k /\ g[N + 1].end = None
  BY DEF Forest, Opened
<1>2. L \in Nat /\ L >= 1 /\ Len(ds) = L + 1 /\ \A n \in 1..L : ds[n] = cs[n]
  BY DEF OpenStack, Pushed
<1>3. ds[L + 1].block = N + 1
  BY DEF Pushed
<1>4. ASSUME NEW n \in 2..(L + 1)
      PROVE  Open(tk, g[ds[n].block].begin, k + 1, (L + 1) - n + 1)
  <2>1. CASE n = L + 1
    <3>1. g[ds[n].block].begin = k /\ (L + 1) - n + 1 = 1
      BY <1>1, <1>2, <1>3, <2>1
    <3> QED
      BY <1>1, <3>1, OpenAtBegin
  <2>2. CASE n # L + 1
    <3>1. n \in 2..L /\ n \in 1..L
      BY <1>2, <2>2
    <3>2. /\ cs[n].block \in 2..N
          /\ inf[cs[n].block].begin \in Nat /\ 1 <= inf[cs[n].block].begin
          /\ inf[cs[n].block].begin < k
      BY <1>1, <3>1, StackBegins
    <3>3. Open(tk, inf[cs[n].block].begin, k, L - n + 1)
      BY <3>1 DEF Balanced
    <3>4. L - n + 1 \in Int /\ L - n + 1 >= 0 /\ (L - n + 1) + 1 = (L + 1) - n + 1
      BY <1>2, <3>1
    <3>5. Open(tk, inf[cs[n].block].begin, k + 1, (L - n + 1) + 1)
      BY <1>1, <3>2, <3>3, <3>4, OpenNext
    <3>6. g[ds[n].block].begin = inf[cs[n].block].begin
      BY <1>1, <1>2, <3>1, <3>2
    <3> QED
      BY <3>4, <3>5, <3>6
  <2> QED
    BY <2>1, <2>2
<1>5. ASSUME NEW i \in 2..(N + 1), g[i].end # None
      PROVE  OpenFrom(tk, g[i].begin, g[i].end) /\ Rise(tk, g[i].begin, g[i].end) = 0
  <2>1. i # N + 1
    BY <1>1, <1>5
  <2>2. i \in 2..N /\ g[i] = inf[i]
    BY <1>1, <2>1
  <2> QED
    BY <1>5, <2>2 DEF Balanced
<1> HIDE DEF N, L
<1> QED
  BY <1>1, <1>2, <1>4, <1>5 DEF Balanced

(* A word that is no brace changes nothing.                                   *)
LEMMA TreeSkips ==
  ASSUME NEW tk \in Seq(STRING), NEW inf, NEW cs, NEW q \in Nat, TreeAt(tk, inf, cs, q),
         tk[q] \notin Braces
  PROVE  TreeAt(tk, inf, cs, q + 1)
<1>1. ReadBefore(inf, q + 1)
  <2> SUFFICES ASSUME NEW i \in 2..Len(inf)
               PROVE  inf[i].begin < q + 1 /\ inf[i].end < q + 1
    BY DEF ReadBefore
  <2>1. inf[i].begin < q /\ inf[i].end < q
    BY DEF TreeAt, ReadBefore
  <2>2. inf[i].begin \in 1..Len(tk) /\ inf[i].end \in Nat
    BY InForest DEF TreeAt
  <2> QED
    BY <2>1, <2>2
<1>2. Balanced(tk, inf, cs, q + 1)
  BY BalancedSkip DEF TreeAt
<1> QED
  BY <1>1, <1>2 DEF TreeAt

(* A block begins at k, whose name, if it has one, is the token before.      *)
LEMMA TreeOpens ==
  ASSUME NEW tk \in Seq(STRING), NEW inf, NEW cs, NEW k \in 1..Len(tk),
         TreeAt(tk, inf, cs, k), tk[k] = Opener,
         NEW name, name # NoName => HasName(tk, k) /\ name = NameOf(tk, k),
         NEW g, Opened(inf, g, cs[Len(cs)].block, k),
         NEW ds, Pushed(cs, ds, Len(inf) + 1, name)
  PROVE  /\ TreeAt(tk, g, ds, k + 1)
         /\ \E i \in 2..Len(g) : g[i].begin = k /\ NameKept(g, ds, i, name)
<1>1. Forest(tk, inf) /\ OpenStack(tk, inf, cs) /\ ReadBefore(inf, k) /\ Balanced(tk, inf, cs, k)
  BY DEF TreeAt
<1>2. Forest(tk, g)
  BY <1>1, OpenKeepsForest
<1>3. OpenStack(tk, g, ds)
  BY <1>1, OpenKeepsStack
<1>4. Balanced(tk, g, ds, k + 1)
  BY <1>1, BalancedOpen
<1>5. /\ Len(inf) \in Nat /\ Len(inf) >= 1 /\ k \in Nat /\ k > 0
      /\ Len(g) = Len(inf) + 1 /\ \A i \in 1..Len(inf) : g[i] = inf[i]
      /\ g[Len(inf) + 1].begin = k /\ g[Len(inf) + 1].end = None
      /\ ~ g[Len(inf) + 1].loaded /\ g[Len(inf) + 1].vars = << >>
  BY <1>1 DEF Forest, Opened
<1>6. ReadBefore(g, k + 1)
  <2> SUFFICES ASSUME NEW i \in 2..Len(g) PROVE g[i].begin < k + 1 /\ g[i].end < k + 1
    BY DEF ReadBefore
  <2>1. CASE i = Len(inf) + 1
    BY <1>5, <2>1 DEF None
  <2>2. CASE i # Len(inf) + 1
    <3>1. i \in 2..Len(inf) /\ g[i] = inf[i]
      BY <1>5, <2>2
    <3>2. inf[i].begin < k /\ inf[i].end < k
      BY <1>1, <3>1 DEF ReadBefore
    <3>3. inf[i].begin \in 1..Len(tk) /\ inf[i].end \in Nat
      BY <1>1, <3>1, InForest
    <3> QED
      BY <1>5, <3>1, <3>2, <3>3
  <2> QED
    BY <2>1, <2>2
<1>7. Untouched(g)
  <2> SUFFICES ASSUME NEW i \in 1..Len(g) PROVE g[i].vars = << >> /\ ~ g[i].loaded
    BY DEF Untouched
  <2>1. CASE i = Len(inf) + 1
    BY <1>5, <2>1
  <2>2. CASE i # Len(inf) + 1
    <3>1. i \in 1..Len(inf) /\ g[i] = inf[i]
      BY <1>5, <2>2
    <3> QED
      BY <3>1 DEF TreeAt, Untouched
  <2> QED
    BY <2>1, <2>2
<1>8. NameKept(g, ds, Len(inf) + 1, name)
  <2>1. Len(cs) \in Nat /\ Len(cs) >= 1
    BY <1>1 DEF OpenStack
  <2>2. /\ Len(cs) + 1 \in 2..Len(ds)
        /\ ds[Len(cs) + 1].block = Len(inf) + 1 /\ ds[Len(cs) + 1].def = name
    BY <2>1 DEF Pushed
  <2> QED
    BY <1>5, <2>2 DEF NameKept
<1>9. Len(inf) + 1 \in 2..Len(g)
  BY <1>5
<1>10. TreeAt(tk, g, ds, k + 1)
  BY <1>2, <1>3, <1>4, <1>6, <1>7 DEF TreeAt
<1>11. \E i \in 2..Len(g) : g[i].begin = k /\ NameKept(g, ds, i, name)
  BY <1>5, <1>8, <1>9
<1> QED
  BY <1>10, <1>11

(* The same in few words: name is the name in front of k, if it is one, and   *)
(* the tables have got the block that begins there.                           *)
Named(tk, k, name) == name # NoName => HasName(tk, k) /\ name = NameOf(tk, k)

Began(tk, g, ds, k, name) ==
  /\ TreeAt(tk, g, ds, k + 1)
  /\ \E i \in 2..Len(g) : g[i].begin = k /\ NameKept(g, ds, i, name)

(* A block begins.                                                            *)
LEMMA TreeBegins ==
  ASSUME NEW tk \in Seq(STRING), NEW inf, NEW cs, NEW k \in 1..Len(tk),
         TreeAt(tk, inf, cs, k), tk[k] = Opener,
         NEW name, Named(tk, k, name),
         NEW g, Opened(inf, g, cs[Len(cs)].block, k),
         NEW ds, Pushed(cs, ds, Len(inf) + 1, name)
  PROVE  Began(tk, g, ds, k, name)
  BY TreeOpens DEF Named, Began

-------------------------------------------------------------------------------
(* The first pass ends a block. *)

(* The block that ends is not the root, and has not ended before.            *)
LEMMA CloseTop ==
  ASSUME NEW tk \in Seq(STRING), NEW inf, NEW cs, NEW q \in Nat, TreeAt(tk, inf, cs, q),
         Len(cs) > 1
  PROVE  LET c == cs[Len(cs)].block
         IN /\ c \in 2..Len(inf) /\ c \in 1..Len(inf) /\ inf[c].scope \in 1..Len(inf)
            /\ inf[c].end = None
            /\ inf[c].begin \in Nat /\ 1 <= inf[c].begin /\ inf[c].begin < q
            /\ \A i \in 1..Len(inf) : c < i => inf[i].end # None
            /\ cs[Len(cs)].def \in STRING
            /\ Len(inf) \in Nat /\ Len(cs) \in Nat
<1> DEFINE c == cs[Len(cs)].block
<1>1. /\ inf \in Seq(LoadBlockInfo) /\ OpenStack(tk, inf, cs) /\ Forest(tk, inf)
      /\ ReadBefore(inf, q)
  BY DEF TreeAt, Forest
<1>2. /\ Len(cs) \in Nat /\ c \in 1..Len(inf) /\ inf[c].end = None
      /\ cs[Len(cs)].def \in STRING
      /\ \A i \in 1..Len(inf) : inf[i].end = None => i <= c
  BY <1>1, StackTop
<1>3. Len(cs) \in 2..Len(cs) /\ Len(inf) \in Nat
  BY <1>1, <1>2
<1>4. /\ c \in 2..Len(inf) /\ inf[c].begin \in Nat /\ 1 <= inf[c].begin
      /\ inf[c].begin < q
  BY <1>1, <1>3, StackBegins
<1>5. inf[c].scope \in 1..(c - 1)
  BY <1>1, <1>4, ScopeBelow
<1>6. inf[c].scope \in 1..Len(inf)
  BY <1>3, <1>4, <1>5
<1>7. \A i \in 1..Len(inf) : c < i => inf[i].end # None
  BY <1>2, <1>3
<1> HIDE DEF c
<1> QED
  BY <1>2, <1>3, <1>4, <1>6, <1>7 DEF c

(* A name that was noted with its block still is.                            *)
LEMMA DefsOnlyGrow ==
  ASSUME NEW inf, NEW g, NEW c, NEW q, NEW name, Shut(inf, g, c, q, name),
         NEW i \in 1..Len(inf), Len(inf[i].defs) \in Nat,
         NEW x \in 1..Len(inf[i].defs)
  PROVE  x \in 1..Len(g[i].defs) /\ g[i].defs[x] = inf[i].defs[x]
<1>1. CASE i # inf[c].scope \/ name = NoName
  <2>1. SameDefs(inf, g, i)
    BY <1>1 DEF Shut
  <2> QED
    BY <2>1 DEF SameDefs
<1>2. CASE ~ (i # inf[c].scope \/ name = NoName)
  <2> DEFINE d == [name |-> name, block |-> c]
  <2>1. OneDefMore(inf, g, i, d)
    BY <1>2 DEF Shut
  <2> HIDE DEF d
  <2> QED
    BY <2>1 DEF OneDefMore
<1> QED
  BY <1>1, <1>2

(* A block that ends leaves the forest a forest.                              *)
LEMMA ShutKeepsForest ==
  ASSUME NEW tk \in Seq(STRING), NEW inf, NEW cs, NEW q \in 1..Len(tk),
         TreeAt(tk, inf, cs, q), Len(cs) > 1, tk[q] = Closer,
         NEW g, Shut(inf, g, cs[Len(cs)].block, q, cs[Len(cs)].def)
  PROVE  Forest(tk, g)
<1> DEFINE c == cs[Len(cs)].block
           name == cs[Len(cs)].def
           N == Len(inf)
<1>1. /\ inf \in Seq(LoadBlockInfo) /\ Forest(tk, inf) /\ OpenStack(tk, inf, cs)
      /\ N \in Nat /\ N >= 1 /\ q \in Nat /\ q # 0 /\ Shut(inf, g, c, q, name)
      /\ ReadBefore(inf, q)
  BY DEF TreeAt, Forest
<1>2. /\ c \in 2..N /\ c \in 1..N /\ inf[c].scope \in 1..N /\ inf[c].end = None
      /\ inf[c].begin \in Nat /\ 1 <= inf[c].begin /\ inf[c].begin < q
      /\ \A i \in 1..N : c < i => inf[i].end # None
      /\ Len(cs) \in Nat
  BY <1>1, CloseTop
<1>3. name # NoName => HasName(tk, inf[c].begin) /\ name = NameOf(tk, inf[c].begin)
  <2>1. Len(cs) \in 2..Len(cs)
    BY <1>2
  <2> QED
    BY <1>1, <2>1 DEF OpenStack
<1> HIDE DEF c, name, N
<1>4. /\ g \in Seq(LoadBlockInfo) /\ Len(g) = N
      /\ \A i \in 1..N : g[i].scope = inf[i].scope /\ g[i].begin = inf[i].begin
      /\ \A i \in 1..N : i # c => g[i].end = inf[i].end
      /\ g[c].end = q
  BY <1>1 DEF Shut, SameButEnd, N
<1>5. ASSUME NEW i \in 2..N
      PROVE  /\ inf[i].begin \in Nat /\ 1 <= inf[i].begin /\ inf[i].end \in Nat
             /\ inf[i].begin < q /\ inf[i].end < q /\ i \in 1..N
  <2>1. inf[i].begin \in 1..Len(tk) /\ inf[i].end \in Nat /\ Len(tk) \in Nat
    BY <1>1, InForest DEF N
  <2>2. inf[i].begin < q /\ inf[i].end < q
    BY <1>1 DEF ReadBefore, N
  <2> QED
    BY <1>1, <2>1, <2>2
<1>6. ASSUME NEW j \in 1..N, NEW k \in Nat, k < q
      PROVE  Spans(g, j, k) <=> Spans(inf, j, k)
  <2>1. CASE j = c
    BY <1>2, <1>4, <1>6, <2>1 DEF Spans
  <2>2. CASE j # c
    BY <1>4, <2>2 DEF Spans
  <2> QED
    BY <2>1, <2>2
<1>7. ASSUME NEW i, NEW k \in Nat, k < q
      PROVE  Innermost(g, i, k) <=> Innermost(inf, i, k)
  <2>1. \A j \in 1..N : Spans(g, j, k) <=> Spans(inf, j, k)
    BY <1>6, <1>7
  <2>2. Len(g) = N /\ N = Len(inf)
    BY <1>4 DEF N
  <2> QED
    BY <2>1, <2>2 DEF Innermost
<1>8. ASSUME NEW i \in 2..N PROVE Formed(tk, g, i)
  <2>1. Formed(tk, inf, i)
    BY <1>1 DEF Forest, N
  <2>2. g[i].scope = inf[i].scope /\ g[i].begin = inf[i].begin
    BY <1>4, <1>5
  <2>3. Innermost(g, g[i].scope, g[i].begin)
    BY <1>5, <1>7, <2>1, <2>2 DEF Formed
  <2>4. g[i].begin \in 1..Len(tk) /\ tk[g[i].begin] = Opener
    BY <2>1, <2>2 DEF Formed
  <2>5. g[i].end # None =>
          g[i].end \in 1..Len(tk) /\ g[i].begin < g[i].end /\ tk[g[i].end] = Closer
    <3>1. CASE i = c
      BY <1>2, <1>4, <2>2, <3>1
    <3>2. CASE i # c
      BY <1>4, <1>5, <2>1, <2>2, <3>2 DEF Formed
    <3> QED
      BY <3>1, <3>2
  <2> QED
    BY <2>3, <2>4, <2>5 DEF Formed
<1>9. ASSUME NEW i \in 2..N, NEW j \in 2..N, i < j PROVE Apart(g, i, j)
  <2>1. Apart(inf, i, j)
    BY <1>1, <1>9 DEF Forest, AllApart, N
  <2>2. g[i].begin = inf[i].begin /\ g[j].begin = inf[j].begin /\ i # j
    BY <1>4, <1>5, <1>9
  <2>3. CASE i = c
    <3>1. g[j].end = inf[j].end /\ inf[j].end # None /\ g[i].end = q
      BY <1>2, <1>4, <1>5, <1>9, <2>2, <2>3
    <3>2. inf[j].end < q /\ inf[i].begin < inf[j].begin
      BY <1>5, <2>1 DEF Apart
    <3> QED
      BY <2>2, <3>1, <3>2 DEF Apart
  <2>4. CASE j = c
    <3>1. g[i].end = inf[i].end
      BY <1>4, <1>5, <2>2, <2>4
    <3>2. /\ inf[i].begin < inf[j].begin
          /\ inf[i].end = None \/ inf[i].end < inf[j].begin
      BY <1>2, <2>1, <2>4 DEF Apart
    <3> QED
      BY <2>2, <3>1, <3>2 DEF Apart
  <2>5. CASE i # c /\ j # c
    <3>1. g[i].end = inf[i].end /\ g[j].end = inf[j].end
      BY <1>4, <1>5, <2>5
    <3> QED
      BY <2>1, <2>2, <3>1 DEF Apart
  <2> QED
    BY <2>3, <2>4, <2>5
<1>10. AllApart(g)
  BY <1>4, <1>9 DEF AllApart
<1>11. ASSUME NEW i \in 1..N, NEW d, DefFits(tk, inf, i, d) PROVE DefFits(tk, g, i, d)
  <2>1. d.block \in 2..N
    BY <1>11 DEF DefFits, N
  <2>2. /\ d.block \in 1..N /\ inf[d.block].end # None /\ inf[d.block].scope = i
        /\ HasName(tk, inf[d.block].begin) /\ d.name = NameOf(tk, inf[d.block].begin)
    BY <1>5, <1>11, <2>1 DEF DefFits
  <2>3. d.block # c
    BY <1>2, <2>2
  <2>4. g[d.block].scope = i /\ g[d.block].begin = inf[d.block].begin
    BY <1>4, <2>2
  <2>5. g[d.block].end # None
    BY <1>4, <2>2, <2>3
  <2> QED
    BY <1>4, <2>1, <2>2, <2>4, <2>5 DEF DefFits
<1>12. ASSUME NEW i \in 1..N PROVE DefsFit(tk, g, i)
  <2>1. DefsFit(tk, inf, i)
    BY <1>1 DEF Forest, N
  <2>2. CASE i # inf[c].scope \/ name = NoName
    <3>1. SameDefs(inf, g, i)
      BY <1>1, <2>2 DEF Shut, N
    <3>2. \A x \in 1..Len(inf[i].defs) : DefFits(tk, g, i, inf[i].defs[x])
      BY <1>11, <2>1 DEF DefsFit
    <3> QED
      BY <3>1, <3>2 DEF DefsFit, SameDefs
  <2>3. CASE ~ (i # inf[c].scope \/ name = NoName)
    <3> DEFINE d == [name |-> name, block |-> c]
    <3>1. OneDefMore(inf, g, i, d)
      BY <1>1, <2>3 DEF Shut
    <3>2. DefFits(tk, g, i, d)
      <4>1. d.block = c /\ d.name = name
        OBVIOUS
      <4>2. g[c].scope = i /\ g[c].begin = inf[c].begin /\ g[c].end # None
        BY <1>1, <1>2, <1>4, <2>3 DEF None
      <4> HIDE DEF d
      <4> QED
        BY <1>2, <1>3, <1>4, <2>3, <4>1, <4>2 DEF DefFits
    <3> HIDE DEF d
    <3>3. Len(inf[i].defs) \in Nat
      BY <1>1, InfoFields DEF N
    <3>4. ASSUME NEW x \in 1..Len(g[i].defs) PROVE DefFits(tk, g, i, g[i].defs[x])
      <4>1. CASE x = Len(inf[i].defs) + 1
        BY <3>1, <3>2, <4>1 DEF OneDefMore
      <4>2. CASE x # Len(inf[i].defs) + 1
        <5>1. Len(g[i].defs) = Len(inf[i].defs) + 1
          BY <3>1 DEF OneDefMore
        <5>2. x \in 1..Len(inf[i].defs)
          BY <3>3, <4>2, <5>1
        <5>3. g[i].defs[x] = inf[i].defs[x]
          BY <3>1, <5>2 DEF OneDefMore
        <5> QED
          BY <1>11, <2>1, <5>2, <5>3 DEF DefsFit
      <4> QED
        BY <4>1, <4>2
    <3> QED
      BY <3>4 DEF DefsFit
  <2> QED
    BY <2>2, <2>3
<1>13. g[1].scope = None /\ g[1].begin = 1
  <2>1. 1 \in 1..N /\ inf[1].scope = None /\ inf[1].begin = 1
    BY <1>1 DEF Forest
  <2> QED
    BY <1>4, <2>1
<1> QED
  BY <1>1, <1>4, <1>8, <1>10, <1>12, <1>13 DEF Forest

(* The last of those that had not ended leaves the stack.                     *)
LEMMA ShutKeepsStack ==
  ASSUME NEW tk \in Seq(STRING), NEW inf, NEW cs, NEW q \in 1..Len(tk),
         TreeAt(tk, inf, cs, q), Len(cs) > 1,
         NEW g, Shut(inf, g, cs[Len(cs)].block, q, cs[Len(cs)].def),
         NEW ds, Popped(cs, ds)
  PROVE  OpenStack(tk, g, ds)
<1> DEFINE c == cs[Len(cs)].block
           name == cs[Len(cs)].def
           N == Len(inf)
           L == Len(cs)
<1>1. /\ N \in Nat /\ N >= 1 /\ q \in Nat /\ q # 0 /\ Shut(inf, g, c, q, name)
      /\ OpenStack(tk, inf, cs)
  BY DEF TreeAt, Forest
<1>2. L \in Nat /\ L > 1 /\ c \in 1..N
  BY CloseTop
<1>3. /\ \A n \in 1..L : cs[n].block \in 1..N /\ inf[cs[n].block].end = None
      /\ \A i \in 1..N : inf[i].end = None => \E n \in 1..L : cs[n].block = i
      /\ \A n \in 2..L : cs[n].def # NoName =>
           HasName(tk, inf[cs[n].block].begin) /\ cs[n].def = NameOf(tk, inf[cs[n].block].begin)
      /\ \A m, n \in 1..L : m < n => cs[m].block < cs[n].block
      /\ cs[1].block = 1 /\ cs[1].def = NoName
  BY <1>1 DEF OpenStack, Rising
<1>4. /\ ds \in Seq(LoadCall) /\ Len(ds) = L - 1 /\ \A n \in 1..(L - 1) : ds[n] = cs[n]
  BY DEF Popped
<1>5. cs[L].block = c
  OBVIOUS
<1> HIDE DEF c, name, N, L
<1>6. /\ Len(g) = N
      /\ \A i \in 1..N : g[i].begin = inf[i].begin
      /\ \A i \in 1..N : i # c => g[i].end = inf[i].end
      /\ g[c].end = q
  BY <1>1 DEF Shut, SameButEnd, N
<1>7. ASSUME NEW n \in 1..(L - 1) PROVE n \in 1..L /\ ds[n] = cs[n] /\ cs[n].block # c
  <2>1. n \in 1..L /\ L \in 1..L /\ n < L
    BY <1>2
  <2>2. cs[n].block < cs[L].block /\ cs[n].block \in 1..N
    BY <1>3, <2>1
  <2> QED
    BY <1>1, <1>2, <1>4, <1>5, <2>1, <2>2
<1>8. ASSUME NEW n \in 1..(L - 1) PROVE ds[n].block \in 1..N /\ g[ds[n].block].end = None
  BY <1>3, <1>6, <1>7
<1>9. ASSUME NEW i \in 1..N, g[i].end = None PROVE \E n \in 1..(L - 1) : ds[n].block = i
  <2>1. i # c
    BY <1>1, <1>6, <1>9 DEF None
  <2>2. inf[i].end = None
    BY <1>6, <1>9, <2>1
  <2>3. PICK n \in 1..L : cs[n].block = i
    BY <1>3, <2>2
  <2>4. n # L
    BY <1>5, <2>1, <2>3
  <2>5. n \in 1..(L - 1)
    BY <1>2, <2>4
  <2> QED
    BY <1>7, <2>3, <2>5
<1>10. ASSUME NEW n \in 2..(L - 1), ds[n].def # NoName
       PROVE  HasName(tk, g[ds[n].block].begin) /\ ds[n].def = NameOf(tk, g[ds[n].block].begin)
  <2>1. n \in 1..(L - 1) /\ n \in 2..L
    BY <1>2
  <2>2. ds[n] = cs[n] /\ g[cs[n].block].begin = inf[cs[n].block].begin
    BY <1>3, <1>6, <1>7, <2>1
  <2> QED
    BY <1>3, <1>10, <2>1, <2>2
<1>11. Rising(ds)
  BY <1>3, <1>4, <1>7 DEF Rising
<1>12. ds[1].block = 1 /\ ds[1].def = NoName /\ Len(ds) >= 1
  <2>1. 1 \in 1..(L - 1)
    BY <1>2
  <2> QED
    BY <1>2, <1>3, <1>4, <2>1
<1> QED
  BY <1>4, <1>6, <1>8, <1>9, <1>10, <1>11, <1>12 DEF OpenStack

(* The names of all tokens that end in ':' are names.                        *)
LEMMA NamesAreNames == \A t \in DOMAIN DefOf : DefOf[t] \in STRING /\ DefOf[t] # NoName
  BY WordsAssumption

(* What was noted before a block ended is still noted.                        *)
LEMMA ShutKeepsNoted ==
  ASSUME NEW tk \in Seq(STRING), NEW inf, NEW cs, NEW q \in 1..Len(tk),
         TreeAt(tk, inf, cs, q), Len(cs) > 1,
         NEW g, Shut(inf, g, cs[Len(cs)].block, q, cs[Len(cs)].def),
         NEW ds, Popped(cs, ds),
         NEW m \in 1..Len(tk), Noted(tk, inf, cs, m)
  PROVE  Noted(tk, g, ds, m)
<1> DEFINE c == cs[Len(cs)].block
           name == cs[Len(cs)].def
           N == Len(inf)
           L == Len(cs)
<1>1. /\ N \in Nat /\ N >= 1 /\ q \in Nat /\ q # 0 /\ Shut(inf, g, c, q, name)
      /\ OpenStack(tk, inf, cs) /\ Forest(tk, inf) /\ inf \in Seq(LoadBlockInfo)
      /\ m \in Nat /\ m # 0
  BY DEF TreeAt, Forest
<1>2. /\ L \in Nat /\ L > 1 /\ c \in 2..N /\ c \in 1..N /\ inf[c].scope \in 1..N
      /\ inf[c].end = None
  BY <1>1, CloseTop
<1>3. \A a, n \in 1..L : a < n => cs[a].block < cs[n].block
  BY <1>1 DEF OpenStack, Rising
<1>4. Len(ds) = L - 1 /\ \A n \in 1..(L - 1) : ds[n] = cs[n]
  BY DEF Popped
<1>5. cs[L].block = c /\ cs[L].def = name
  OBVIOUS
<1>6. /\ Len(g) = N
      /\ \A i \in 1..N : g[i].begin = inf[i].begin /\ g[i].scope = inf[i].scope
      /\ \A i \in 1..N : i # c => g[i].end = inf[i].end
      /\ g[c].end = q
  BY <1>1 DEF Shut, SameButEnd
<1>7. ASSUME NEW i \in 1..N, NEW x \in 1..Len(inf[i].defs)
      PROVE  x \in 1..Len(g[i].defs) /\ g[i].defs[x] = inf[i].defs[x]
  <2>1. Len(inf[i].defs) \in Nat
    BY <1>1, InfoFields
  <2> QED
    BY <1>1, <2>1, DefsOnlyGrow
<1>8. ASSUME NEW i \in 2..N, NEW nm, nm # NoName, NameKept(inf, cs, i, nm)
      PROVE  NameKept(g, ds, i, nm)
  <2>1. i \in 1..N
    BY <1>1
  <2>2. CASE i = c
    <3>1. PICK n \in 2..L : cs[n].block = i /\ cs[n].def = nm
      BY <1>2, <1>8, <2>2 DEF NameKept
    <3>2. n = L
      <4>1. n \in 1..L /\ L \in 1..L /\ (n = L \/ n < L)
        BY <1>2
      <4>2. n < L => cs[n].block < cs[L].block
        BY <1>3, <4>1
      <4> QED
        BY <1>2, <1>5, <2>2, <3>1, <4>1, <4>2
    <3>3. name = nm
      BY <1>5, <3>1, <3>2
    <3> DEFINE d == [name |-> name, block |-> c]
               s == inf[c].scope
    <3>4. OneDefMore(inf, g, s, d)
      BY <1>1, <1>8, <3>3 DEF Shut
    <3>5. Len(inf[s].defs) \in Nat
      BY <1>1, <1>2, InfoFields
    <3>6. d = [name |-> nm, block |-> i]
      BY <2>2, <3>3
    <3> HIDE DEF d, s
    <3>7. Len(inf[s].defs) + 1 \in 1..Len(g[s].defs) /\ g[s].defs[Len(inf[s].defs) + 1] = d
      BY <3>4, <3>5 DEF OneDefMore
    <3>8. g[i].scope = s /\ g[i].end # None
      BY <1>1, <1>2, <1>6, <2>2 DEF s, None
    <3> QED
      BY <3>6, <3>7, <3>8 DEF NameKept
  <2>3. CASE i # c
    <3>1. g[i].end = inf[i].end /\ g[i].scope = inf[i].scope
      BY <1>6, <2>1, <2>3
    <3>2. CASE inf[i].end = None
      <4>1. PICK n \in 2..L : cs[n].block = i /\ cs[n].def = nm
        BY <1>8, <3>2 DEF NameKept
      <4>2. n # L
        BY <1>5, <2>3, <4>1
      <4>3. n \in 2..Len(ds) /\ n \in 1..(L - 1)
        BY <1>2, <1>4, <4>2
      <4>4. ds[n] = cs[n]
        BY <1>4, <4>3
      <4> QED
        BY <3>1, <3>2, <4>1, <4>3, <4>4 DEF NameKept
    <3>3. CASE inf[i].end # None
      <4>1. inf[i].scope \in 1..N
        <5>1. inf[i].scope \in 1..(i - 1)
          BY <1>1, ScopeBelow
        <5> QED
          BY <1>1, <5>1
      <4>2. PICK x \in 1..Len(inf[inf[i].scope].defs) :
              inf[inf[i].scope].defs[x] = [name |-> nm, block |-> i]
        BY <1>8, <3>3 DEF NameKept
      <4>3. /\ x \in 1..Len(g[inf[i].scope].defs)
            /\ g[inf[i].scope].defs[x] = [name |-> nm, block |-> i]
        BY <1>7, <4>1, <4>2
      <4> QED
        BY <3>1, <3>3, <4>3 DEF NameKept
    <3> QED
      BY <3>2, <3>3
  <2> QED
    BY <2>2, <2>3
<1> HIDE DEF c, name, N, L
<1>9. tk[m] = Opener => \E i \in 2..Len(g) : g[i].begin = m
  <2>1. \A i \in 2..N : g[i].begin = inf[i].begin
    BY <1>1, <1>6
  <2> QED
    BY <1>6, <2>1 DEF Noted, N
<1>10. tk[m] = Closer => \E i \in 2..Len(g) : g[i].end = m
  <2> SUFFICES ASSUME tk[m] = Closer PROVE \E i \in 2..Len(g) : g[i].end = m
    OBVIOUS
  <2>1. PICK i \in 2..N : inf[i].end = m
    BY DEF Noted, N
  <2>2. i # c /\ i \in 1..N
    BY <1>1, <1>2, <2>1 DEF None
  <2> QED
    BY <1>6, <2>1, <2>2
<1>11. tk[m] \in DOMAIN DefOf =>
        \E i \in 2..Len(g) : g[i].begin = m + 1 /\ NameKept(g, ds, i, DefOf[tk[m]])
  <2> SUFFICES ASSUME tk[m] \in DOMAIN DefOf
               PROVE \E i \in 2..Len(g) : g[i].begin = m + 1 /\ NameKept(g, ds, i, DefOf[tk[m]])
    OBVIOUS
  <2>1. PICK i \in 2..N : inf[i].begin = m + 1 /\ NameKept(inf, cs, i, DefOf[tk[m]])
    BY DEF Noted, N
  <2>2. DefOf[tk[m]] # NoName
    BY NamesAreNames
  <2>3. NameKept(g, ds, i, DefOf[tk[m]])
    BY <1>8, <2>1, <2>2
  <2>4. i \in 2..Len(g) /\ g[i].begin = m + 1
    BY <1>1, <1>6, <2>1
  <2> QED
    BY <2>3, <2>4
<1> QED
  BY <1>9, <1>10, <1>11 DEF Noted

(* A brace that closes lowers every balance by one; that of its block reaches 0. *)
LEMMA BalancedShut ==
  ASSUME NEW tk \in Seq(STRING), NEW inf, NEW cs, NEW q \in 1..Len(tk),
         TreeAt(tk, inf, cs, q), Len(cs) > 1, tk[q] = Closer,
         NEW g, Shut(inf, g, cs[Len(cs)].block, q, cs[Len(cs)].def),
         NEW ds, Popped(cs, ds)
  PROVE  Balanced(tk, g, ds, q + 1)
<1> DEFINE c == cs[Len(cs)].block
           name == cs[Len(cs)].def
           N == Len(inf)
           L == Len(cs)
<1>1. /\ N \in Nat /\ N >= 1 /\ q \in Nat /\ Shut(inf, g, c, q, name)
      /\ Balanced(tk, inf, cs, q) /\ Forest(tk, inf) /\ OpenStack(tk, inf, cs)
      /\ ReadBefore(inf, q)
  BY DEF TreeAt, Forest
<1>2. /\ L \in Nat /\ L > 1 /\ c \in 2..N /\ c \in 1..N
      /\ inf[c].begin \in Nat /\ 1 <= inf[c].begin /\ inf[c].begin < q
  BY CloseTop
<1>3. Len(ds) = L - 1 /\ \A n \in 1..(L - 1) : ds[n] = cs[n]
  BY DEF Popped
<1>4. /\ Len(g) = N /\ \A i \in 1..N : g[i].begin = inf[i].begin
      /\ \A i \in 1..N : i # c => g[i].end = inf[i].end
      /\ g[c].end = q
  BY <1>1 DEF Shut, SameButEnd
<1>5. ASSUME NEW n \in 2..L
      PROVE  /\ Open(tk, inf[cs[n].block].begin, q, L - n + 1)
             /\ cs[n].block \in 1..N
             /\ inf[cs[n].block].begin \in Nat /\ 1 <= inf[cs[n].block].begin
             /\ inf[cs[n].block].begin < q
  <2>1. Open(tk, inf[cs[n].block].begin, q, L - n + 1)
    BY <1>1 DEF Balanced
  <2>2. /\ cs[n].block \in 2..N
        /\ inf[cs[n].block].begin \in Nat /\ 1 <= inf[cs[n].block].begin
        /\ inf[cs[n].block].begin < q
    BY <1>1, StackBegins
  <2> QED
    BY <1>1, <2>1, <2>2
<1>6. ASSUME NEW n \in 2..(L - 1)
      PROVE  Open(tk, g[ds[n].block].begin, q + 1, (L - 1) - n + 1)
  <2>1. n \in 2..L /\ n \in 1..(L - 1)
    BY <1>2
  <2>2. L - n + 1 \in Int /\ L - n + 1 > 1 /\ (L - n + 1) - 1 = (L - 1) - n + 1
    BY <1>2
  <2>3. Open(tk, inf[cs[n].block].begin, q + 1, (L - n + 1) - 1)
    BY <1>1, <1>5, <2>1, <2>2, OpenNext
  <2>4. g[ds[n].block].begin = inf[cs[n].block].begin
    BY <1>3, <1>4, <1>5, <2>1
  <2> QED
    BY <2>2, <2>3, <2>4
<1>7. OpenFrom(tk, inf[c].begin, q) /\ Rise(tk, inf[c].begin, q) = 0
  <2>1. L \in 2..L /\ L - L + 1 = 1 /\ 1 \in Int
    BY <1>2
  <2>2. Open(tk, inf[c].begin, q, 1)
    BY <1>5, <2>1
  <2>3. Rise(tk, inf[c].begin, q) = 1 - 1
    <3>1. /\ inf[c].begin \in Nat /\ q \in Nat /\ 1 <= inf[c].begin /\ inf[c].begin < q
          /\ 1 \in Int /\ tk[q] = Closer
      BY <1>1, <1>2, <2>1
    <3> QED
      BY <2>2, <3>1, OpenNext
  <2> QED
    BY <2>2, <2>3 DEF Open
<1>8. ASSUME NEW i \in 2..N, g[i].end # None
      PROVE  OpenFrom(tk, g[i].begin, g[i].end) /\ Rise(tk, g[i].begin, g[i].end) = 0
  <2>1. i \in 1..N
    BY <1>1
  <2>2. CASE i = c
    BY <1>4, <1>7, <2>1, <2>2
  <2>3. CASE i # c
    BY <1>1, <1>4, <1>8, <2>1, <2>3 DEF Balanced
  <2> QED
    BY <2>2, <2>3
<1> HIDE DEF c, name, N, L
<1> QED
  BY <1>3, <1>4, <1>6, <1>8 DEF Balanced

(* The block of the last call ends at q.                                     *)
LEMMA TreeShuts ==
  ASSUME NEW tk \in Seq(STRING), NEW inf, NEW cs, NEW q \in 1..Len(tk),
         TreeAt(tk, inf, cs, q), Len(cs) > 1, tk[q] = Closer,
         NEW g, Shut(inf, g, cs[Len(cs)].block, q, cs[Len(cs)].def),
         NEW ds, Popped(cs, ds)
  PROVE  /\ TreeAt(tk, g, ds, q + 1)
         /\ \E i \in 2..Len(g) : g[i].end = q
<1> DEFINE c == cs[Len(cs)].block
           name == cs[Len(cs)].def
<1>1. q \in Nat /\ Shut(inf, g, c, q, name) /\ Forest(tk, inf) /\ ReadBefore(inf, q)
      /\ Untouched(inf)
  BY DEF TreeAt
<1>2. c \in 2..Len(inf)
  BY <1>1, CloseTop
<1> HIDE DEF c, name
<1>3. /\ Len(g) = Len(inf) /\ g[c].end = q
      /\ \A i \in 1..Len(inf) : g[i].begin = inf[i].begin
      /\ \A i \in 1..Len(inf) : i # c => g[i].end = inf[i].end
      /\ \A i \in 1..Len(inf) : g[i].vars = inf[i].vars /\ g[i].loaded = inf[i].loaded
  BY <1>1 DEF Shut, SameButEnd
<1>4. ReadBefore(g, q + 1)
  <2> SUFFICES ASSUME NEW i \in 2..Len(inf) PROVE g[i].begin < q + 1 /\ g[i].end < q + 1
    BY <1>3 DEF ReadBefore
  <2>1. inf[i].begin < q /\ inf[i].end < q
    BY <1>1 DEF ReadBefore
  <2>2. inf[i].begin \in 1..Len(tk) /\ inf[i].end \in Nat /\ Len(inf) \in Nat
    BY <1>1, InForest
  <2>3. i \in 1..Len(inf)
    BY <2>2
  <2>4. g[i].begin = inf[i].begin /\ (g[i].end = q \/ g[i].end = inf[i].end)
    BY <1>3, <2>3
  <2> QED
    BY <1>1, <2>1, <2>2, <2>4
<1>5. Untouched(g)
  BY <1>1, <1>3 DEF Untouched
<1>6. Forest(tk, g)
  BY ShutKeepsForest
<1>7. OpenStack(tk, g, ds)
  BY ShutKeepsStack
<1>8. Balanced(tk, g, ds, q + 1)
  BY BalancedShut
<1>9. TreeAt(tk, g, ds, q + 1)
  BY <1>4, <1>5, <1>6, <1>7, <1>8 DEF TreeAt
<1> QED
  BY <1>2, <1>3, <1>9

-------------------------------------------------------------------------------
(* The first pass ends, and the second one notes what it has loaded. *)

(* A change of the table that leaves the tree alone, but for the root's end.  *)
AlmostSame(inf, g) ==
  /\ g \in Seq(LoadBlockInfo) /\ Len(g) = Len(inf)
  /\ \A i \in 1..Len(inf) :
       /\ g[i].scope = inf[i].scope /\ g[i].begin = inf[i].begin /\ g[i].defs = inf[i].defs
       /\ i # 1 => g[i].end = inf[i].end

(* ... so the innermost blocks are the same.                                  *)
LEMMA SameSpans ==
  ASSUME NEW inf, NEW g, Len(inf) \in Nat, AlmostSame(inf, g), NEW i, NEW k
  PROVE  Innermost(g, i, k) <=> Innermost(inf, i, k)
<1>1. \A j \in 1..Len(inf) : Spans(g, j, k) <=> Spans(inf, j, k)
  BY DEF AlmostSame, Spans
<1> QED
  BY <1>1 DEF Innermost, AlmostSame

(* The forest does not depend on the root's end.                              *)
LEMMA SameForest ==
  ASSUME NEW tk \in Seq(STRING), NEW inf, Forest(tk, inf), NEW g, AlmostSame(inf, g)
  PROVE  Forest(tk, g)
<1>1. /\ Len(inf) \in Nat /\ Len(inf) >= 1 /\ Len(g) = Len(inf) /\ g \in Seq(LoadBlockInfo)
      /\ 1 \in 1..Len(inf) /\ inf[1].scope = None /\ inf[1].begin = 1
  BY DEF Forest, AlmostSame
<1>2. ASSUME NEW i \in 2..Len(inf)
      PROVE  /\ i \in 1..Len(inf) /\ g[i].scope = inf[i].scope
             /\ g[i].begin = inf[i].begin /\ g[i].end = inf[i].end
  <2>1. i \in 1..Len(inf) /\ i # 1
    BY <1>1
  <2> QED
    BY <2>1 DEF AlmostSame
<1>3. ASSUME NEW i \in 2..Len(inf) PROVE Formed(tk, g, i)
  <2>1. Formed(tk, inf, i)
    BY DEF Forest
  <2>2. Innermost(g, inf[i].scope, inf[i].begin)
    BY <1>1, <2>1, SameSpans DEF Formed
  <2> QED
    BY <1>2, <2>1, <2>2 DEF Formed
<1>4. ASSUME NEW i \in 2..Len(inf), NEW j \in 2..Len(inf), i < j PROVE Apart(g, i, j)
  <2>1. Apart(inf, i, j)
    BY <1>4 DEF Forest, AllApart
  <2> QED
    BY <1>2, <2>1 DEF Apart
<1>5. AllApart(g)
  BY <1>1, <1>4 DEF AllApart
<1>6. ASSUME NEW i \in 1..Len(inf) PROVE DefsFit(tk, g, i)
  <2>1. g[i].defs = inf[i].defs /\ DefsFit(tk, inf, i)
    BY DEF Forest, AlmostSame
  <2>2. ASSUME NEW x \in 1..Len(inf[i].defs) PROVE DefFits(tk, g, i, inf[i].defs[x])
    <3>1. DefFits(tk, inf, i, inf[i].defs[x])
      BY <2>1 DEF DefsFit
    <3>2. inf[i].defs[x].block \in 2..Len(inf)
      BY <3>1 DEF DefFits
    <3> QED
      BY <1>1, <1>2, <3>1, <3>2 DEF DefFits
  <2> QED
    BY <2>1, <2>2 DEF DefsFit
<1>7. g[1].scope = None /\ g[1].begin = 1
  BY <1>1 DEF AlmostSame
<1> QED
  BY <1>1, <1>3, <1>5, <1>6, <1>7 DEF Forest

(* Once no call but the root's is open, what was noted needs no stack.        *)
LEMMA SameNoted ==
  ASSUME NEW tk \in Seq(STRING), NEW inf, Forest(tk, inf), Ended(inf),
         NEW g, AlmostSame(inf, g), NEW cs, NEW ds, NEW m, Noted(tk, inf, cs, m)
  PROVE  Noted(tk, g, ds, m)
<1>1. ASSUME NEW i \in 2..Len(inf)
      PROVE  /\ i \in 2..Len(g) /\ g[i].scope = inf[i].scope /\ g[i].begin = inf[i].begin
             /\ g[i].end = inf[i].end /\ inf[i].end # None /\ inf[i].scope \in 1..Len(inf)
  <2>1. Len(inf) \in Nat /\ i \in 1..Len(inf) /\ i # 1
    BY DEF Forest
  <2>2. inf[i].scope \in 1..(i - 1)
    BY ScopeBelow
  <2>3. inf[i].scope \in 1..Len(inf)
    BY <2>1, <2>2
  <2> QED
    BY <2>1, <2>3 DEF AlmostSame, Ended
<1>2. ASSUME NEW i \in 2..Len(inf), NEW nm, NameKept(inf, cs, i, nm)
      PROVE  NameKept(g, ds, i, nm)
  <2>1. g[inf[i].scope].defs = inf[inf[i].scope].defs
    BY <1>1 DEF AlmostSame
  <2> QED
    BY <1>1, <1>2, <2>1 DEF NameKept
<1>3. tk[m] = Opener => \E i \in 2..Len(g) : g[i].begin = m
  BY <1>1 DEF Noted
<1>4. tk[m] = Closer => \E i \in 2..Len(g) : g[i].end = m
  BY <1>1 DEF Noted
<1>5. tk[m] \in DOMAIN DefOf =>
        \E i \in 2..Len(g) : g[i].begin = m + 1 /\ NameKept(g, ds, i, DefOf[tk[m]])
  <2> SUFFICES ASSUME tk[m] \in DOMAIN DefOf
               PROVE \E i \in 2..Len(g) : g[i].begin = m + 1 /\ NameKept(g, ds, i, DefOf[tk[m]])
    OBVIOUS
  <2>1. PICK i \in 2..Len(inf) : inf[i].begin = m + 1 /\ NameKept(inf, cs, i, DefOf[tk[m]])
    BY DEF Noted
  <2> QED
    BY <1>1, <1>2, <2>1
<1> QED
  BY <1>3, <1>4, <1>5 DEF Noted

(* After the first pass every block has ended.                                *)
LEMMA DoneEnded ==
  ASSUME NEW tk, NEW inf, AllEnded(tk, inf)
  PROVE  Ended(inf)
  BY DEF AllEnded, Ended

(* The braces balance as they did before the root ended.                      *)
LEMMA SameBalanced ==
  ASSUME NEW tk \in Seq(STRING), NEW inf, Forest(tk, inf), NEW g, AlmostSame(inf, g),
         NEW cs, NEW q, NEW r, Balanced(tk, inf, cs, q)
  PROVE  Balanced(tk, g, << >>, r)
<1>1. ASSUME NEW i \in 2..Len(inf)
      PROVE  i \in 2..Len(g) /\ g[i].begin = inf[i].begin /\ g[i].end = inf[i].end
  <2>1. Len(inf) \in Nat /\ i \in 1..Len(inf) /\ i # 1
    BY DEF Forest
  <2> QED
    BY <2>1 DEF AlmostSame
<1>2. Len(g) = Len(inf)
  BY DEF AlmostSame
<1>3. Len(<< >>) = 0 /\ 2..0 = {}
  BY EmptySeq
<1>4. \A i \in 2..Len(g) : g[i].end # None =>
        OpenFrom(tk, g[i].begin, g[i].end) /\ Rise(tk, g[i].begin, g[i].end) = 0
  BY <1>1, <1>2 DEF Balanced
<1> QED
  BY <1>3, <1>4 DEF Balanced

(* The first pass hands a complete forest to the second.                      *)
LEMMA TreeEnds ==
  ASSUME NEW tk \in Seq(STRING), NEW inf, NEW cs, TreeAt(tk, inf, cs, Len(tk) + 1),
         AllNoted(tk, inf, cs, Len(tk) + 1), Len(cs) = 1,
         NEW g, AlmostSame(inf, g), g[1].end = Len(tk) + 1, g[1].loaded
  PROVE  TreeDone(tk, g) /\ Innermost(g, 1, 1)
<1>1. Forest(tk, inf) /\ OpenStack(tk, inf, cs) /\ Balanced(tk, inf, cs, Len(tk) + 1)
  BY DEF TreeAt
<1>2. Len(inf) \in Nat /\ Len(inf) >= 1
  BY <1>1 DEF Forest
<1>3. Ended(inf)
  <2> SUFFICES ASSUME NEW i \in 2..Len(inf), inf[i].end = None PROVE FALSE
    BY DEF Ended
  <2>1. i \in 1..Len(inf) /\ i # 1
    BY <1>2
  <2>2. \E n \in 1..Len(cs) : cs[n].block = i
    BY <1>1, <2>1 DEF OpenStack
  <2>3. cs[1].block = 1
    BY <1>1 DEF OpenStack
  <2> QED
    BY <2>1, <2>2, <2>3
<1>4. Forest(tk, g)
  BY <1>1, SameForest
<1>5. AllEnded(tk, g)
  <2>1. \A i \in 2..Len(g) : g[i].end # None
    <3> SUFFICES ASSUME NEW i \in 2..Len(g) PROVE g[i].end # None
      OBVIOUS
    <3>1. i \in 2..Len(inf) /\ i \in 1..Len(inf) /\ i # 1
      BY <1>2 DEF AlmostSame
    <3> QED
      BY <1>3, <3>1 DEF AlmostSame, Ended
  <2> QED
    BY <2>1 DEF AllEnded
<1>6. AllNoted(tk, g, << >>, Len(tk) + 1)
  BY <1>1, <1>3, SameNoted DEF AllNoted
<1>7. Balanced(tk, g, << >>, Len(tk) + 1)
  BY <1>1, SameBalanced
<1>8. TreeDone(tk, g)
  BY <1>4, <1>5, <1>6, <1>7 DEF TreeDone
<1>9. Innermost(inf, 1, 1)
  <2>1. 1 \in 1..Len(inf) /\ Spans(inf, 1, 1)
    BY <1>2 DEF Spans
  <2>2. ASSUME NEW j \in 1..Len(inf), Spans(inf, j, 1) PROVE j <= 1
    <3>1. CASE j = 1
      BY <3>1
    <3>2. CASE j # 1
      <4>1. j \in 2..Len(inf)
        BY <1>2, <3>2
      <4>2. inf[j].begin \in 1..Len(tk) /\ Len(tk) \in Nat
        BY <1>1, <4>1, InForest
      <4>3. inf[j].begin < 1
        BY <2>2, <3>2 DEF Spans
      <4> QED
        BY <4>2, <4>3
    <3> QED
      BY <3>1, <3>2
  <2> QED
    BY <2>1, <2>2 DEF Innermost
<1>10. Innermost(g, 1, 1)
  BY <1>2, <1>9, SameSpans
<1> QED
  BY <1>8, <1>10

(* The second pass keeps all of it.                                           *)
LEMMA DoneKept ==
  ASSUME NEW tk \in Seq(STRING), NEW inf, TreeDone(tk, inf), NEW g, SameTree(inf, g),
         g[1].loaded
  PROVE  /\ TreeDone(tk, g)
         /\ \A i, k : Innermost(g, i, k) <=> Innermost(inf, i, k)
<1>1. Forest(tk, inf) /\ Ended(inf) /\ Len(inf) \in Nat /\ Len(inf) >= 1
  BY DoneEnded DEF TreeDone, Forest
<1>2. AlmostSame(inf, g)
  BY DEF AlmostSame, SameTree
<1>3. Forest(tk, g)
  BY <1>1, <1>2, SameForest
<1>4. AllEnded(tk, g)
  <2>1. \A i \in 1..Len(inf) : g[i].end = inf[i].end
    BY DEF SameTree
  <2>2. 1 \in 1..Len(inf) /\ Len(g) = Len(inf) /\ \A i \in 2..Len(inf) : i \in 1..Len(inf)
    BY <1>1 DEF SameTree
  <2>3. AllEnded(tk, inf)
    BY DEF TreeDone
  <2> QED
    BY <2>1, <2>2, <2>3 DEF AllEnded
<1>5. AllNoted(tk, g, << >>, Len(tk) + 1)
  <2>1. AllNoted(tk, inf, << >>, Len(tk) + 1)
    BY DEF TreeDone
  <2> QED
    BY <1>1, <1>2, <2>1, SameNoted DEF AllNoted
<1>6. Balanced(tk, g, << >>, Len(tk) + 1)
  BY <1>1, <1>2, SameBalanced DEF TreeDone
<1>7. \A i, k : Innermost(g, i, k) <=> Innermost(inf, i, k)
  BY <1>1, <1>2, SameSpans
<1> QED
  BY <1>3, <1>4, <1>5, <1>6, <1>7 DEF TreeDone

-------------------------------------------------------------------------------
(* Looking things up. *)

(* A bounded set of numbers has a greatest one.                               *)
LEMMA GreatestNumber ==
  ASSUME NEW n \in Nat, NEW S \in SUBSET (0..n), S # {}
  PROVE  /\ Max(S) \in S /\ \A y \in S : y <= Max(S)
<1> DEFINE T == { n - y : y \in S }
<1>1. T \subseteq Nat /\ T # {}
  OBVIOUS
<1>2. \A y \in S : y \in Nat /\ y <= n /\ n - y \in T
  OBVIOUS
<1>3. \A t \in T : \E y \in S : t = n - y
  OBVIOUS
<1> HIDE DEF T
<1>4. PICK t \in T : \A u \in T : t <= u
  BY <1>1, LeastNumber
<1>5. PICK x \in S : t = n - x
  BY <1>3
<1>6. \A y \in S : x >= y
  <2> TAKE y \in S
  <2>1. t <= n - y /\ y \in Nat /\ x \in Nat
    BY <1>2, <1>4
  <2> QED
    BY <1>5, <2>1
<1>7. \E z \in S : \A y \in S : z >= y
  BY <1>6
<1> DEFINE m == CHOOSE z \in S : \A y \in S : z >= y
<1>8. m \in S /\ \A y \in S : m >= y
  BY <1>7, Zenon
<1>9. Max(S) = m
  BY Zenon DEF Max
<1> HIDE DEF m
<1>10. \A y \in S : y <= m
  <2> TAKE y \in S
  <2>1. m >= y /\ y \in Nat /\ m \in Nat
    BY <1>2, <1>8
  <2> QED
    BY <2>1
<1> QED
  BY <1>8, <1>9, <1>10

(* Min is the least element.                                                  *)
LEMMA MinIsLeast ==
  ASSUME NEW S, S \subseteq Nat, S # {}
  PROVE  Min(S) \in S /\ \A y \in S : Min(S) <= y
<1>1. \E x \in S : \A y \in S : x <= y
  BY LeastNumber
<1> DEFINE m == CHOOSE z \in S : \A y \in S : z <= y
<1>2. m \in S /\ \A y \in S : m <= y
  BY <1>1, Zenon
<1>3. Min(S) = m
  BY Zenon DEF Min
<1> HIDE DEF m
<1> QED
  BY <1>2, <1>3

(* The entry a table lookup returns has the name that was looked up.          *)
LEMMA FirstIs ==
  ASSUME NEW S, NEW table \in Seq(S), NEW name, Knows(table, name)
  PROVE  \E k \in 1..Len(table) : First(table, name) = table[k] /\ table[k].name = name
<1> DEFINE T == { k \in DOMAIN table : table[k].name = name }
           P(k) == table[k].name = name /\ \A j \in 1..(k - 1) : table[j].name # name
<1>1. DOMAIN table = 1..Len(table) /\ Len(table) \in Nat
  OBVIOUS
<1>2. T \subseteq Nat /\ T # {}
  BY <1>1 DEF Knows
<1>3. PICK x \in T : \A y \in T : x <= y
  BY <1>2, LeastNumber
<1>4. x \in DOMAIN table /\ table[x].name = name
  BY <1>3
<1>5. ASSUME NEW j \in 1..(x - 1) PROVE table[j].name # name
  <2>1. j \in DOMAIN table /\ ~ (x <= j)
    BY <1>1, <1>4
  <2> QED
    BY <1>3, <2>1
<1>6. \E k \in DOMAIN table : P(k)
  BY <1>4, <1>5
<1> DEFINE c == CHOOSE k \in DOMAIN table : P(k)
<1>7. c \in DOMAIN table /\ P(c)
  BY <1>6, Zenon
<1>8. First(table, name) = table[c]
  BY Zenon DEF First
<1> HIDE DEF c
<1> QED
  BY <1>1, <1>7, <1>8

(* The chain of scopes is a recursive function; it exists because a scope's   *)
(* number is smaller than the block's.                                        *)
Chains(inf, f) ==
  f = [s \in 0..Len(inf) |-> IF s = None THEN {} ELSE {s} \union f[inf[s].scope]]

ChainsUpto(inf, n, f) ==
  \A s \in 0..n : f[s] = IF s = None THEN {} ELSE {s} \union f[inf[s].scope]

ScopesBelow(inf) == \A s \in 1..Len(inf) : inf[s].scope \in 0..(s - 1)

(* The recursive function in Scopes is defined.                               *)
LEMMA ChainsExist ==
  ASSUME NEW inf, Len(inf) \in Nat, ScopesBelow(inf)
  PROVE  \E f : Chains(inf, f)
<1> DEFINE T == { n \in Nat : n <= Len(inf) =>
                    \E f \in [0..n -> SUBSET Nat] : ChainsUpto(inf, n, f) }
<1>1. 0 \in T
  <2> DEFINE f == [s \in 0..0 |-> {}]
  <2>1. f \in [0..0 -> SUBSET Nat] /\ f[0] = {}
    OBVIOUS
  <2> HIDE DEF f
  <2>2. ChainsUpto(inf, 0, f)
    BY <2>1 DEF ChainsUpto, None
  <2>3. \E h \in [0..0 -> SUBSET Nat] : ChainsUpto(inf, 0, h)
    BY <2>1, <2>2
  <2> QED
    BY <2>3
<1>2. ASSUME NEW n \in T PROVE n + 1 \in T
  <2>1. n \in Nat
    OBVIOUS
  <2>2. ASSUME n + 1 <= Len(inf)
        PROVE  \E g \in [0..(n + 1) -> SUBSET Nat] : ChainsUpto(inf, n + 1, g)
    <3>1. PICK f \in [0..n -> SUBSET Nat] : ChainsUpto(inf, n, f)
      BY <2>1, <2>2
    <3> DEFINE x == {n + 1} \union f[inf[n + 1].scope]
               g == [s \in 0..(n + 1) |-> IF s = n + 1 THEN x ELSE f[s]]
    <3> HIDE DEF T
    <3>2. inf[n + 1].scope \in 0..n
      <4>1. n + 1 \in 1..Len(inf) /\ (n + 1) - 1 = n
        BY <2>1, <2>2
      <4>2. inf[n + 1].scope \in 0..((n + 1) - 1)
        BY <4>1 DEF ScopesBelow
      <4> QED
        BY <4>1, <4>2
    <3>3. x \in SUBSET Nat
      BY <2>1, <3>2
    <3>4. x = {n + 1} \union f[inf[n + 1].scope]
      OBVIOUS
    <3> HIDE DEF x
    <3>5. g \in [0..(n + 1) -> SUBSET Nat]
      BY <2>1, <3>3
    <3>6. g[n + 1] = x /\ \A s \in 0..n : g[s] = f[s]
      BY <2>1
    <3> HIDE DEF g
    <3>7. ASSUME NEW s \in 0..(n + 1)
          PROVE  g[s] = IF s = None THEN {} ELSE {s} \union g[inf[s].scope]
      <4>1. CASE s = n + 1
        <5>1. s # None
          BY <2>1, <4>1 DEF None
        <5>2. g[inf[s].scope] = f[inf[n + 1].scope]
          BY <3>2, <3>6, <4>1
        <5> QED
          BY <3>4, <3>6, <4>1, <5>1, <5>2
      <4>2. CASE s # n + 1
        <5>1. s \in 0..n
          BY <2>1, <4>2
        <5>2. g[s] = IF s = None THEN {} ELSE {s} \union f[inf[s].scope]
          BY <3>1, <3>6, <5>1 DEF ChainsUpto
        <5>3. s # None => inf[s].scope \in 0..n
          <6> SUFFICES ASSUME s # None PROVE inf[s].scope \in 0..n
            OBVIOUS
          <6>1. s \in 1..Len(inf)
            BY <2>1, <2>2, <5>1 DEF None
          <6>2. inf[s].scope \in 0..(s - 1)
            BY <6>1 DEF ScopesBelow
          <6> QED
            BY <2>1, <5>1, <6>2
        <5> QED
          BY <3>6, <5>2, <5>3
      <4> QED
        BY <4>1, <4>2
    <3>8. ChainsUpto(inf, n + 1, g)
      BY <3>7 DEF ChainsUpto
    <3> QED
      BY <3>5, <3>8
  <2> QED
    BY <2>1, <2>2
<1>3. T = Nat
  <2>1. T \subseteq Nat
    OBVIOUS
  <2> HIDE DEF T
  <2> QED
    BY <1>1, <1>2, <2>1, AllNumbers
<1>4. PICK f \in [0..Len(inf) -> SUBSET Nat] : ChainsUpto(inf, Len(inf), f)
  <2>1. Len(inf) \in T
    BY <1>3
  <2> QED
    BY <2>1
<1>5. f = [s \in 0..Len(inf) |-> IF s = None THEN {} ELSE {s} \union f[inf[s].scope]]
  BY <1>4 DEF ChainsUpto
<1> QED
  BY <1>5 DEF Chains

(* A chain of scopes holds the block itself and no greater one.               *)
LEMMA ChainsBelow ==
  ASSUME NEW inf, Len(inf) \in Nat, ScopesBelow(inf), NEW f, Chains(inf, f)
  PROVE  \A s \in 1..Len(inf) : s \in f[s] /\ f[s] \subseteq 1..s
<1>1. f[0] = {} /\ \A s \in 1..Len(inf) : f[s] = {s} \union f[inf[s].scope]
  <2>1. \A s \in 0..Len(inf) : f[s] = IF s = 0 THEN {} ELSE {s} \union f[inf[s].scope]
    BY DEF Chains, None
  <2>2. 0 \in 0..Len(inf)
    OBVIOUS
  <2>3. f[0] = {}
    BY <2>1, <2>2, Zenon
  <2>4. ASSUME NEW s \in 1..Len(inf) PROVE f[s] = {s} \union f[inf[s].scope]
    <3>1. s \in 0..Len(inf) /\ s # 0
      OBVIOUS
    <3> QED
      BY <2>1, <3>1, Zenon
  <2> QED
    BY <2>3, <2>4
<1> DEFINE T == { n \in Nat : \A s \in 0..n : s <= Len(inf) => f[s] \subseteq 1..s }
<1>2. 0 \in T
  <2>1. \A s \in 0..0 : s = 0
    OBVIOUS
  <2> QED
    BY <1>1, <2>1
<1>3. ASSUME NEW n \in T PROVE n + 1 \in T
  <2>1. n \in Nat /\ \A s \in 0..n : s <= Len(inf) => f[s] \subseteq 1..s
    OBVIOUS
  <2>2. ASSUME n + 1 <= Len(inf) PROVE f[n + 1] \subseteq 1..(n + 1)
    <3>1. n + 1 \in 1..Len(inf) /\ (n + 1) - 1 = n
      BY <2>1, <2>2
    <3>2. inf[n + 1].scope \in 0..((n + 1) - 1)
      BY <3>1 DEF ScopesBelow
    <3>3. f[inf[n + 1].scope] \subseteq 1..inf[n + 1].scope
      BY <2>1, <2>2, <3>1, <3>2
    <3>4. f[n + 1] = {n + 1} \union f[inf[n + 1].scope]
      BY <1>1, <2>1, <2>2, <3>1
    <3> QED
      BY <2>1, <3>1, <3>2, <3>3, <3>4
  <2>3. \A s \in 0..(n + 1) : s = n + 1 \/ s \in 0..n
    BY <2>1
  <2>4. \A s \in 0..(n + 1) : s <= Len(inf) => f[s] \subseteq 1..s
    BY <2>1, <2>2, <2>3
  <2> QED
    BY <2>1, <2>4
<1>4. T = Nat
  <2>1. T \subseteq Nat
    OBVIOUS
  <2> HIDE DEF T
  <2> QED
    BY <1>2, <1>3, <2>1, AllNumbers
<1> SUFFICES ASSUME NEW s \in 1..Len(inf) PROVE s \in f[s] /\ f[s] \subseteq 1..s
  OBVIOUS
<1>5. s \in T /\ s \in 0..s /\ s <= Len(inf)
  BY <1>4
<1>6. f[s] \subseteq 1..s
  BY <1>5
<1>7. s \in f[s]
  BY <1>1
<1> QED
  BY <1>6, <1>7

(* A block is the innermost of its scopes.                                    *)
LEMMA ScopesAre ==
  ASSUME NEW tk \in Seq(STRING), Forest(tk, infos), NEW c \in 1..Len(infos)
  PROVE  c \in Scopes(c) /\ Scopes(c) \subseteq 1..c
<1>1. Len(infos) \in Nat /\ infos[1].scope = None
  BY DEF Forest
<1>2. ScopesBelow(infos)
  <2> SUFFICES ASSUME NEW s \in 1..Len(infos) PROVE infos[s].scope \in 0..(s - 1)
    BY DEF ScopesBelow
  <2>1. CASE s = 1
    BY <1>1, <2>1 DEF None
  <2>2. CASE s # 1
    <3>1. s \in 2..Len(infos)
      BY <1>1, <2>2
    <3>2. infos[s].scope \in 1..(s - 1)
      BY <3>1, ScopeBelow
    <3> QED
      BY <3>2
  <2> QED
    BY <2>1, <2>2
<1> DEFINE f == CHOOSE h : Chains(infos, h)
<1>3. Chains(infos, f)
  BY <1>1, <1>2, ChainsExist
<1>4. Scopes(c) = f[c]
  BY DEF Scopes, Chains
<1> HIDE DEF f
<1> QED
  BY <1>1, <1>2, <1>3, <1>4, ChainsBelow

(* The block that begins at a brace: the root's begin is position 1.          *)
LEMMA FindBlockIs ==
  ASSUME toks \in Seq(STRING), TreeDone(toks, infos),
         NEW k \in 1..Len(toks), toks[k] = Opener
  PROVE  /\ FindBlock(k) \in 1..Len(infos) /\ infos[FindBlock(k)].begin = k
         /\ k # 1 => FindBlock(k) \in 2..Len(infos)
         /\ k = 1 => FindBlock(k) = 1
<1>1. /\ infos \in Seq(LoadBlockInfo) /\ Len(infos) \in Nat /\ Len(infos) >= 1
      /\ infos[1].begin = 1 /\ k \in Nat /\ k < Len(toks) + 1 /\ Len(toks) \in Nat
  BY DEF TreeDone, Forest
<1>2. DOMAIN infos = 1..Len(infos)
  BY <1>1
<1> DEFINE S == { i \in DOMAIN infos : infos[i].begin = k }
<1>3. PICK i \in 2..Len(infos) : infos[i].begin = k
  <2>1. k \in 1..((Len(toks) + 1) - 1)
    BY <1>1
  <2>2. Noted(toks, infos, << >>, k)
    BY <2>1 DEF TreeDone, AllNoted
  <2> QED
    BY <2>2 DEF Noted
<1>4. S \subseteq Nat /\ S # {} /\ \A j \in S : j \in 1..Len(infos) /\ infos[j].begin = k
  <2>1. i \in 1..Len(infos)
    BY <1>1
  <2> QED
    BY <1>2, <1>3, <2>1
<1>5. k = 1 => 1 \in S
  BY <1>1, <1>2
<1>6. FindBlock(k) = Min(S)
  BY DEF FindBlock
<1> HIDE DEF S
<1>7. Min(S) \in S /\ \A y \in S : Min(S) <= y
  BY <1>4, MinIsLeast
<1>8. Min(S) \in 1..Len(infos) /\ infos[Min(S)].begin = k
  BY <1>4, <1>7
<1>9. k # 1 => Min(S) \in 2..Len(infos)
  BY <1>1, <1>8
<1>10. k = 1 => Min(S) = 1
  <2> SUFFICES ASSUME k = 1 PROVE Min(S) = 1
    OBVIOUS
  <2>1. Min(S) <= 1
    BY <1>5, <1>7
  <2> QED
    BY <1>1, <1>8, <2>1
<1> QED
  BY <1>6, <1>8, <1>9, <1>10

(* The scopes that know a name, and the innermost of them.                    *)
LEMMA KnowingScopes ==
  ASSUME toks \in Seq(STRING), Forest(toks, infos), NEW c \in 1..Len(infos),
         NEW S \in SUBSET Scopes(c), S # {}
  PROVE  /\ Max(S) \in S /\ Max(S) \in 1..Len(infos)
         /\ c \in S => Max(S) = c
<1>1. Len(infos) \in Nat
  BY DEF Forest
<1>2. c \in Scopes(c) /\ Scopes(c) \subseteq 1..c
  BY ScopesAre
<1>3. S \in SUBSET (0..Len(infos)) /\ S \subseteq 1..c
  BY <1>1, <1>2
<1>4. Max(S) \in S /\ \A y \in S : y <= Max(S)
  BY <1>1, <1>3, GreatestNumber
<1>5. Max(S) \in 1..c
  BY <1>3, <1>4
<1> QED
  BY <1>1, <1>4, <1>5

(* The definition a name finds fits the forest.                               *)
LEMMA FindDefIs ==
  ASSUME toks \in Seq(STRING), Forest(toks, infos), Cur \in 1..Len(infos),
         NEW name, DefScopes(name) # {}
  PROVE  /\ Max(DefScopes(name)) \in DefScopes(name)
         /\ DefFits(toks, infos, Max(DefScopes(name)), FindDef(name))
         /\ FindDef(name).name = name
         /\ FindDef(name).block \in 2..Len(infos) /\ FindDef(name).block \in 1..Len(infos)
         /\ Cur \in DefScopes(name) => Max(DefScopes(name)) = Cur
<1> DEFINE i == Max(DefScopes(name))
           t == infos[i].defs
<1>1. DefScopes(name) \in SUBSET Scopes(Cur)
  BY DEF DefScopes
<1>2. /\ i \in DefScopes(name) /\ i \in 1..Len(infos)
      /\ Cur \in DefScopes(name) => i = Cur
  BY <1>1, KnowingScopes
<1>3. Knows(t, name)
  BY <1>2 DEF DefScopes
<1>4. FindDef(name) = First(t, name)
  BY DEF FindDef
<1>5. t \in Seq([name : STRING, block : Nat]) /\ DefsFit(toks, infos, i)
      /\ Len(infos) \in Nat
  BY <1>2, InfoFields DEF Forest
<1>6. PICK k \in 1..Len(t) : First(t, name) = t[k] /\ t[k].name = name
  <2> HIDE DEF t
  <2> QED
    BY <1>3, <1>5, FirstIs
<1>7. DefFits(toks, infos, i, t[k])
  BY <1>5, <1>6 DEF DefsFit
<1>8. t[k].block \in 2..Len(infos)
  BY <1>7 DEF DefFits
<1>9. t[k].block \in 1..Len(infos)
  <2> DEFINE c == t[k].block
             n == Len(infos)
  <2>1. c \in 2..n /\ n \in Nat
    BY <1>5, <1>8
  <2> HIDE DEF c, n
  <2>2. c \in 1..n
    BY <2>1
  <2> QED
    BY <2>2 DEF c, n
<1> QED
  BY <1>2, <1>4, <1>6, <1>7, <1>8, <1>9

(* The variable a name finds has a number.                                    *)
LEMMA FindVarIs ==
  ASSUME toks \in Seq(STRING), Forest(toks, infos), Cur \in 1..Len(infos),
         NEW name, VarScopes(name) # {}
  PROVE  FindVar(name).var \in Nat
<1> DEFINE i == Max(VarScopes(name))
           t == infos[i].vars
<1>1. VarScopes(name) \in SUBSET Scopes(Cur)
  BY DEF VarScopes
<1>2. i \in VarScopes(name) /\ i \in 1..Len(infos)
  BY <1>1, KnowingScopes
<1>3. Knows(t, name)
  BY <1>2 DEF VarScopes
<1>4. FindVar(name) = First(t, name)
  BY DEF FindVar
<1>5. t \in Seq([name : STRING, var : Nat])
  BY <1>2, InfoFields DEF Forest
<1> HIDE DEF t
<1>6. PICK k \in 1..Len(t) : First(t, name) = t[k]
  BY <1>3, <1>5, FirstIs
<1>7. t[k] \in [name : STRING, var : Nat]
  BY <1>5, ElementOfSeq
<1> QED
  BY <1>4, <1>6, <1>7

(* The braces a position lies inside are those of the blocks that span it.    *)
LEMMA AroundIsSpan ==
  ASSUME toks \in Seq(STRING), TreeDone(toks, infos),
         NEW k \in 1..Len(toks), NEW j \in Around(k)
  PROVE  j \in 1..(k - 1) /\ \E b \in 2..Len(infos) : infos[b].begin = j /\ Spans(infos, b, k)
<1>1. /\ Forest(toks, infos) /\ Ended(infos) /\ Len(infos) \in Nat /\ Len(toks) \in Nat
      /\ k \in Nat
  BY DoneEnded DEF TreeDone, Forest
<1>2. ASSUME NEW b \in 2..Len(infos)
      PROVE  /\ infos[b].begin \in 1..Len(toks) /\ infos[b].begin \in Nat
             /\ toks[infos[b].begin] = Opener
             /\ infos[b].end \in Nat /\ infos[b].end # None
             /\ infos[b].begin < infos[b].end
             /\ OpenFrom(toks, infos[b].begin, infos[b].end)
             /\ Rise(toks, infos[b].begin, infos[b].end) = 0
             /\ b \in 1..Len(infos) /\ b # 1
  <2>1. /\ infos[b].begin \in 1..Len(toks) /\ toks[infos[b].begin] = Opener
        /\ infos[b].end \in Nat /\ infos[b].end # None /\ infos[b].begin < infos[b].end
    BY <1>1, InForest DEF Ended
  <2>2. /\ OpenFrom(toks, infos[b].begin, infos[b].end)
        /\ Rise(toks, infos[b].begin, infos[b].end) = 0
    BY <2>1 DEF TreeDone, Balanced
  <2> QED
    BY <1>1, <2>1, <2>2
<1>3. Around(k) = { i \in 1..(k - 1) :
                      toks[i] = Opener /\ \A m \in i..(k - 1) : Rise(toks, i, m) > 0 }
  BY OpeningIs DEF Around, Opener
<1>4. /\ j \in 1..(k - 1) /\ toks[j] = Opener
      /\ \A m \in j..(k - 1) : Rise(toks, j, m) > 0
  BY <1>3
<1>5. PICK b \in 2..Len(infos) : infos[b].begin = j
  <2>1. j \in 1..((Len(toks) + 1) - 1)
    BY <1>1, <1>4
  <2>2. Noted(toks, infos, << >>, j)
    BY <2>1 DEF TreeDone, AllNoted
  <2> QED
    BY <1>4, <2>2 DEF Noted
<1>6. ~ (infos[b].end < k)
  <2> SUFFICES ASSUME infos[b].end < k PROVE FALSE
    OBVIOUS
  <2>1. infos[b].end \in j..(k - 1)
    <3>1. infos[b].end \in Nat /\ infos[b].begin < infos[b].end
      BY <1>2
    <3> QED
      BY <1>1, <1>4, <1>5, <3>1
  <2>2. Rise(toks, j, infos[b].end) > 0 /\ Rise(toks, j, infos[b].end) = 0
    BY <1>2, <1>4, <1>5, <2>1
  <2> QED
    BY <2>2
<1>7. infos[b].begin < k /\ k <= infos[b].end
  <2>1. infos[b].end \in Nat
    BY <1>2
  <2> QED
    BY <1>1, <1>4, <1>5, <1>6, <2>1
<1>8. Spans(infos, b, k)
  BY <1>7 DEF Spans
<1> QED
  BY <1>4, <1>5, <1>8

(* So the owner of a position is where the innermost of them begins.          *)
LEMMA OwnerIs ==
  ASSUME toks \in Seq(STRING), TreeDone(toks, infos),
         NEW k \in 1..Len(toks), NEW i, Innermost(infos, i, k)
  PROVE  /\ i = 1 => Owner(k) = Nowhere
         /\ i # 1 => Owner(k) = infos[i].begin
<1>1. /\ Forest(toks, infos) /\ Ended(infos) /\ Len(infos) \in Nat /\ Len(toks) \in Nat
      /\ k \in Nat /\ i \in 1..Len(infos) /\ Spans(infos, i, k)
      /\ \A j \in 1..Len(infos) : Spans(infos, j, k) => j <= i
  BY DoneEnded DEF TreeDone, Forest, Innermost
<1>2. ASSUME NEW b \in 2..Len(infos)
      PROVE  /\ infos[b].begin \in 1..Len(toks) /\ infos[b].begin \in Nat
             /\ toks[infos[b].begin] = Opener
             /\ infos[b].end \in Nat /\ infos[b].end # None
             /\ infos[b].begin < infos[b].end
             /\ OpenFrom(toks, infos[b].begin, infos[b].end)
             /\ Rise(toks, infos[b].begin, infos[b].end) = 0
             /\ b \in 1..Len(infos) /\ b # 1
  <2>1. /\ infos[b].begin \in 1..Len(toks) /\ toks[infos[b].begin] = Opener
        /\ infos[b].end \in Nat /\ infos[b].end # None /\ infos[b].begin < infos[b].end
    BY <1>1, InForest DEF Ended
  <2>2. /\ OpenFrom(toks, infos[b].begin, infos[b].end)
        /\ Rise(toks, infos[b].begin, infos[b].end) = 0
    BY <2>1 DEF TreeDone, Balanced
  <2> QED
    BY <1>1, <2>1, <2>2
<1>3. Around(k) = { j \in 1..(k - 1) :
                      toks[j] = Opener /\ \A m \in j..(k - 1) : Rise(toks, j, m) > 0 }
  BY OpeningIs DEF Around, Opener
<1>4. ASSUME NEW j \in Around(k)
      PROVE  j \in 1..(k - 1) /\ \E b \in 2..Len(infos) : infos[b].begin = j /\ Spans(infos, b, k)
  BY AroundIsSpan
<1>5. Around(k) \union {Nowhere} \in SUBSET (0..k)
  <2>1. Around(k) \subseteq 0..k
    BY <1>1, <1>4
  <2>2. Nowhere \in 0..k
    BY <1>1 DEF Nowhere
  <2> QED
    BY <2>1, <2>2
<1> DEFINE S == Around(k) \union {Nowhere}
<1>6. Owner(k) = Max(S) /\ S # {}
  BY DEF Owner
<1>7. Max(S) \in S /\ \A y \in S : y <= Max(S)
  <2> HIDE DEF S
  <2>1. S \in SUBSET (0..k)
    BY <1>5 DEF S
  <2> QED
    BY <1>1, <1>6, <2>1, GreatestNumber
<1>8. ASSUME i = 1 PROVE Max(S) = Nowhere
  <2>1. Around(k) = {}
    <3> SUFFICES ASSUME NEW j \in Around(k) PROVE FALSE
      OBVIOUS
    <3>1. PICK b \in 2..Len(infos) : Spans(infos, b, k)
      BY <1>4
    <3>2. b <= 1
      BY <1>1, <1>2, <1>8, <3>1
    <3> QED
      BY <1>1, <3>1, <3>2
  <2> QED
    BY <1>7, <2>1
<1>9. ASSUME i # 1 PROVE Max(S) = infos[i].begin
  <2>1. i \in 2..Len(infos)
    BY <1>1, <1>9
  <2> DEFINE b == infos[i].begin
             e == infos[i].end
  <2>2. /\ b \in Nat /\ e \in Nat /\ e # None /\ b >= 1 /\ b < k /\ k <= e /\ toks[b] = Opener
        /\ OpenFrom(toks, b, e)
    <3>1. /\ b \in 1..Len(toks) /\ b \in Nat /\ e \in Nat /\ e # None /\ toks[b] = Opener
          /\ OpenFrom(toks, b, e)
      BY <1>2, <2>1
    <3>2. b < k /\ k <= e
      BY <1>1, <1>9, <3>1 DEF Spans
    <3> QED
      BY <3>1, <3>2
  <2>3. ASSUME NEW m \in b..(k - 1) PROVE Rise(toks, b, m) > 0
    <3>1. m \in b..(e - 1)
      BY <1>1, <2>2
    <3> QED
      BY <2>2, <3>1 DEF OpenFrom
  <2>4. b \in Around(k)
    <3>1. b \in 1..(k - 1)
      BY <1>1, <2>2
    <3> QED
      BY <1>3, <2>2, <2>3, <3>1
  <2>5. b <= Max(S)
    BY <1>7, <2>4
  <2>6. Max(S) <= b
    <3>1. CASE Max(S) = Nowhere
      BY <2>2, <3>1 DEF Nowhere
    <3>2. CASE Max(S) # Nowhere
      <4>1. Max(S) \in Around(k)
        BY <1>7, <3>2
      <4>2. PICK c \in 2..Len(infos) : infos[c].begin = Max(S) /\ Spans(infos, c, k)
        BY <1>4, <4>1
      <4>3. c <= i
        BY <1>1, <1>2, <4>2
      <4>4. c = i \/ infos[c].begin < infos[i].begin
        <5>1. c < i => infos[c].begin < infos[i].begin
          BY <1>1, <2>1, InOrderOfBegin
        <5> QED
          BY <1>1, <4>3, <5>1
      <4>5. infos[c].begin \in Nat
        BY <1>2
      <4> QED
        BY <2>2, <4>2, <4>4, <4>5
    <3> QED
      BY <3>1, <3>2
  <2>7. Max(S) \in Nat
    BY <1>5, <1>7
  <2> HIDE DEF S, b, e
  <2>8. Max(S) = b
    BY <2>2, <2>5, <2>6, <2>7
  <2> QED
    BY <2>8 DEF b
<1> QED
  BY <1>6, <1>8, <1>9

-------------------------------------------------------------------------------
(* What well-formed sources give. *)

(* A token that defines a name is no brace.                                   *)
LEMMA DefNoBrace == \A t \in DOMAIN DefOf : t \notin Braces
<1>1. {"{", "}"} \intersect DOMAIN DefOf = {}
  BY Zenon, WordsAssumption
<1> QED
  BY <1>1, Zenon DEF Braces, Opener, Closer

(* A word that is not structural is no brace.                                 *)
LEMMA PlainNoBrace == \A t : t \notin Structural => t \notin Braces
  BY Zenon DEF Structural, Braces, Opener, Closer

(* The name in front of a block finds the definition it is part of: another   *)
(* one of that name would be owned by the same block.                         *)
LEMMA DefIsHere ==
  ASSUME toks \in Seq(STRING), TreeDone(toks, infos), WellFormed,
         p \in 1..Len(toks), Tok \in DOMAIN DefOf, Innermost(infos, Cur, p)
  PROVE  DefHere
<1> DEFINE name == DefOf[Tok]
           d == FindDef(name)
           b == infos[d.block].begin
<1>1. /\ Forest(toks, infos) /\ Ended(infos) /\ Len(infos) \in Nat /\ Len(toks) \in Nat
      /\ p \in Nat /\ p + 1 \in Nat /\ p >= 1 /\ p <= Len(toks) /\ Cur \in 1..Len(infos)
  BY DoneEnded DEF TreeDone, Forest, Innermost
<1>2. Tok = toks[p] /\ toks[p] \notin Braces
  BY DefNoBrace DEF Tok
<1>3. Innermost(infos, Cur, p + 1)
  BY <1>1, <1>2, StepInnermost
<1>4. PICK c \in 2..Len(infos) :
        infos[c].begin = p + 1 /\ NameKept(infos, << >>, c, name)
  <2>1. p \in 1..((Len(toks) + 1) - 1)
    BY <1>1
  <2>2. Noted(toks, infos, << >>, p)
    BY <2>1 DEF TreeDone, AllNoted
  <2> QED
    BY <1>2, <2>2 DEF Noted
<1>5. infos[c].scope = Cur
  <2>1. Innermost(infos, infos[c].scope, p + 1)
    BY <1>1, <1>4, InForest
  <2> QED
    BY <1>1, <1>3, <2>1, OneInnermost
<1>6. Knows(infos[Cur].defs, name)
  <2>1. PICK x \in 1..Len(infos[Cur].defs) :
          infos[Cur].defs[x] = [name |-> name, block |-> c]
    BY <1>1, <1>4, <1>5 DEF NameKept, Ended
  <2>2. infos[Cur].defs \in Seq([name : STRING, block : Nat])
    BY <1>1, InfoFields DEF Forest
  <2>3. x \in DOMAIN infos[Cur].defs
    BY <2>1, <2>2
  <2>4. infos[Cur].defs[x].name = name
    BY <2>1
  <2> QED
    BY <2>3, <2>4 DEF Knows
<1>7. Cur \in DefScopes(name)
  BY <1>1, <1>6, ScopesAre DEF DefScopes
<1>8. /\ DefFits(toks, infos, Cur, d) /\ d.name = name
      /\ d.block \in 2..Len(infos)
  BY <1>1, <1>7, FindDefIs
<1> HIDE DEF d, name
<1>9. /\ infos[d.block].scope = Cur /\ HasName(toks, b) /\ name = NameOf(toks, b)
      /\ b \in 1..Len(toks) /\ Innermost(infos, Cur, b)
  <2>1. infos[d.block].scope = Cur /\ HasName(toks, b) /\ name = NameOf(toks, b)
    BY <1>8 DEF DefFits
  <2>2. b \in 1..Len(toks) /\ Innermost(infos, infos[d.block].scope, b)
    BY <1>1, <1>8, InForest
  <2> QED
    BY <2>1, <2>2
<1> DEFINE k == b - 1
<1>10. k \in 1..Len(toks) /\ toks[k] \in DOMAIN DefOf /\ DefOf[toks[k]] = name
  BY <1>9 DEF HasName, NameOf
<1>11. toks[k] = toks[p]
  BY <1>2, <1>10, Zenon, WordsAssumption DEF name
<1>12. k \in Nat /\ k + 1 = b
  <2>1. b \in Nat
    BY <1>9
  <2>2. b - 1 \in 1..Len(toks)
    BY <1>10
  <2> HIDE DEF b
  <2> QED
    BY <2>1, <2>2
<1>13. Innermost(infos, Cur, k)
  <2>1. toks[k] \notin Braces
    BY <1>10, DefNoBrace
  <2> QED
    BY <1>1, <1>9, <1>12, <2>1, StepInnermost
<1> HIDE DEF k, b
<1>14. Owner(k) = Owner(p)
  BY <1>10, <1>13, OwnerIs
<1>15. k = p
  <2>1. \A i, j \in 1..Len(toks) :
          i # j /\ toks[i] = toks[j] /\ Defines(i) => Owner(i) # Owner(j)
    BY DEF WellFormed
  <2>2. Defines(k) /\ p \in 1..Len(toks)
    BY <1>10 DEF Defines
  <2> QED
    BY <1>10, <1>11, <1>14, <2>1, <2>2
<1>16. b = p + 1
  BY <1>12, <1>15
<1>17. DefScopes(DefOf[Tok]) # {} /\ infos[FindDef(DefOf[Tok]).block].begin = p + 1
  BY <1>7, <1>16 DEF b, d, name
<1> QED
  BY <1>17 DEF DefHere

(* A list of variables ends, and holds no brace.                              *)
LEMMA ListIsClosed ==
  ASSUME toks \in Seq(STRING), ListsHoldNames, p \in 1..Len(toks), toks[p] = "["
  PROVE  /\ ListEnds # {}
         /\ NoBrace(toks, p, Min(ListEnds) + 1)
<1>1. Len(toks) \in Nat /\ p \in Nat
  OBVIOUS
<1>2. PICK r \in (p + 1)..Len(toks) :
        toks[r] = "]" /\ \A k \in (p + 1)..(r - 1) : toks[k] \notin Structural
  BY Zenon DEF ListsHoldNames
<1>3. r \in ListEnds /\ ListEnds \subseteq (p + 1)..Len(toks)
  BY <1>2 DEF ListEnds
<1> DEFINE close == Min(ListEnds)
<1>4. close \in (p + 1)..Len(toks) /\ close <= r /\ toks[close] = "]"
  <2>1. ListEnds \subseteq Nat /\ ListEnds # {}
    BY <1>1, <1>3
  <2>2. close \in ListEnds /\ \A y \in ListEnds : close <= y
    BY <2>1, MinIsLeast
  <2> QED
    BY <1>3, <2>2 DEF ListEnds
<1> HIDE DEF close
<1>5. ASSUME NEW k \in p..((close + 1) - 1) PROVE toks[k] \notin Braces
  <2>1. k = p \/ k = close \/ k \in (p + 1)..(r - 1)
    BY <1>1, <1>2, <1>4
  <2>2. CASE k = p
    BY <2>2, Zenon DEF Braces, Opener, Closer
  <2>3. CASE k = close
    BY <1>4, <2>3, Zenon DEF Braces, Opener, Closer
  <2>4. CASE k \in (p + 1)..(r - 1)
    BY <1>2, <2>4, PlainNoBrace
  <2> QED
    BY <2>1, <2>2, <2>3, <2>4
<1>6. NoBrace(toks, p, close + 1)
  BY <1>5 DEF NoBrace
<1> QED
  BY <1>3, <1>6 DEF close

-------------------------------------------------------------------------------
(* Where the second pass is. *)

(* A token that is no brace stays in its block.                               *)
LEMMA InsideSteps ==
  ASSUME NEW tk \in Seq(STRING), NEW inf, Forest(tk, inf), Ended(inf), NEW cs,
         NEW q \in Nat, Inside(inf, cs, q), tk[q] \notin Braces
  PROVE  Inside(inf, cs, q + 1)
  BY StepInnermost DEF Inside

(* A block is entered behind its brace.                                       *)
LEMMA InsideEnters ==
  ASSUME NEW tk \in Seq(STRING), NEW inf, Forest(tk, inf), Ended(inf), NEW cs,
         Len(cs) \in Nat, Len(cs) >= 1, NEW q, Inside(inf, cs, q), NEW b \in 2..Len(inf),
         NEW name, NEW ds, Pushed(cs, ds, b, name), ds[Len(cs) + 1].retP = q
  PROVE  Inside(inf, ds, inf[b].begin + 1)
<1>1. Innermost(inf, b, inf[b].begin + 1)
  BY EnterInnermost
<1>2. /\ Len(ds) = Len(cs) + 1 /\ ds[Len(cs) + 1].block = b
      /\ \A n \in 1..Len(cs) : ds[n] = cs[n]
  BY DEF Pushed
<1>3. ASSUME NEW n \in 2..Len(ds) PROVE Innermost(inf, ds[n - 1].block, ds[n].retP)
  <2>1. CASE n = Len(cs) + 1
    <3>1. n - 1 = Len(cs) /\ Len(cs) \in 1..Len(cs)
      BY <2>1
    <3> QED
      BY <1>2, <2>1, <3>1 DEF Inside
  <2>2. CASE n # Len(cs) + 1
    <3>1. n \in 2..Len(cs) /\ n \in 1..Len(cs) /\ n - 1 \in 1..Len(cs)
      BY <1>2, <2>2
    <3>2. Innermost(inf, cs[n - 1].block, cs[n].retP)
      BY <3>1 DEF Inside
    <3> QED
      BY <1>2, <3>1, <3>2
  <2> QED
    BY <2>1, <2>2
<1> QED
  BY <1>1, <1>2, <1>3 DEF Inside

(* At its end the load goes on with the token that asked for it.              *)
LEMMA InsideReturns ==
  ASSUME NEW inf, NEW cs, Len(cs) \in Nat, Len(cs) > 1, NEW q, Inside(inf, cs, q),
         NEW ds, Popped(cs, ds)
  PROVE  Inside(inf, ds, cs[Len(cs)].retP)
<1>1. Len(ds) = Len(cs) - 1 /\ \A n \in 1..Len(ds) : ds[n] = cs[n]
  BY DEF Popped
<1>2. Innermost(inf, ds[Len(ds)].block, cs[Len(cs)].retP)
  <2>1. Len(cs) \in 2..Len(cs) /\ Len(ds) \in 1..Len(ds)
    BY <1>1
  <2>2. Innermost(inf, cs[Len(cs) - 1].block, cs[Len(cs)].retP)
    BY <2>1 DEF Inside
  <2> QED
    BY <1>1, <2>1, <2>2
<1>3. ASSUME NEW n \in 2..Len(ds) PROVE Innermost(inf, ds[n - 1].block, ds[n].retP)
  <2>1. n \in 2..Len(cs) /\ n \in 1..Len(ds) /\ n - 1 \in 1..Len(ds)
    BY <1>1
  <2> QED
    BY <1>1, <2>1 DEF Inside
<1> QED
  BY <1>2, <1>3 DEF Inside

(* What the second pass writes to the infos does not move it.                 *)
LEMMA InsideSame ==
  ASSUME NEW tk \in Seq(STRING), NEW inf, TreeDone(tk, inf), NEW g, SameTree(inf, g),
         g[1].loaded, NEW cs, NEW q, Inside(inf, cs, q)
  PROVE  Inside(g, cs, q)
  BY DoneKept DEF Inside

-------------------------------------------------------------------------------
(* What the second pass writes. *)

(* A block is marked as loaded.                                               *)
LEMMA MarkedIs ==
  ASSUME NEW inf \in Seq(LoadBlockInfo), NEW c \in 1..Len(inf)
  PROVE  /\ SameTree(inf, [inf EXCEPT ![c].loaded = TRUE])
         /\ \A i \in 1..Len(inf) :
              inf[i].loaded \/ i = c => [inf EXCEPT ![c].loaded = TRUE][i].loaded
<1> DEFINE x == [inf[c] EXCEPT !.loaded = TRUE]
           g == [inf EXCEPT ![c] = x]
<1>1. inf[c] \in LoadBlockInfo
  BY InfoFields
<1>2. /\ x \in LoadBlockInfo /\ x.scope = inf[c].scope /\ x.begin = inf[c].begin
      /\ x.end = inf[c].end /\ x.defs = inf[c].defs /\ x.loaded
  BY <1>1 DEF LoadBlockInfo
<1>3. [inf EXCEPT ![c].loaded = TRUE] = g
  OBVIOUS
<1> HIDE DEF x
<1>4. /\ g \in Seq(LoadBlockInfo) /\ Len(g) = Len(inf) /\ g[c] = x
      /\ \A i \in 1..Len(inf) : i # c => g[i] = inf[i]
  BY <1>2, ExceptSeq
<1> HIDE DEF g
<1>5. SameTree(inf, g)
  BY <1>2, <1>4 DEF SameTree
<1>6. \A i \in 1..Len(inf) : inf[i].loaded \/ i = c => g[i].loaded
  BY <1>2, <1>4
<1> QED
  BY <1>3, <1>5, <1>6

(* A block gets variables.                                                    *)
LEMMA BoundIs ==
  ASSUME NEW inf \in Seq(LoadBlockInfo), NEW c \in 1..Len(inf),
         NEW v \in Seq([name : STRING, var : Nat])
  PROVE  /\ SameTree(inf, [inf EXCEPT ![c].vars = v])
         /\ \A i \in 1..Len(inf) : inf[i].loaded => [inf EXCEPT ![c].vars = v][i].loaded
<1> DEFINE x == [inf[c] EXCEPT !.vars = v]
           g == [inf EXCEPT ![c] = x]
<1>1. inf[c] \in LoadBlockInfo
  BY InfoFields
<1>2. /\ x \in LoadBlockInfo /\ x.scope = inf[c].scope /\ x.begin = inf[c].begin
      /\ x.end = inf[c].end /\ x.defs = inf[c].defs /\ x.loaded = inf[c].loaded
  BY <1>1 DEF LoadBlockInfo
<1>3. [inf EXCEPT ![c].vars = v] = g
  OBVIOUS
<1> HIDE DEF x
<1>4. /\ g \in Seq(LoadBlockInfo) /\ Len(g) = Len(inf) /\ g[c] = x
      /\ \A i \in 1..Len(inf) : i # c => g[i] = inf[i]
  BY <1>2, ExceptSeq
<1> HIDE DEF g
<1>5. SameTree(inf, g)
  BY <1>2, <1>4 DEF SameTree
<1>6. \A i \in 1..Len(inf) : inf[i].loaded => g[i].loaded
  BY <1>2, <1>4
<1> QED
  BY <1>3, <1>5, <1>6

(* The root ends with the text, and counts as loaded.                         *)
LEMMA RootEndedIs ==
  ASSUME NEW inf \in Seq(LoadBlockInfo), Len(inf) >= 1, NEW q \in Nat
  PROVE  LET g == [ShutInfos(inf, 1, q, NoName) EXCEPT ![1].loaded = TRUE]
         IN AlmostSame(inf, g) /\ g[1].end = q /\ g[1].loaded
<1> DEFINE e == [inf EXCEPT ![1].end = q]
           g == [e EXCEPT ![1].loaded = TRUE]
<1>1. Len(inf) \in Nat /\ 1 \in 1..Len(inf)
  OBVIOUS
<1>2. /\ e \in Seq(LoadBlockInfo) /\ Len(e) = Len(inf)
      /\ \A i \in 1..Len(inf) : SameButEnd(inf, e, 1, i) /\ e[i].defs = inf[i].defs
      /\ e[1].end = q
  BY <1>1, EndedIs
<1>3. [ShutInfos(inf, 1, q, NoName) EXCEPT ![1].loaded = TRUE] = g
  BY DEF ShutInfos
<1> HIDE DEF e
<1>4. SameTree(e, g) /\ g[1].loaded
  BY <1>1, <1>2, MarkedIs
<1> HIDE DEF g
<1>5. AlmostSame(inf, g) /\ g[1].end = q
  BY <1>1, <1>2, <1>4 DEF AlmostSame, SameTree, SameButEnd
<1> QED
  BY <1>3, <1>4, <1>5

-------------------------------------------------------------------------------
(* A list of variables in the block table. *)

(* The names of a list, the last one first.                                   *)
LEMMA NamesAreStrings ==
  ASSUME NEW s \in Seq(STRING)
  PROVE  BoundFirst(s) \in Seq(STRING) /\ Len(BoundFirst(s)) \in Nat
<1> DEFINE r == BoundFirst(s)
<1>1. r = [i \in 1..Len(s) |-> s[(Len(s) - i) + 1]]
  BY DEF BoundFirst, Reverse
<1>2. Len(s) \in Nat
  OBVIOUS
<1>3. \A i \in 1..Len(s) : s[(Len(s) - i) + 1] \in STRING
  <2> TAKE i \in 1..Len(s)
  <2>1. (Len(s) - i) + 1 \in 1..Len(s)
    BY <1>2
  <2> QED
    BY <2>1, ElementOfSeq
<1>4. r \in [1..Len(s) -> STRING]
  BY <1>1, <1>3
<1> HIDE DEF r
<1>5. r \in Seq(STRING)
  BY <1>2, <1>4, SeqDef
<1>6. Len(r) \in Nat
  BY <1>5, LenProperties
<1> QED
  BY <1>5, <1>6 DEF r

(* PopVar for each of m names, numbered from 0.                               *)
Binders(m) == [k \in 1..m |-> Inst("PopVar", k - 1)]

(* That code is proper: the variables are numbered in order.                  *)
LEMMA BindersProper ==
  ASSUME NEW m \in Nat
  PROVE  Binders(m) \in Seq(Instruction) /\ Proper(Binders(m), m) /\ Len(Binders(m)) = m
<1> DEFINE d == Binders(m)
<1>1. \A k \in 1..m : Inst("PopVar", k - 1) \in Instruction
  <2> TAKE k \in 1..m
  <2>1. k - 1 \in Nat /\ "PopVar" \in Opcodes
    BY DEF Opcodes
  <2> QED
    BY <2>1 DEF Inst, Instruction
<1>2. d \in [1..m -> Instruction] /\ \A k \in 1..m : d[k] = Inst("PopVar", k - 1)
  BY <1>1 DEF Binders
<1> HIDE DEF d
<1>3. d \in Seq(Instruction) /\ Len(d) = m
  <2>1. d \in Seq(Instruction)
    BY <1>2, SeqDef
  <2>2. DOMAIN d = 1..m
    BY <1>2
  <2> QED
    BY <2>1, <2>2, LenProperties
<1>4. \A k \in 1..m : d[k].op = "PopVar" /\ d[k].arg = k - 1
  BY <1>2 DEF Inst
<1>5. ASSUME NEW i \in 0..m PROVE Cardinality(BindersIn(d, i)) = i
  <2>1. BindersIn(d, i) = 1..i
    <3>1. \A j \in 1..i : d[j].op = "PopVar"
      BY <1>4
    <3> QED
      BY <3>1 DEF BindersIn
  <2>2. Cardinality(1..i) = IF 1 > i THEN 0 ELSE i - 1 + 1
    BY FS_Interval
  <2> QED
    BY <2>1, <2>2
<1>6. InOrder(d, m)
  <2>1. m = Cardinality(BindersIn(d, Len(d)))
    BY <1>3, <1>5
  <2>2. ASSUME NEW i \in 1..Len(d) PROVE d[i].arg = Cardinality(BindersIn(d, i - 1))
    <3>1. i - 1 \in 0..m /\ i \in 1..m
      BY <1>3
    <3> QED
      BY <1>4, <1>5, <3>1
  <2> QED
    BY <2>1, <2>2 DEF InOrder
<1>7. PlainCode(d)
  BY <1>3, <1>4 DEF PlainCode, LinkedOnly
<1> QED
  BY <1>3, <1>6, <1>7 DEF Proper, d

(* Appended to code with n variables, it is numbered from n.                  *)
LEMMA BindersShifted ==
  ASSUME NEW m \in Nat, NEW n \in Nat
  PROVE  ShiftedCode(Binders(m), n) = [k \in 1..m |-> Inst("PopVar", n + k - 1)]
<1>1. Len(Binders(m)) = m
  BY BindersProper
<1>2. ASSUME NEW k \in 1..m
      PROVE  (IF Binders(m)[k].op \in {"PopVar", "PushVar"}
              THEN [Binders(m)[k] EXCEPT !.arg = @ + n] ELSE Binders(m)[k])
               = Inst("PopVar", n + k - 1)
  <2>1. Binders(m)[k] = [op |-> "PopVar", arg |-> k - 1]
    BY DEF Binders, Inst
  <2>2. (k - 1) + n = n + k - 1
    OBVIOUS
  <2>3. [Binders(m)[k] EXCEPT !.arg = @ + n] = [op |-> "PopVar", arg |-> (k - 1) + n]
    BY <2>1
  <2>4. Binders(m)[k].op \in {"PopVar", "PushVar"}
    BY <2>1
  <2> QED
    BY <2>2, <2>3, <2>4 DEF Inst
<1> QED
  BY <1>1, <1>2, Zenon DEF ShiftedCode

(* The loader binds m names in block b at once.                               *)
LEMMA BindKeeps ==
  ASSUME TableInv, NEW b \in Blocks, NEW m \in Nat,
         LET n == blockTable[b].varCount
         IN blockTable' =
              [blockTable EXCEPT
                 ![b].code = @ \o [k \in 1..m |-> Inst("PopVar", n + k - 1)],
                 ![b].varCount = @ + m]
  PROVE  TableInv' /\ Len(blockTable') = Len(blockTable)
<1> DEFINE t == blockTable
           n == t[b].varCount
           s == [k \in 1..m |-> Inst("PopVar", n + k - 1)]
           c == t[b].code \o s
           r == WithCode(t[b], c, n + m)
<1>1. t \in Seq(BlockInfo)
  BY DEF TableInv
<1>2. Good(t) /\ b \in 1..Len(t)
  BY DEF TableInv, Blocks
<1>3. blockTable' = [t EXCEPT ![b] = r]
  BY <1>1, <1>2 DEF WithCode
<1> HIDE DEF t
<1>4. /\ t[b] \in BlockInfo
      /\ n \in Nat /\ t[b].code \in Seq(Instruction)
      /\ Proper(t[b].code, n)
  BY <1>1, <1>2, Entry
<1> HIDE DEF n
<1>5. s = ShiftedCode(Binders(m), n)
  BY <1>4, BindersShifted
<1> HIDE DEF s
<1>6. Binders(m) \in Seq(Instruction) /\ Proper(Binders(m), m) /\ Len(Binders(m)) = m
  BY BindersProper
<1>7. s \in Seq(Instruction) /\ c \in Seq(Instruction)
  <2>1. s \in Seq(Instruction)
    BY <1>4, <1>5, <1>6, Shifted
  <2> QED
    BY <1>4, <2>1, Concatenated
<1>8. Proper(c, n + m)
  BY <1>4, <1>5, <1>6, ProperInlined
<1>9. TargetsOf(c) \subseteq TargetsOf(t[b].code)
  <2>1. TargetsOf(c) = TargetsOf(t[b].code) \union TargetsOf(Binders(m))
    BY <1>4, <1>5, <1>6, TargetsInlined
  <2>2. TargetsOf(Binders(m)) = {}
    <3>1. \A j \in DOMAIN Binders(m) : Binders(m)[j].op = "PopVar"
      BY DEF Binders, Inst
    <3> QED
      BY <3>1 DEF TargetsOf, References
  <2> QED
    BY <2>1, <2>2
<1> HIDE DEF c
<1>10. /\ r \in BlockInfo /\ r.code = c /\ r.varCount = n + m
       /\ r.calleeCount = t[b].calleeCount
  <2> DEFINE k == n + m
             x == t[b]
  <2>1. r = WithCode(x, c, k)
    OBVIOUS
  <2>2. k \in Nat /\ x \in BlockInfo
    BY <1>4
  <2> HIDE DEF r, k, x
  <2>3. /\ WithCode(x, c, k) \in BlockInfo
        /\ WithCode(x, c, k).code = c
        /\ WithCode(x, c, k).varCount = k
        /\ WithCode(x, c, k).calleeCount = x.calleeCount
    BY <1>7, <2>2, Fields
  <2> QED
    BY <2>1, <2>3 DEF k, x
<1> HIDE DEF r
<1>11. blockTable' \in Seq(BlockInfo) /\ Good(blockTable')
  <2>1. \A x \in TargetsOf(r.code) : \E z \in 1..Len(t) : x \in TargetsOf(t[z].code)
    BY <1>2, <1>9, <1>10
  <2>2. [t EXCEPT ![b] = r] \in Seq(BlockInfo) /\ Good([t EXCEPT ![b] = r])
    BY <1>1, <1>2, <1>8, <1>10, <2>1, Replaced
  <2> QED
    BY <1>3, <2>2
<1>12. Len(blockTable') = Len(t)
  BY <1>1, <1>2, <1>3, <1>10, ExceptSeq
<1> QED
  BY <1>11, <1>12 DEF TableInv, t

-------------------------------------------------------------------------------
(* The steps of the loader. *)

(* The text does not change, so neither does what is said of it alone.        *)
LEMMA SameWords ==
  ASSUME toks' = toks, prior' = prior
  PROVE  /\ WellFormed' <=> WellFormed
         /\ ListsHoldNames' <=> ListsHoldNames
         /\ End' = End
<1>1. ListsHoldNames' <=> ListsHoldNames
  BY Zenon DEF ListsHoldNames
<1>2. \A k : Owner(k)' = Owner(k)
  BY DEF Owner, Around, Opening
<1>3. \A k : Defines(k)' <=> Defines(k)
  BY DEF Defines
<1>4. WellFormed' <=> WellFormed
  BY <1>1, <1>2, <1>3, Zenon DEF WellFormed
<1>5. End' = End
  BY DEF End
<1> QED
  BY <1>1, <1>4, <1>5

(* What holds in both passes.                                                 *)
LEMMA WhileLoading ==
  ASSUME LoaderInv, Loading
  PROVE  /\ toks \in Seq(STRING) /\ Len(toks) \in Nat /\ prior \in Nat /\ End = Len(toks) + 1
         /\ p \in 1..End /\ p \in Nat /\ error \in { "NONE", "Syntax", "UnkWord" }
         /\ infos \in Seq(LoadBlockInfo) /\ callStack \in Seq(LoadCall)
         /\ Len(infos) \in Nat /\ Len(infos) >= 1 /\ Forest(toks, infos)
         /\ Len(callStack) \in Nat /\ Len(callStack) >= 1
         /\ TableInv /\ code = << >> /\ codeUpdated = FALSE
         /\ linked = {} /\ unlinked = {} /\ Len(blockTable) = prior + Len(infos)
         /\ Cur = callStack[Len(callStack)].block /\ Cur \in 1..Len(infos)
         /\ Global(Cur) \in Blocks
<1>1. /\ toks \in Seq(STRING) /\ Len(toks) \in Nat /\ prior \in Nat /\ End = Len(toks) + 1
      /\ p \in 1..End /\ error \in { "NONE", "Syntax", "UnkWord" }
      /\ infos \in Seq(LoadBlockInfo) /\ callStack \in Seq(LoadCall)
      /\ Len(infos) \in Nat /\ Len(callStack) \in Nat
  BY DEF LoaderInv, Base, End
<1>2. /\ TableInv /\ code = << >> /\ codeUpdated = FALSE
      /\ linked = {} /\ unlinked = {} /\ Len(blockTable) = prior + Len(infos)
  BY DEF LoaderInv, Unlinked, Loading
<1>3. phase = "tree" \/ phase = "load"
  BY DEF Loading
<1>4. Forest(toks, infos)
  BY <1>3 DEF LoaderInv, TreeInv, TreeAt, LoadInv, TreeDone
<1>5. Len(infos) >= 1
  BY <1>4 DEF Forest
<1>6. Len(callStack) >= 1
  BY <1>3 DEF LoaderInv, TreeInv, TreeAt, OpenStack, LoadInv, CallsFit
<1>7. Cur = callStack[Len(callStack)].block
  BY DEF Cur, Last
<1>8. Cur \in 1..Len(infos)
  <2>1. CASE phase = "tree"
    <3>1. OpenStack(toks, infos, callStack)
      BY <2>1 DEF LoaderInv, TreeInv, TreeAt
    <3> QED
      BY <1>1, <1>7, <3>1, StackTop
  <2>2. CASE phase = "load"
    <3>1. CallsFit(toks, infos, callStack)
      BY <2>2 DEF LoaderInv, LoadInv
    <3> DEFINE n == Len(callStack)
    <3>2. n \in Nat /\ n >= 1
      BY <1>1, <1>6
    <3>3. n = 1 => Cur \in 1..Len(infos)
      BY <1>1, <1>5, <1>7, <3>1 DEF CallsFit
    <3> HIDE DEF n
    <3>4. n = 1 \/ n \in 2..n
      BY <3>2
    <3>5. n \in 2..n => callStack[n].block \in 2..Len(infos)
      BY <3>1 DEF CallsFit, n
    <3> QED
      BY <1>1, <1>5, <1>7, <3>3, <3>4, <3>5 DEF n
  <2> QED
    BY <1>3, <2>1, <2>2
<1>9. Global(Cur) \in Blocks
  BY <1>1, <1>2, <1>8 DEF Global, Blocks
<1> QED
  BY <1>1, <1>2, <1>4, <1>5, <1>6, <1>7, <1>8, <1>9

(* The loader stops.                                                          *)
LEMMA Stops ==
  ASSUME Base', Unlinked', phase' \notin {"tree", "load"},
         WellFormed' => phase' \notin Crashes \union {"abandoned"}
  PROVE  LoaderInv'
  BY DEF LoaderInv

(* An assertion fails, or the load returns.                                   *)
LEMMA CrashKeeps ==
  ASSUME LoaderInv, Loading, NEW f \in Crashes \union {"abandoned", "loaded"},
         phase' = f, UNCHANGED << blockVars, toks, prior, infos, p >>,
         callStack' \in Seq(LoadCall), error' \in { "NONE", "Syntax", "UnkWord" },
         f # "loaded" => ~ WellFormed
  PROVE  LoaderInv'
<1>1. /\ toks' = toks /\ prior' = prior /\ infos' = infos /\ p' = p
      /\ blockTable' = blockTable /\ code' = code /\ codeUpdated' = codeUpdated
      /\ linked' = linked /\ unlinked' = unlinked
  BY DEF blockVars
<1>2. f \in Phases \ {"executed", "tree", "load", "rejected"}
  BY DEF Phases, Crashes
<1>3. Base'
  BY <1>1, <1>2, WhileLoading DEF Base, End
<1>4. TableInv'
  BY <1>1, WhileLoading DEF TableInv
<1>5. Unlinked'
  BY <1>1, <1>2, <1>4, WhileLoading DEF Unlinked, Loading, TableInv
<1>6. WellFormed' => phase' \notin Crashes \union {"abandoned"}
  <2>1. WellFormed' <=> WellFormed
    BY <1>1, SameWords
  <2>2. "loaded" \notin Crashes \union {"abandoned"}
    BY DEF Crashes
  <2> QED
    BY <2>1, <2>2
<1> QED
  BY <1>2, <1>3, <1>5, <1>6, Stops

(* SR_manaLoadBlocksRollback: the block table is cut back to prior.           *)
LEMMA RejectKeeps ==
  ASSUME LoaderInv, Loading, NEW e \in {"Syntax", "UnkWord"}, Reject(e)
  PROVE  LoaderInv'
<1>1. /\ toks' = toks /\ prior' = prior /\ callStack' = callStack /\ p' = p /\ error' = e
      /\ BlocksRollback(prior) /\ infos' = SubSeq(infos, 1, Min({prior, Len(infos)}))
      /\ phase' \in IF prior <= Len(infos) THEN {"rejected"} ELSE {"rejected", "badFree"}
  BY DEF Reject
<1>2. /\ infos \in Seq(LoadBlockInfo) /\ Len(infos) \in Nat /\ prior \in Nat
      /\ Len(infos) >= 1 /\ Len(blockTable) = prior + Len(infos) /\ TableInv
  BY WhileLoading
<1>3. infos' \in Seq(LoadBlockInfo)
  <2> DEFINE m == Min({prior, Len(infos)})
  <2>1. m \in {prior, Len(infos)} /\ \A y \in {prior, Len(infos)} : m <= y
    <3>1. {prior, Len(infos)} \subseteq Nat /\ {prior, Len(infos)} # {}
      BY <1>2
    <3> QED
      BY <3>1, MinIsLeast
  <2> HIDE DEF m
  <2>2. m \in Nat /\ m <= Len(infos)
    BY <1>2, <2>1
  <2>3. \A i \in 1..m : infos[i] \in LoadBlockInfo
    BY <1>2, <2>2, InfoFields
  <2>4. SubSeq(infos, 1, m) \in Seq(LoadBlockInfo)
    BY <2>2, <2>3, SubSeqProperties
  <2> QED
    BY <1>1, <2>4 DEF m
<1>4. prior \in 0..(Len(blockTable) - 1)
  BY <1>2
<1>6. blockTable' \in Seq(BlockInfo) /\ Len(blockTable') = prior
  <2>1. blockTable' = SubSeq(blockTable, 1, prior) /\ blockTable \in Seq(BlockInfo)
    BY <1>1, <1>2 DEF BlocksRollback, TableInv
  <2>2. \A i \in 1..prior : blockTable[i] \in BlockInfo
    BY <1>4, <2>1, ElementOfSeq
  <2> QED
    BY <1>2, <2>1, <2>2, SubSeqProperties
<1>7. /\ code' = code /\ codeUpdated' = codeUpdated
      /\ linked' = linked \intersect (1..prior) /\ unlinked' = unlinked \intersect (1..prior)
  BY <1>1 DEF BlocksRollback
<1>8. /\ phase' \in {"rejected", "badFree"}
      /\ phase' # "rejected" => ~ (prior <= Len(infos))
  BY <1>1
<1>9. Base'
  BY <1>1, <1>3, <1>8, WhileLoading DEF Base, Phases, Crashes, End
<1>10. Unlinked'
  BY <1>1, <1>6, <1>7, <1>8, WhileLoading DEF Unlinked, Loading
<1>11. WellFormed' => phase' \notin Crashes \union {"abandoned"}
  <2>1. WellFormed' <=> WellFormed
    BY <1>1, SameWords
  <2>2. WellFormed => prior <= 1
    BY DEF WellFormed
  <2>3. WellFormed => phase' = "rejected"
    BY <1>2, <1>8, <2>2
  <2>4. "rejected" \notin Crashes \union {"abandoned"}
    BY DEF Crashes
  <2> QED
    BY <2>1, <2>3, <2>4
<1> QED
  BY <1>8, <1>9, <1>10, <1>11, Stops

(* The loader goes on in the first pass.                                      *)
LEMMA TreeKeeps ==
  ASSUME LoaderInv, phase = "tree", toks' = toks, prior' = prior, phase' = "tree",
         error' = error, p' \in 1..End,
         TableInv', code' = << >>, codeUpdated' = FALSE, linked' = {}, unlinked' = {},
         Len(blockTable') = prior + Len(infos'),
         TreeAt(toks, infos', callStack', p'), AllNoted(toks, infos', callStack', p')
  PROVE  LoaderInv'
<1>1. Loading
  BY DEF Loading
<1>2. infos' \in Seq(LoadBlockInfo) /\ callStack' \in Seq(LoadCall)
  BY DEF TreeAt, Forest, OpenStack
<1>3. Base'
  BY <1>1, <1>2, WhileLoading DEF Base, End, Phases
<1>4. Unlinked'
  BY DEF Unlinked, TableInv
<1>5. TreeInv'
  BY DEF TreeInv
<1>6. phase' # "load" /\ phase' \notin Crashes \union {"abandoned"}
  BY DEF Crashes
<1> QED
  BY <1>3, <1>4, <1>5, <1>6 DEF LoaderInv

(* The loader goes on in the second pass: nothing but marks and variables     *)
(* changes in its infos.                                                      *)
LEMMA LoadKeeps ==
  ASSUME LoaderInv, phase = "load", toks' = toks, prior' = prior, phase' = "load",
         error' = error, p' \in 1..End,
         TableInv', code' = << >>, codeUpdated' = FALSE, linked' = {}, unlinked' = {},
         Len(blockTable') = Len(blockTable),
         SameTree(infos, infos'), infos'[1].loaded,
         CallsFit(toks, infos, callStack'),
         ListsHoldNames => toks[1] # Opener /\ Inside(infos, callStack', p')
  PROVE  LoaderInv'
<1>1. Loading
  BY DEF Loading
<1>2. infos' \in Seq(LoadBlockInfo) /\ callStack' \in Seq(LoadCall) /\ Len(infos') = Len(infos)
  BY DEF SameTree, CallsFit
<1>3. Base'
  BY <1>1, <1>2, WhileLoading DEF Base, End, Phases
<1>4. Unlinked'
  BY <1>1, <1>2, WhileLoading DEF Unlinked, TableInv
<1>5. toks \in Seq(STRING) /\ TreeDone(toks, infos)
  BY <1>1, WhileLoading DEF LoaderInv, LoadInv
<1>6. TreeDone(toks, infos')
  BY <1>5, DoneKept
<1>7. CallsFit(toks, infos', callStack')
  BY <1>2 DEF CallsFit
<1>8. LoadInv'
  BY <1>6, <1>7 DEF LoadInv
<1>9. ListsHoldNames' => Tracked'
  <2> SUFFICES ASSUME ListsHoldNames' PROVE Tracked'
    OBVIOUS
  <2>1. ListsHoldNames
    BY SameWords
  <2>2. Inside(infos', callStack', p')
    BY <1>5, <2>1, InsideSame
  <2> QED
    BY <2>1, <2>2 DEF Tracked
<1>10. phase' # "tree" /\ phase' \notin Crashes \union {"abandoned"}
  BY DEF Crashes
<1> QED
  BY <1>3, <1>4, <1>8, <1>9, <1>10 DEF LoaderInv

(* SR_manaLoadBlockNew, for a block with or without a name.                   *)
LEMMA OpenBlockKeeps ==
  ASSUME LoaderInv, phase = "tree", NEW k \in 1..Len(toks), toks[k] = Opener,
         NEW name \in STRING, name # NoName => HasName(toks, k) /\ name = NameOf(toks, k),
         TreeAt(toks, infos, callStack, k),
         \A m \in 1..(k - 1) :
           \/ Noted(toks, infos, callStack, m)
           \/ m = k - 1 /\ toks[m] \in DOMAIN DefOf /\ name = DefOf[toks[m]],
         OpenBlock(k, name)
  PROVE  LoaderInv'
<1> DEFINE g == infos'
           ds == callStack'
<1>1. /\ toks \in Seq(STRING) /\ Len(toks) \in Nat /\ prior \in Nat /\ End = Len(toks) + 1
      /\ infos \in Seq(LoadBlockInfo) /\ callStack \in Seq(LoadCall)
      /\ Len(infos) \in Nat /\ Forest(toks, infos)
      /\ TableInv /\ code = << >> /\ Len(blockTable) = prior + Len(infos)
      /\ Cur = callStack[Len(callStack)].block /\ Cur \in 1..Len(infos) /\ Cur \in Nat
      /\ k \in Nat /\ k # 0
  <2>1. Loading
    BY DEF Loading
  <2> QED
    BY <2>1, WhileLoading
<1>2. /\ BlockNew /\ infos' = Append(infos, NewInfo(Cur, k))
      /\ callStack' = Append(callStack, [block |-> Len(infos) + 1, def |-> name, retP |-> None])
      /\ p' = k + 1 /\ toks' = toks /\ prior' = prior /\ phase' = phase /\ error' = error
  BY DEF OpenBlock, MoveTo
<1>3. Opened(infos, g, callStack[Len(callStack)].block, k)
  BY <1>1, <1>2, OpenedIs
<1>4. Pushed(callStack, ds, Len(infos) + 1, name)
  <2>1. Len(infos) + 1 \in Nat /\ None \in Nat
    BY <1>1 DEF None
  <2> QED
    BY <1>1, <1>2, <2>1, PushedIs
<1> HIDE DEF g, ds
<1>5. /\ TreeAt(toks, g, ds, k + 1)
      /\ \E i \in 2..Len(g) : g[i].begin = k /\ NameKept(g, ds, i, name)
  <2>1. PICK gg : gg = g
    OBVIOUS
  <2>2. PICK dd : dd = ds
    OBVIOUS
  <2>3. toks \in Seq(STRING) /\ k \in 1..Len(toks) /\ Named(toks, k, name)
    BY <1>1 DEF Named
  <2>4. Opened(infos, gg, callStack[Len(callStack)].block, k)
    BY <1>3, <2>1
  <2>5. Pushed(callStack, dd, Len(infos) + 1, name)
    BY <1>4, <2>2
  <2>6. Began(toks, gg, dd, k, name)
    BY <2>3, <2>4, <2>5, TreeBegins, Zenon
  <2>7. Began(toks, g, ds, k, name)
    BY <2>1, <2>2, <2>6, Zenon
  <2> QED
    BY <2>7 DEF Began
<1>6. ASSUME NEW m \in 1..((k + 1) - 1) PROVE Noted(toks, g, ds, m)
  <2>1. m = k \/ m \in 1..(k - 1)
    BY <1>1
  <2>2. CASE m = k
    <3>1. toks[m] # Closer /\ toks[m] \notin DOMAIN DefOf
      BY <2>2, BracesDiffer, DefNoBrace DEF Braces
    <3> QED
      BY <1>5, <2>2, <3>1 DEF Noted
  <2>3. CASE m \in 1..(k - 1) /\ Noted(toks, infos, callStack, m)
    <3>1. m \in 1..Len(toks) /\ OpenStack(toks, infos, callStack)
      BY <1>1, <2>3 DEF TreeAt
    <3> QED
      BY <1>1, <1>3, <1>4, <2>3, <3>1, OpenKeepsNoted
  <2>4. CASE m = k - 1 /\ toks[m] \in DOMAIN DefOf /\ name = DefOf[toks[m]]
    <3>1. toks[m] # Closer /\ toks[m] # Opener
      BY <2>4, DefNoBrace DEF Braces
    <3>2. m + 1 = k
      BY <1>1, <2>4
    <3> QED
      BY <1>5, <2>4, <3>1, <3>2 DEF Noted
  <2> QED
    BY <2>1, <2>2, <2>3, <2>4
<1>7. AllNoted(toks, g, ds, k + 1)
  BY <1>6 DEF AllNoted
<1>8. TableInv'
  BY <1>1, <1>2, NewBlockKeeps
<1>9. Len(blockTable') = prior + Len(g) /\ code' = << >> /\ codeUpdated' = FALSE
      /\ linked' = {} /\ unlinked' = {}
  <2>1. /\ code' = << >> /\ codeUpdated' = FALSE /\ linked' = {} /\ unlinked' = {}
        /\ Len(g) = Len(infos) + 1
    BY <1>1, <1>2, <1>3 DEF BlockNew, Outdate, Opened
  <2>2. Len(blockTable') = Len(blockTable) + 1
    <3> DEFINE x == [varCount |-> 0, code |-> << >>, calleeCount |-> 0, base |-> 1]
    <3>1. blockTable' = Append(blockTable, x) /\ blockTable \in Seq(BlockInfo)
      BY <1>1, <1>2 DEF BlockNew, TableInv
    <3> HIDE DEF x
    <3> QED
      BY <3>1
  <2> QED
    BY <1>1, <2>1, <2>2
<1>10. p' \in 1..End
  BY <1>1, <1>2
<1>11. TreeAt(toks, infos', callStack', p') /\ AllNoted(toks, infos', callStack', p')
  BY <1>2, <1>5, <1>7 DEF g, ds
<1> QED
  BY <1>2, <1>8, <1>9, <1>10, <1>11, TreeKeeps DEF g

(* What holds before a step of the first pass.                                *)
LEMMA InTheTree ==
  ASSUME LoaderInv, InTree, p # End
  PROVE  /\ Loading /\ phase = "tree" /\ toks \in Seq(STRING) /\ p \in 1..Len(toks) /\ p \in Nat
         /\ p + 1 \in 1..End /\ Tok = toks[p] /\ End = Len(toks) + 1 /\ Len(toks) \in Nat
         /\ TreeAt(toks, infos, callStack, p)
         /\ \A m \in 1..(p - 1) : Noted(toks, infos, callStack, m)
<1>1. Loading /\ phase = "tree"
  BY DEF Loading, InTree
<1>2. toks \in Seq(STRING) /\ Len(toks) \in Nat /\ p \in 1..End /\ End = Len(toks) + 1
  BY <1>1, WhileLoading
<1>3. p \in 1..Len(toks) /\ p \in Nat /\ p + 1 \in 1..End
  BY <1>2
<1>4. TreeAt(toks, infos, callStack, p) /\ AllNoted(toks, infos, callStack, p)
  BY <1>1 DEF LoaderInv, TreeInv
<1> QED
  BY <1>1, <1>2, <1>3, <1>4 DEF AllNoted, Tok

(* A block without a name.                                                    *)
LEMMA TreeOpenKeeps ==
  ASSUME LoaderInv, TreeOpen
  PROVE  LoaderInv'
<1>1. InTree /\ p # End /\ Tok = Opener /\ OpenBlock(p, NoName)
  BY DEF TreeOpen, Opener
<1>2. NoName \in STRING
  BY WordsAssumption
<1> QED
  BY <1>1, <1>2, InTheTree, OpenBlockKeeps

(* A block with a name: the name and the brace are read at once.              *)
LEMMA TreeDefKeeps ==
  ASSUME LoaderInv, TreeDef
  PROVE  LoaderInv'
<1>1. /\ InTree /\ p # End /\ Tok \in DOMAIN DefOf /\ p + 1 # End /\ toks[p + 1] = Opener
      /\ OpenBlock(p + 1, DefOf[Tok])
  BY DEF TreeDef, Opener
<1>2. /\ phase = "tree" /\ toks \in Seq(STRING) /\ p \in 1..Len(toks) /\ p \in Nat
      /\ p + 1 \in 1..End /\ Tok = toks[p] /\ End = Len(toks) + 1 /\ Len(toks) \in Nat
      /\ TreeAt(toks, infos, callStack, p)
      /\ \A m \in 1..(p - 1) : Noted(toks, infos, callStack, m)
  BY <1>1, InTheTree
<1>3. p + 1 \in 1..Len(toks) /\ (p + 1) - 1 = p
  BY <1>1, <1>2
<1>4. TreeAt(toks, infos, callStack, p + 1)
  <2>1. toks[p] \notin Braces
    BY <1>1, <1>2, DefNoBrace
  <2> QED
    BY <1>2, <2>1, TreeSkips
<1>5. DefOf[Tok] \in STRING
  BY <1>1, NamesAreNames
<1>6. HasName(toks, p + 1) /\ DefOf[Tok] = NameOf(toks, p + 1)
  BY <1>1, <1>2, <1>3 DEF HasName, NameOf
<1>7. ASSUME NEW m \in 1..((p + 1) - 1)
      PROVE  \/ Noted(toks, infos, callStack, m)
             \/ m = (p + 1) - 1 /\ toks[m] \in DOMAIN DefOf /\ DefOf[Tok] = DefOf[toks[m]]
  <2>1. m = p \/ m \in 1..(p - 1)
    BY <1>2
  <2> QED
    BY <1>1, <1>2, <1>3, <2>1
<1> QED
  BY <1>1, <1>2, <1>3, <1>4, <1>5, <1>6, <1>7, OpenBlockKeeps

(* Any other token is passed over.                                            *)
LEMMA TreeOtherKeeps ==
  ASSUME LoaderInv, TreeOther
  PROVE  LoaderInv'
<1>1. /\ InTree /\ p # End /\ Tok \notin Braces /\ Tok \notin DOMAIN DefOf
      /\ p' = p + 1 /\ toks' = toks /\ prior' = prior /\ phase' = phase /\ error' = error
      /\ blockTable' = blockTable /\ code' = code /\ codeUpdated' = codeUpdated
      /\ linked' = linked /\ unlinked' = unlinked
      /\ infos' = infos /\ callStack' = callStack
  BY DEF TreeOther, MoveTo, blockVars, Braces, Opener, Closer
<1>2. /\ Loading /\ phase = "tree" /\ toks \in Seq(STRING) /\ p \in 1..Len(toks) /\ p \in Nat
      /\ p + 1 \in 1..End /\ Tok = toks[p]
      /\ TreeAt(toks, infos, callStack, p)
      /\ \A m \in 1..(p - 1) : Noted(toks, infos, callStack, m)
  BY <1>1, InTheTree
<1>3. TreeAt(toks, infos, callStack, p + 1)
  BY <1>1, <1>2, TreeSkips
<1>4. AllNoted(toks, infos, callStack, p + 1)
  <2> SUFFICES ASSUME NEW m \in 1..((p + 1) - 1) PROVE Noted(toks, infos, callStack, m)
    BY DEF AllNoted
  <2>1. m = p \/ m \in 1..(p - 1)
    BY <1>2
  <2>2. Noted(toks, infos, callStack, p)
    BY <1>1, <1>2 DEF Noted, Braces
  <2> QED
    BY <1>2, <2>1, <2>2
<1>5. TableInv'
  BY <1>1, <1>2, WhileLoading DEF TableInv
<1>6. /\ code' = << >> /\ codeUpdated' = FALSE /\ linked' = {} /\ unlinked' = {}
      /\ Len(blockTable') = prior + Len(infos')
  BY <1>1, <1>2, WhileLoading
<1>7. TreeAt(toks, infos', callStack', p') /\ AllNoted(toks, infos', callStack', p')
  BY <1>1, <1>3, <1>4
<1> QED
  BY <1>1, <1>2, <1>5, <1>6, <1>7, TreeKeeps

(* What the callback makes of the infos.                                      *)
LEMMA ClosedIs ==
  ASSUME LoaderInv, Loading, Len(callStack) > 1, phase = "tree"
  PROVE  Shut(infos, Closed, callStack[Len(callStack)].block, p, callStack[Len(callStack)].def)
<1> DEFINE c == callStack[Len(callStack)].block
           name == callStack[Len(callStack)].def
<1>1. /\ toks \in Seq(STRING) /\ p \in Nat /\ infos \in Seq(LoadBlockInfo)
      /\ TreeAt(toks, infos, callStack, p)
  BY WhileLoading DEF LoaderInv, TreeInv
<1>2. c \in 1..Len(infos) /\ infos[c].scope \in 1..Len(infos) /\ name \in STRING
  BY <1>1, CloseTop
<1>3. Closed = ShutInfos(infos, c, p, name)
  BY DEF Closed, ShutInfos, Cur, Last
<1> HIDE DEF c, name
<1>4. Shut(infos, ShutInfos(infos, c, p, name), c, p, name)
  BY <1>1, <1>2, ShutIs
<1> QED
  BY <1>3, <1>4 DEF c, name

(* A block ends.                                                              *)
LEMMA TreeCloseKeeps ==
  ASSUME LoaderInv, TreeClose
  PROVE  LoaderInv'
<1>1. /\ InTree /\ p # End /\ Tok = Closer /\ Len(callStack) > 1
      /\ infos' = Closed /\ callStack' = Front(callStack)
      /\ p' = p + 1 /\ toks' = toks /\ prior' = prior /\ phase' = phase /\ error' = error
      /\ blockTable' = blockTable /\ code' = code /\ codeUpdated' = codeUpdated
      /\ linked' = linked /\ unlinked' = unlinked
  BY DEF TreeClose, MoveTo, blockVars, Closer
<1>2. /\ Loading /\ phase = "tree" /\ toks \in Seq(STRING) /\ p \in 1..Len(toks) /\ p \in Nat
      /\ p + 1 \in 1..End /\ Tok = toks[p]
      /\ TreeAt(toks, infos, callStack, p)
      /\ \A m \in 1..(p - 1) : Noted(toks, infos, callStack, m)
  BY <1>1, InTheTree
<1> DEFINE g == infos'
           ds == callStack'
           c == callStack[Len(callStack)].block
           name == callStack[Len(callStack)].def
<1>3. Shut(infos, g, c, p, name)
  BY <1>1, <1>2, ClosedIs
<1>4. Popped(callStack, ds)
  BY <1>1, <1>2, WhileLoading, PoppedIs
<1> HIDE DEF g, ds
<1>5. TreeAt(toks, g, ds, p + 1) /\ \E i \in 2..Len(g) : g[i].end = p
  BY <1>1, <1>2, <1>3, <1>4, TreeShuts
<1>6. AllNoted(toks, g, ds, p + 1)
  <2> SUFFICES ASSUME NEW m \in 1..((p + 1) - 1) PROVE Noted(toks, g, ds, m)
    BY DEF AllNoted
  <2>1. m = p \/ m \in 1..(p - 1)
    BY <1>2
  <2>2. CASE m = p
    <3>1. toks[m] # Opener /\ toks[m] \notin DOMAIN DefOf
      BY <1>1, <1>2, <2>2, BracesDiffer, DefNoBrace DEF Braces
    <3> QED
      BY <1>5, <2>2, <3>1 DEF Noted
  <2>3. CASE m \in 1..(p - 1)
    <3>1. m \in 1..Len(toks)
      BY <1>2, <2>3
    <3> QED
      BY <1>1, <1>2, <1>3, <1>4, <2>3, <3>1, ShutKeepsNoted
  <2> QED
    BY <2>1, <2>2, <2>3
<1>7. Len(g) = Len(infos)
  BY <1>3 DEF Shut
<1>8. TableInv'
  BY <1>1, <1>2, WhileLoading DEF TableInv
<1>9. /\ code' = << >> /\ codeUpdated' = FALSE /\ linked' = {} /\ unlinked' = {}
      /\ Len(blockTable') = prior + Len(infos')
  BY <1>1, <1>2, <1>7, WhileLoading DEF g
<1>10. TreeAt(toks, infos', callStack', p') /\ AllNoted(toks, infos', callStack', p')
  BY <1>1, <1>5, <1>6 DEF g, ds
<1> QED
  BY <1>1, <1>2, <1>8, <1>9, <1>10, TreeKeeps

(* The text ends, and the second pass begins.                                 *)
LEMMA TreeEndKeeps ==
  ASSUME LoaderInv, TreeEnd
  PROVE  LoaderInv'
<1>1. /\ phase = "tree" /\ p = End /\ Len(callStack) = 1
      /\ infos' = [Closed EXCEPT ![1].loaded = TRUE]
      /\ p' = 1 /\ phase' = "load" /\ toks' = toks /\ prior' = prior
      /\ callStack' = callStack /\ error' = error
      /\ blockTable' = blockTable /\ code' = code /\ codeUpdated' = codeUpdated
      /\ linked' = linked /\ unlinked' = unlinked
  BY DEF TreeEnd, InTree, blockVars
<1>2. Loading
  BY <1>1 DEF Loading
<1>3. /\ toks \in Seq(STRING) /\ Len(toks) \in Nat /\ p \in Nat /\ End = Len(toks) + 1
      /\ infos \in Seq(LoadBlockInfo) /\ Len(infos) \in Nat /\ Len(infos) >= 1
      /\ callStack \in Seq(LoadCall)
  BY <1>2, WhileLoading
<1>4. TreeAt(toks, infos, callStack, Len(toks) + 1)
      /\ AllNoted(toks, infos, callStack, Len(toks) + 1)
  BY <1>1, <1>3 DEF LoaderInv, TreeInv
<1>5. callStack[1].block = 1 /\ callStack[1].def = NoName
  BY <1>4 DEF TreeAt, OpenStack
<1>6. Closed = ShutInfos(infos, 1, p, NoName)
  BY <1>1, <1>5 DEF Closed, ShutInfos, Cur, Last
<1> DEFINE g == infos'
<1>7. AlmostSame(infos, g) /\ g[1].end = Len(toks) + 1 /\ g[1].loaded
  <2>1. g = [ShutInfos(infos, 1, p, NoName) EXCEPT ![1].loaded = TRUE]
    BY <1>1, <1>6, Zenon
  <2> HIDE DEF g
  <2>2. PICK h : h = [ShutInfos(infos, 1, p, NoName) EXCEPT ![1].loaded = TRUE]
    OBVIOUS
  <2>3. AlmostSame(infos, h) /\ h[1].end = p /\ h[1].loaded
    BY <1>3, <2>2, RootEndedIs, Zenon
  <2> QED
    BY <1>1, <1>3, <2>1, <2>2, <2>3
<1> HIDE DEF g
<1>8. TreeDone(toks, g) /\ Innermost(g, 1, 1)
  BY <1>1, <1>3, <1>4, <1>7, TreeEnds
<1>9. g \in Seq(LoadBlockInfo) /\ Len(g) = Len(infos)
  BY <1>7 DEF AlmostSame
<1>10. Base'
  BY <1>1, <1>2, <1>3, <1>9, WhileLoading DEF Base, End, Phases, g
<1>11. TableInv'
  BY <1>1, <1>2, WhileLoading DEF TableInv
<1>12. Unlinked'
  BY <1>1, <1>2, <1>9, <1>11, WhileLoading DEF Unlinked, TableInv, g
<1>13. CallsFit(toks, g, callStack)
  BY <1>1, <1>3, <1>5 DEF CallsFit
<1>14. LoadInv'
  BY <1>1, <1>8, <1>13 DEF LoadInv, g
<1>15. Tracked'
  <2>1. Inside(g, callStack, 1)
    <3>1. 2..1 = {}
      OBVIOUS
    <3> QED
      BY <1>1, <1>5, <1>8, <3>1 DEF Inside
  <2> QED
    BY <1>1, <2>1 DEF Tracked, g
<1>16. phase' # "tree" /\ phase' \notin Crashes \union {"abandoned"}
  BY <1>1 DEF Crashes
<1> QED
  BY <1>10, <1>12, <1>14, <1>15, <1>16 DEF LoaderInv

(* The steps of the first pass that stop the loader.                          *)
LEMMA TreeStopsKeep ==
  ASSUME LoaderInv, TreeUnclosed \/ TreeUnopened \/ TreeBadDef \/ TreeLostDef
  PROVE  LoaderInv'
<1>1. Loading
  BY DEF TreeUnclosed, TreeUnopened, TreeBadDef, TreeLostDef, InTree, Loading
<1>2. CASE Reject("Syntax")
  BY <1>1, <1>2, RejectKeeps
<1>3. CASE TreeLostDef
  <2>1. /\ InTree /\ p # End /\ Tok \in DOMAIN DefOf /\ p + 1 = End
        /\ Crash("noToken")
    BY <1>3 DEF TreeLostDef
  <2>2. /\ p \in 1..Len(toks) /\ Tok = toks[p] /\ End = Len(toks) + 1 /\ Len(toks) \in Nat
        /\ callStack \in Seq(LoadCall) /\ error \in { "NONE", "Syntax", "UnkWord" }
    BY <1>1, <2>1, InTheTree, WhileLoading
  <2>3. ~ WellFormed
    <3>1. p = Len(toks) /\ toks # << >>
      BY <2>1, <2>2
    <3> QED
      BY <2>1, <2>2, <3>1 DEF WellFormed, Defines
  <2>4. /\ phase' = "noToken" /\ UNCHANGED << blockVars, toks, prior, infos, p >>
        /\ callStack' = callStack /\ error' = error
    BY <2>1 DEF Crash
  <2>5. "noToken" \in Crashes \union {"abandoned", "loaded"}
    BY DEF Crashes
  <2> QED
    BY <1>1, <2>2, <2>3, <2>4, <2>5, CrashKeeps
<1> QED
  BY <1>2, <1>3 DEF TreeUnclosed, TreeUnopened, TreeBadDef

-------------------------------------------------------------------------------
(* The second pass, step by step. *)

(* What holds before a step of it.                                            *)
LEMMA InTheLoad ==
  ASSUME LoaderInv, phase = "load"
  PROVE  /\ Loading /\ toks \in Seq(STRING) /\ Len(toks) \in Nat /\ End = Len(toks) + 1
         /\ p \in 1..End /\ p \in Nat /\ Tok = toks[p]
         /\ p # End => p \in 1..Len(toks) /\ p + 1 \in 1..End
         /\ infos \in Seq(LoadBlockInfo) /\ Len(infos) \in Nat /\ Len(infos) >= 1
         /\ callStack \in Seq(LoadCall) /\ Len(callStack) \in Nat /\ Len(callStack) >= 1
         /\ Cur = callStack[Len(callStack)].block /\ Cur \in 1..Len(infos) /\ Cur \in Nat
         /\ Global(Cur) \in Blocks
         /\ TreeDone(toks, infos) /\ Forest(toks, infos) /\ Ended(infos) /\ infos[1].loaded
         /\ infos[1].end = End /\ infos[1].scope = None
         /\ CallsFit(toks, infos, callStack) /\ SameTree(infos, infos)
         /\ Len(callStack) > 1 => Cur # 1
         /\ Len(callStack) = 1 => Cur = 1
         /\ ListsHoldNames =>
              /\ toks[1] = Opener /\ p # End => p = 1
              /\ Inside(infos, callStack, p) /\ Innermost(infos, Cur, p)
<1>1. Loading
  BY DEF Loading
<1>2. /\ toks \in Seq(STRING) /\ Len(toks) \in Nat /\ End = Len(toks) + 1
      /\ p \in 1..End /\ p \in Nat /\ Tok = toks[p]
      /\ infos \in Seq(LoadBlockInfo) /\ Len(infos) \in Nat /\ Len(infos) >= 1
      /\ callStack \in Seq(LoadCall) /\ Len(callStack) \in Nat /\ Len(callStack) >= 1
      /\ Cur = callStack[Len(callStack)].block /\ Cur \in 1..Len(infos)
      /\ Global(Cur) \in Blocks
  BY <1>1, WhileLoading DEF Tok
<1>3. Cur \in Nat /\ (p # End => p \in 1..Len(toks) /\ p + 1 \in 1..End)
  BY <1>2
<1>4. TreeDone(toks, infos) /\ CallsFit(toks, infos, callStack)
  BY DEF LoaderInv, LoadInv
<1>5. Forest(toks, infos) /\ infos[1].loaded /\ infos[1].end = End /\ infos[1].scope = None
  BY <1>2, <1>4 DEF TreeDone, Forest, AllEnded
<1>6. Ended(infos)
  BY <1>4, DoneEnded DEF TreeDone
<1>7. SameTree(infos, infos)
  BY <1>2 DEF SameTree
<1>8. Len(callStack) > 1 => Cur # 1
  <2> SUFFICES ASSUME Len(callStack) > 1 PROVE Cur # 1
    OBVIOUS
  <2>1. Len(callStack) \in 2..Len(callStack)
    BY <1>2
  <2>2. callStack[Len(callStack)].block \in 2..Len(infos)
    BY <1>4, <2>1 DEF CallsFit
  <2> QED
    BY <1>2, <2>2
<1>9. Len(callStack) = 1 => Cur = 1
  BY <1>2, <1>4 DEF CallsFit
<1>10. ASSUME ListsHoldNames
       PROVE  /\ toks[1] = Opener /\ p # End => p = 1
              /\ Inside(infos, callStack, p) /\ Innermost(infos, Cur, p)
  <2>1. Tracked
    BY <1>10 DEF LoaderInv
  <2>2. Inside(infos, callStack, p)
    BY <2>1 DEF Tracked
  <2>3. Innermost(infos, Cur, p)
    BY <1>2, <2>2 DEF Inside
  <2>4. toks[1] = Opener /\ p # End => p = 1
    BY <1>3, <2>1 DEF Tracked
  <2> QED
    BY <2>2, <2>3, <2>4
<1> QED
  BY <1>1, <1>2, <1>3, <1>4, <1>5, <1>6, <1>7, <1>8, <1>9, <1>10

(* The text has been read.                                                    *)
LEMMA LoadEndKeeps ==
  ASSUME LoaderInv, LoadEnd \/ LoadUnclosed
  PROVE  LoaderInv'
<1>1. /\ phase = "load" /\ p = End /\ UNCHANGED << blockVars, toks, prior, infos, p >>
  BY DEF LoadEnd, LoadUnclosed
<1>2. /\ Loading /\ toks \in Seq(STRING) /\ End = Len(toks) + 1
      /\ callStack \in Seq(LoadCall) /\ error \in { "NONE", "Syntax", "UnkWord" }
      /\ Forest(toks, infos) /\ Ended(infos)
      /\ Len(callStack) > 1 => Cur # 1
      /\ ListsHoldNames => Innermost(infos, Cur, p)
  BY <1>1, InTheLoad, WhileLoading
<1>3. CASE LoadEnd
  <2>1. callStack' = << >> /\ phase' = "loaded" /\ error' = error
    BY <1>3 DEF LoadEnd
  <2>2. callStack' \in Seq(LoadCall)
    BY <2>1
  <2> QED
    BY <1>1, <1>2, <2>1, <2>2, CrashKeeps
<1>4. CASE LoadUnclosed
  <2>1. callStack' = callStack /\ phase' = "abandoned" /\ error' = "Syntax" /\ Cur # 1
    BY <1>2, <1>4 DEF LoadUnclosed
  <2>2. ~ WellFormed
    <3>1. Innermost(infos, Cur, Len(toks) + 1) => Cur = 1
      BY <1>2, EndInnermost
    <3> QED
      BY <1>1, <1>2, <2>1, <3>1 DEF WellFormed
  <2>3. "abandoned" \in Crashes \union {"abandoned", "loaded"}
    OBVIOUS
  <2> QED
    BY <1>1, <1>2, <2>1, <2>2, <2>3, CrashKeeps
<1> QED
  BY <1>3, <1>4

(* A block ends.                                                              *)
LEMMA LoadCloseKeeps ==
  ASSUME LoaderInv, LoadClose
  PROVE  LoaderInv'
<1>1. /\ phase = "load" /\ p # End /\ Tok = Closer /\ infos[Cur].end = p
      /\ callStack' = Front(callStack) /\ p' = Last(callStack).retP
      /\ toks' = toks /\ prior' = prior /\ phase' = phase /\ error' = error
      /\ blockTable' = blockTable /\ code' = code /\ codeUpdated' = codeUpdated
      /\ linked' = linked /\ unlinked' = unlinked /\ infos' = infos
  BY DEF LoadClose, InLoad, MoveTo, blockVars, Closer
<1>2. /\ Loading /\ toks \in Seq(STRING) /\ Len(toks) \in Nat /\ End = Len(toks) + 1
      /\ Tok = toks[p] /\ callStack \in Seq(LoadCall)
      /\ Len(callStack) \in Nat /\ Len(callStack) >= 1
      /\ infos[1].loaded /\ infos[1].end = End
      /\ CallsFit(toks, infos, callStack) /\ SameTree(infos, infos)
      /\ Len(callStack) = 1 => Cur = 1
      /\ ListsHoldNames =>
           /\ toks[1] = Opener => p = 1
           /\ Inside(infos, callStack, p)
  BY <1>1, InTheLoad
<1>3. Len(callStack) > 1 /\ Len(callStack) \in 2..Len(callStack)
  <2>1. Cur # 1
    BY <1>1, <1>2
  <2> DEFINE n == Len(callStack)
  <2>2. n \in Nat /\ n >= 1 /\ n # 1
    BY <1>2, <2>1
  <2> HIDE DEF n
  <2>3. n > 1 /\ n \in 2..n
    BY <2>2
  <2> QED
    BY <2>3 DEF n
<1>4. Popped(callStack, Front(callStack))
  BY <1>2, <1>3, PoppedIs
<1>5. p' = callStack[Len(callStack)].retP /\ p' \in 1..Len(toks) /\ p' \in 1..End
  <2>1. callStack[Len(callStack)].retP \in 1..Len(toks)
    BY <1>2, <1>3 DEF CallsFit
  <2> QED
    BY <1>1, <1>2, <2>1 DEF Last
<1>6. CallsFit(toks, infos, callStack')
  <2>1. /\ callStack' \in Seq(LoadCall) /\ Len(callStack') = Len(callStack) - 1
        /\ \A n \in 1..Len(callStack') : callStack'[n] = callStack[n]
    BY <1>1, <1>4 DEF Popped
  <2>2. ASSUME NEW n \in 2..Len(callStack')
        PROVE  n \in 2..Len(callStack) /\ n \in 1..Len(callStack')
    BY <1>2, <2>1
  <2>3. Len(callStack') >= 1 /\ 1 \in 1..Len(callStack')
    BY <1>2, <1>3, <2>1
  <2> QED
    BY <1>2, <2>1, <2>2, <2>3 DEF CallsFit
<1>7. ASSUME ListsHoldNames PROVE toks[1] # Opener /\ Inside(infos, callStack', p')
  <2>1. toks[1] # Opener
    BY <1>1, <1>2, <1>7, BracesDiffer
  <2>2. Inside(infos, Front(callStack), callStack[Len(callStack)].retP)
    BY <1>2, <1>3, <1>4, <1>7, InsideReturns
  <2> QED
    BY <1>1, <1>5, <2>1, <2>2
<1>8. TableInv'
  BY <1>1, <1>2, WhileLoading DEF TableInv
<1>9. /\ code' = << >> /\ codeUpdated' = FALSE /\ linked' = {} /\ unlinked' = {}
      /\ Len(blockTable') = Len(blockTable)
  BY <1>1, <1>2, WhileLoading
<1> QED
  BY <1>1, <1>2, <1>5, <1>6, <1>7, <1>8, <1>9, LoadKeeps

(* A brace that closes another block than the one that is being loaded.       *)
LEMMA MisplacedKeeps ==
  ASSUME LoaderInv, LoadMisplacedClose
  PROVE  LoaderInv'
<1>1. /\ phase = "load" /\ p # End /\ Tok = Closer /\ infos[Cur].end # p
      /\ phase' = "assertEnd" /\ UNCHANGED << blockVars, toks, prior, infos, p >>
      /\ callStack' = callStack /\ error' = error
  BY DEF LoadMisplacedClose, InLoad, Crash, Closer
<1>2. /\ Loading /\ toks \in Seq(STRING) /\ Len(toks) \in Nat /\ p \in 1..Len(toks)
      /\ Tok = toks[p] /\ callStack \in Seq(LoadCall) /\ error \in { "NONE", "Syntax", "UnkWord" }
      /\ TreeDone(toks, infos) /\ Forest(toks, infos) /\ Ended(infos)
      /\ ListsHoldNames => Innermost(infos, Cur, p)
  BY <1>1, InTheLoad, WhileLoading
<1>3. PICK c \in 2..Len(infos) : infos[c].end = p
  <2>1. p \in 1..((Len(toks) + 1) - 1)
    BY <1>2
  <2>2. Noted(toks, infos, << >>, p)
    BY <1>2, <2>1 DEF TreeDone, AllNoted
  <2> QED
    BY <1>1, <1>2, <2>2 DEF Noted
<1>4. ~ WellFormed
  <2>1. Innermost(infos, Cur, p) => Cur = c
    BY <1>2, <1>3, CloseInnermost
  <2> QED
    BY <1>1, <1>2, <1>3, <2>1 DEF WellFormed
<1>5. "assertEnd" \in Crashes \union {"abandoned", "loaded"}
  BY DEF Crashes
<1> QED
  BY <1>1, <1>2, <1>4, <1>5, CrashKeeps

(* A block is loaded before the word that needs it.                           *)
LEMMA EnterKeeps ==
  ASSUME LoaderInv, InLoad, NEW b \in 2..Len(infos), Enter(b),
         ListsHoldNames => toks[1] # Opener
  PROVE  LoaderInv'
<1>1. /\ phase = "load" /\ p # End
      /\ infos' = [infos EXCEPT ![b].loaded = TRUE]
      /\ callStack' = Append(callStack, [block |-> b, def |-> NoName, retP |-> p])
      /\ p' = infos[b].begin + 1
      /\ toks' = toks /\ prior' = prior /\ phase' = phase /\ error' = error
      /\ blockTable' = blockTable /\ code' = code /\ codeUpdated' = codeUpdated
      /\ linked' = linked /\ unlinked' = unlinked
  BY DEF InLoad, Enter, MoveTo, blockVars
<1>2. /\ Loading /\ toks \in Seq(STRING) /\ Len(toks) \in Nat /\ End = Len(toks) + 1
      /\ p \in 1..Len(toks) /\ p \in Nat
      /\ infos \in Seq(LoadBlockInfo) /\ Len(infos) \in Nat /\ Len(infos) >= 1
      /\ callStack \in Seq(LoadCall) /\ Len(callStack) \in Nat /\ Len(callStack) >= 1
      /\ Forest(toks, infos) /\ Ended(infos) /\ infos[1].loaded
      /\ CallsFit(toks, infos, callStack)
      /\ ListsHoldNames => Inside(infos, callStack, p)
  BY <1>1, InTheLoad
<1>3. b \in 1..Len(infos) /\ b \in Nat /\ 1 \in 1..Len(infos)
  BY <1>2
<1>4. SameTree(infos, infos') /\ infos'[1].loaded
  <2>1. PICK g : g = [infos EXCEPT ![b].loaded = TRUE]
    OBVIOUS
  <2>2. SameTree(infos, g) /\ \A i \in 1..Len(infos) : infos[i].loaded \/ i = b => g[i].loaded
    BY <1>2, <1>3, <2>1, MarkedIs, Zenon
  <2> QED
    BY <1>1, <1>2, <1>3, <2>1, <2>2
<1>5. Pushed(callStack, callStack', b, NoName) /\ callStack'[Len(callStack) + 1].retP = p
  <2>1. NoName \in STRING
    BY WordsAssumption
  <2> QED
    BY <1>1, <1>2, <1>3, <2>1, PushedIs
<1>6. CallsFit(toks, infos, callStack')
  <2>1. /\ callStack' \in Seq(LoadCall) /\ Len(callStack') = Len(callStack) + 1
        /\ \A n \in 1..Len(callStack) : callStack'[n] = callStack[n]
        /\ callStack'[Len(callStack) + 1].block = b
    BY <1>5 DEF Pushed
  <2>2. callStack'[1].block = 1 /\ Len(callStack') >= 1
    BY <1>2, <2>1 DEF CallsFit
  <2>3. ASSUME NEW n \in 2..Len(callStack')
        PROVE  callStack'[n].block \in 2..Len(infos) /\ callStack'[n].retP \in 1..Len(toks)
    <3>1. n = Len(callStack) + 1 \/ (n \in 2..Len(callStack) /\ n \in 1..Len(callStack))
      BY <1>2, <2>1
    <3> QED
      BY <1>2, <1>5, <2>1, <3>1 DEF CallsFit
  <2> QED
    BY <2>1, <2>2, <2>3 DEF CallsFit
<1>7. ASSUME ListsHoldNames PROVE toks[1] # Opener /\ Inside(infos, callStack', p')
  <2>1. PICK ds : ds = callStack'
    OBVIOUS
  <2>2. Pushed(callStack, ds, b, NoName) /\ ds[Len(callStack) + 1].retP = p
    BY <1>5, <2>1
  <2>3. Inside(infos, callStack, p)
    BY <1>2, <1>7
  <2>4. Inside(infos, ds, infos[b].begin + 1)
    BY <1>2, <2>2, <2>3, InsideEnters
  <2> QED
    BY <1>1, <1>7, <2>1, <2>4
<1>8. p' \in 1..End
  <2>1. infos[b].begin \in 1..Len(toks)
    BY <1>2, InForest
  <2> QED
    BY <1>1, <1>2, <2>1
<1>9. TableInv'
  BY <1>1, <1>2, WhileLoading DEF TableInv
<1>10. /\ code' = << >> /\ codeUpdated' = FALSE /\ linked' = {} /\ unlinked' = {}
       /\ Len(blockTable') = Len(blockTable)
  BY <1>1, <1>2, WhileLoading
<1> QED
  BY <1>1, <1>4, <1>6, <1>7, <1>8, <1>9, <1>10, LoadKeeps

(* The brace of a block that has not been loaded.                             *)
LEMMA LoadOpenKeeps ==
  ASSUME LoaderInv, LoadOpen
  PROVE  LoaderInv'
<1>1. /\ InLoad /\ phase = "load" /\ p # End /\ Tok = Opener
      /\ ~ infos[FindBlock(p)].loaded /\ Enter(FindBlock(p))
  BY DEF LoadOpen, InLoad, Opener
<1>2. /\ toks \in Seq(STRING) /\ p \in 1..Len(toks) /\ Tok = toks[p]
      /\ TreeDone(toks, infos) /\ infos[1].loaded
      /\ ListsHoldNames /\ toks[1] = Opener => p = 1
  BY <1>1, InTheLoad
<1>3. FindBlock(p) \in 2..Len(infos) /\ p # 1
  <2>1. /\ p # 1 => FindBlock(p) \in 2..Len(infos)
        /\ p = 1 => FindBlock(p) = 1
    BY <1>1, <1>2, FindBlockIs
  <2> QED
    BY <1>1, <1>2, <2>1
<1> QED
  BY <1>1, <1>2, <1>3, EnterKeeps

(* A definition that has not been loaded.                                     *)
LEMMA LoadCalleeKeeps ==
  ASSUME LoaderInv, LoadCallee
  PROVE  LoaderInv'
<1>1. /\ InLoad /\ phase = "load" /\ p # End /\ Tok \notin Structural
      /\ DefScopes(Tok) # {} /\ Enter(FindDef(Tok).block)
  BY DEF LoadCallee, InLoad, IsDef, PlainWord
<1>2. /\ toks \in Seq(STRING) /\ Tok = toks[p] /\ Forest(toks, infos)
      /\ Cur \in 1..Len(infos)
      /\ ListsHoldNames /\ toks[1] = Opener => p = 1
  BY <1>1, InTheLoad
<1>3. FindDef(Tok).block \in 2..Len(infos)
  BY <1>1, <1>2, FindDefIs
<1>4. Tok # Opener
  BY <1>1, PlainNoBrace DEF Braces
<1> QED
  BY <1>1, <1>2, <1>3, <1>4, EnterKeeps

(* A word that changes neither the infos nor the calls.                       *)
LEMMA WordKeeps ==
  ASSUME LoaderInv, Word, Tok # Opener \/ (ListsHoldNames => toks[1] # Opener),
         NEW q \in 1..End, MoveTo(q),
         TableInv', Outdate, Len(blockTable') = Len(blockTable),
         ListsHoldNames => Innermost(infos, Cur, q)
  PROVE  LoaderInv'
<1>1. /\ phase = "load" /\ p # End /\ infos' = infos /\ callStack' = callStack
      /\ p' = q /\ toks' = toks /\ prior' = prior /\ phase' = phase /\ error' = error
      /\ codeUpdated' = FALSE /\ linked' = {} /\ unlinked' = {} /\ code' = code
  BY DEF Word, InLoad, MoveTo, Outdate
<1>2. /\ Loading /\ Tok = toks[p] /\ infos[1].loaded
      /\ Cur = callStack[Len(callStack)].block
      /\ CallsFit(toks, infos, callStack) /\ SameTree(infos, infos)
      /\ ListsHoldNames =>
           /\ toks[1] = Opener => p = 1
           /\ Inside(infos, callStack, p)
  BY <1>1, InTheLoad
<1>3. code' = << >>
  BY <1>1, <1>2, WhileLoading
<1>4. ASSUME ListsHoldNames PROVE toks[1] # Opener /\ Inside(infos, callStack', p')
  <2>1. toks[1] # Opener
    BY <1>2, <1>4
  <2>2. Inside(infos, callStack, q)
    BY <1>2, <1>4 DEF Inside
  <2> QED
    BY <1>1, <2>1, <2>2
<1>5. p' \in 1..End
  BY <1>1
<1> QED
  BY <1>1, <1>2, <1>3, <1>4, <1>5, LoadKeeps

(* One where the block goes on after the word.                                *)
LEMMA PlainWordKeeps ==
  ASSUME LoaderInv, Word, Tok \notin Structural, MoveTo(p + 1),
         TableInv', Outdate, Len(blockTable') = Len(blockTable)
  PROVE  LoaderInv'
<1>1. phase = "load" /\ p # End
  BY DEF Word, InLoad
<1>2. /\ toks \in Seq(STRING) /\ Tok = toks[p] /\ p \in Nat /\ p + 1 \in 1..End
      /\ Forest(toks, infos) /\ Ended(infos)
      /\ ListsHoldNames => Innermost(infos, Cur, p)
  BY <1>1, InTheLoad
<1>3. toks[p] \notin Braces /\ Tok # Opener
  BY <1>2, PlainNoBrace DEF Braces
<1>4. ListsHoldNames => Innermost(infos, Cur, p + 1)
  <2>1. Innermost(infos, Cur, p) <=> Innermost(infos, Cur, p + 1)
    BY <1>2, <1>3, StepInnermost
  <2> QED
    BY <1>2, <2>1
<1> QED
  BY <1>2, <1>3, <1>4, WordKeeps

(* Neither kind of instruction changes how many blocks there are.             *)
LEMMA SameLength ==
  ASSUME NEW S, NEW s \in Seq(S), NEW t \in Seq(S), DOMAIN t = DOMAIN s
  PROVE  Len(t) = Len(s)
<1>1. Len(s) \in Nat /\ Len(t) \in Nat /\ 1..Len(t) = 1..Len(s)
  BY LenProperties
<1>2. ASSUME NEW m \in Nat, NEW n \in Nat, 1..m = 1..n PROVE m = n
  <2>1. m \in 1..n \/ m = 0
    BY <1>2
  <2>2. n \in 1..m \/ n = 0
    BY <1>2
  <2> QED
    BY <2>1, <2>2, <1>2
<1> QED
  BY <1>1, <1>2

(* An instruction for the block that is being loaded ...                      *)
LEMMA InstKeeps ==
  ASSUME LoaderInv, Loading, NEW op \in Opcodes \ (References \union LinkedOnly \union {"PopVar"}),
         NEW arg \in Nat, AddInst(Global(Cur), op, arg)
  PROVE  TableInv' /\ Outdate /\ Len(blockTable') = Len(blockTable)
<1>1. TableInv /\ Global(Cur) \in Blocks
  BY WhileLoading
<1>2. TableInv'
  BY <1>1, AddInstKeeps
<1>3. Outdate /\ DOMAIN blockTable' = DOMAIN blockTable
  BY DEF AddInst, Emit
<1>4. blockTable \in Seq(BlockInfo) /\ blockTable' \in Seq(BlockInfo)
  BY <1>1, <1>2 DEF TableInv
<1> QED
  BY <1>2, <1>3, <1>4, SameLength

(* ... and one that names another block.                                      *)
LEMMA ReferenceKeeps ==
  ASSUME LoaderInv, Loading, NEW op \in References, NEW i \in 1..Len(infos),
         AddReference(Global(Cur), op, Global(i))
  PROVE  TableInv' /\ Outdate /\ Len(blockTable') = Len(blockTable)
<1>1. TableInv /\ Global(Cur) \in Blocks /\ Len(blockTable) = prior + Len(infos)
      /\ prior \in Nat /\ Len(infos) \in Nat
  BY WhileLoading
<1>2. Global(i) \in Blocks
  BY <1>1 DEF Global, Blocks
<1>3. TableInv'
  BY <1>1, <1>2, AddReferenceKeeps
<1>4. Outdate /\ DOMAIN blockTable' = DOMAIN blockTable
  BY DEF AddReference, Emit
<1>5. blockTable \in Seq(BlockInfo) /\ blockTable' \in Seq(BlockInfo)
  BY <1>1, <1>3 DEF TableInv
<1> QED
  BY <1>3, <1>4, <1>5, SameLength

(* Apply, a variable, an operator, a literal and a call.                      *)
LEMMA PlainWordsKeep ==
  ASSUME LoaderInv, LoadApply \/ LoadVar \/ LoadOpr \/ LoadImm \/ LoadCallInst
  PROVE  LoaderInv'
<1>1. Word /\ Tok \notin Structural /\ MoveTo(p + 1) /\ phase = "load"
  BY DEF LoadApply, LoadVar, LoadOpr, LoadImm, LoadCallInst, IsVar, IsDef, IsOther,
         PlainWord, Word, InLoad
<1>2. /\ Loading /\ toks \in Seq(STRING) /\ Forest(toks, infos) /\ Cur \in 1..Len(infos)
  BY <1>1, InTheLoad
<1>3. TableInv' /\ Outdate /\ Len(blockTable') = Len(blockTable)
  <2>1. CASE LoadApply
    <3>1. AddInst(Global(Cur), "Apply", 0)
      BY <2>1 DEF LoadApply, AddInstApply
    <3>2. "Apply" \in Opcodes \ (References \union LinkedOnly \union {"PopVar"}) /\ 0 \in Nat
      BY DEF Opcodes, References, LinkedOnly
    <3> QED
      BY <1>2, <3>1, <3>2, InstKeeps
  <2>2. CASE LoadVar
    <3>1. AddInst(Global(Cur), "PushVar", FindVar(Tok).var) /\ VarScopes(Tok) # {}
      BY <2>2 DEF LoadVar, AddInstPushVar, IsVar
    <3>2. "PushVar" \in Opcodes \ (References \union LinkedOnly \union {"PopVar"})
      BY DEF Opcodes, References, LinkedOnly
    <3>3. FindVar(Tok).var \in Nat
      BY <1>2, <3>1, FindVarIs
    <3> QED
      BY <1>2, <3>1, <3>2, <3>3, InstKeeps
  <2>3. CASE LoadOpr
    <3>1. AddInst(Global(Cur), "Opr", OprOf[Tok]) /\ Tok \in DOMAIN OprOf
      BY <2>3 DEF LoadOpr, AddInstOpr
    <3>2. "Opr" \in Opcodes \ (References \union LinkedOnly \union {"PopVar"})
      BY DEF Opcodes, References, LinkedOnly
    <3>3. OprOf[Tok] \in Nat
      BY <3>1, WordsAssumption, PayloadAssumption
    <3> QED
      BY <1>2, <3>1, <3>2, <3>3, InstKeeps
  <2>4. CASE LoadImm
    <3>1. AddInst(Global(Cur), "PushImm", LiteralOf[Tok]) /\ Tok \in DOMAIN LiteralOf
      BY <2>4 DEF LoadImm, AddInstPushImm
    <3>2. "PushImm" \in Opcodes \ (References \union LinkedOnly \union {"PopVar"})
      BY DEF Opcodes, References, LinkedOnly
    <3>3. LiteralOf[Tok] \in Nat
      BY <3>1, WordsAssumption, PayloadAssumption
    <3> QED
      BY <1>2, <3>1, <3>2, <3>3, InstKeeps
  <2>5. CASE LoadCallInst
    <3>1. /\ AddReference(Global(Cur), "Call", Global(FindDef(Tok).block))
          /\ DefScopes(Tok) # {}
      BY <2>5 DEF LoadCallInst, AddInstCall, IsDef
    <3>2. FindDef(Tok).block \in 1..Len(infos)
      BY <1>2, <3>1, FindDefIs
    <3>3. "Call" \in References
      BY DEF References
    <3> QED
      BY <1>2, <3>1, <3>2, <3>3, ReferenceKeeps
  <2> QED
    BY <2>1, <2>2, <2>3, <2>4, <2>5
<1> QED
  BY <1>1, <1>3, PlainWordKeeps

(* A word that means nothing.                                                 *)
LEMMA UnknownKeeps ==
  ASSUME LoaderInv, LoadUnknown
  PROVE  LoaderInv'
  BY RejectKeeps DEF LoadUnknown, InLoad, Loading

(* The value of a block that has been loaded.                                 *)
LEMMA BlockValueKeeps ==
  ASSUME LoaderInv, LoadBlockValue
  PROVE  LoaderInv'
<1> DEFINE b == FindBlock(p)
<1>1. /\ Word /\ phase = "load" /\ p # End /\ Tok = Opener /\ infos[b].scope = Cur
      /\ AddReference(Global(Cur), "PushBlock", Global(b))
      /\ MoveTo(infos[b].end + 1)
  BY DEF LoadBlockValue, Word, InLoad, Opener, AddInstPushBlock
<1>2. /\ Loading /\ toks \in Seq(STRING) /\ Len(toks) \in Nat /\ End = Len(toks) + 1
      /\ p \in 1..Len(toks) /\ Tok = toks[p] /\ Len(infos) \in Nat
      /\ Cur \in 1..Len(infos) /\ Cur \in Nat /\ infos[1].scope = None
      /\ TreeDone(toks, infos) /\ Forest(toks, infos) /\ Ended(infos)
      /\ ListsHoldNames => (toks[1] = Opener => p = 1)
  BY <1>1, InTheLoad
<1>3. /\ b \in 1..Len(infos) /\ infos[b].begin = p
      /\ p # 1 => b \in 2..Len(infos)
      /\ p = 1 => b = 1
  BY <1>1, <1>2, FindBlockIs
<1> HIDE DEF b
<1>4. b \in 2..Len(infos) /\ p # 1
  <2>1. b # 1
    BY <1>1, <1>2 DEF None
  <2> QED
    BY <1>3, <2>1
<1>5. infos[b].end \in 1..Len(toks)
  BY <1>2, <1>4, InForest DEF Ended
<1>6. infos[b].end + 1 \in 1..End
  BY <1>2, <1>5
<1>7. Innermost(infos, Cur, infos[b].end + 1)
  <2>1. Innermost(infos, Cur, infos[b].begin)
    BY <1>1, <1>2, <1>4, InForest
  <2> QED
    BY <1>2, <1>4, <2>1, JumpInnermost
<1>8. ListsHoldNames => toks[1] # Opener
  BY <1>2, <1>4
<1>9. TableInv' /\ Outdate /\ Len(blockTable') = Len(blockTable)
  <2>1. "PushBlock" \in References
    BY DEF References
  <2> QED
    BY <1>1, <1>2, <1>3, <2>1, ReferenceKeeps
<1> QED
  BY <1>1, <1>6, <1>7, <1>8, <1>9, WordKeeps

(* A block value in another block than the one it belongs to.                 *)
LEMMA ForeignBlockKeeps ==
  ASSUME LoaderInv, LoadForeignBlock
  PROVE  LoaderInv'
<1> DEFINE b == FindBlock(p)
<1>1. /\ phase = "load" /\ p # End /\ Tok = Opener /\ infos[b].scope # Cur
      /\ phase' = "assertScope" /\ UNCHANGED << blockVars, toks, prior, infos, p >>
      /\ callStack' = callStack /\ error' = error
  BY DEF LoadForeignBlock, InLoad, Crash, Opener
<1>2. /\ Loading /\ toks \in Seq(STRING) /\ p \in 1..Len(toks) /\ Tok = toks[p]
      /\ Len(infos) \in Nat /\ Len(toks) \in Nat
      /\ callStack \in Seq(LoadCall) /\ error \in { "NONE", "Syntax", "UnkWord" }
      /\ TreeDone(toks, infos) /\ Forest(toks, infos)
      /\ ListsHoldNames => Innermost(infos, Cur, p)
  BY <1>1, InTheLoad, WhileLoading
<1>3. /\ infos[b].begin = p
      /\ p # 1 => b \in 2..Len(infos)
  BY <1>1, <1>2, FindBlockIs
<1> HIDE DEF b
<1>4. ~ WellFormed
  <2> SUFFICES ASSUME WellFormed PROVE FALSE
    OBVIOUS
  <2>1. ListsHoldNames /\ (toks # << >> => toks[1] # Opener)
    BY DEF WellFormed, Opener
  <2>2. toks # << >>
    BY <1>2
  <2>3. b \in 2..Len(infos)
    BY <1>1, <1>2, <1>3, <2>1, <2>2
  <2>4. Innermost(infos, infos[b].scope, p)
    BY <1>2, <1>3, <2>3, InForest
  <2> QED
    BY <1>1, <1>2, <2>1, <2>4, OneInnermost
<1>5. "assertScope" \in Crashes \union {"abandoned", "loaded"}
  BY DEF Crashes
<1> QED
  BY <1>1, <1>2, <1>4, <1>5, CrashKeeps

(* A list that does not end.                                                  *)
LEMMA OpenListKeeps ==
  ASSUME LoaderInv, LoadOpenList
  PROVE  LoaderInv'
<1>1. /\ phase = "load" /\ p # End /\ Tok = "[" /\ ListEnds = {}
      /\ phase' = "noToken" /\ UNCHANGED << blockVars, toks, prior, infos, p >>
      /\ callStack' = callStack /\ error' = error
  BY DEF LoadOpenList, InLoad, Crash
<1>2. /\ Loading /\ toks \in Seq(STRING) /\ p \in 1..Len(toks) /\ Tok = toks[p]
      /\ callStack \in Seq(LoadCall) /\ error \in { "NONE", "Syntax", "UnkWord" }
  BY <1>1, InTheLoad, WhileLoading
<1>3. ~ WellFormed
  BY <1>1, <1>2, ListIsClosed DEF WellFormed
<1>4. "noToken" \in Crashes \union {"abandoned", "loaded"}
  BY DEF Crashes
<1> QED
  BY <1>1, <1>2, <1>3, <1>4, CrashKeeps

(* A name that finds another definition than the one it stands in.            *)
LEMMA ForeignDefKeeps ==
  ASSUME LoaderInv, LoadForeignDef
  PROVE  LoaderInv'
<1>1. /\ phase = "load" /\ p # End /\ Tok \in DOMAIN DefOf /\ ~ DefHere
      /\ phase' = "assertDef" /\ UNCHANGED << blockVars, toks, prior, infos, p >>
      /\ callStack' = callStack /\ error' = error
  BY DEF LoadForeignDef, InLoad, Crash
<1>2. /\ Loading /\ toks \in Seq(STRING) /\ p \in 1..Len(toks)
      /\ callStack \in Seq(LoadCall) /\ error \in { "NONE", "Syntax", "UnkWord" }
      /\ TreeDone(toks, infos)
      /\ ListsHoldNames => Innermost(infos, Cur, p)
  BY <1>1, InTheLoad, WhileLoading
<1>3. ~ WellFormed
  <2> SUFFICES ASSUME WellFormed PROVE FALSE
    OBVIOUS
  <2>1. ListsHoldNames
    BY DEF WellFormed
  <2> QED
    BY <1>1, <1>2, <2>1, DefIsHere
<1>4. "assertDef" \in Crashes \union {"abandoned", "loaded"}
  BY DEF Crashes
<1> QED
  BY <1>1, <1>2, <1>3, <1>4, CrashKeeps

(* A definition, which is skipped.                                            *)
LEMMA LoadDefKeeps ==
  ASSUME LoaderInv, LoadDef
  PROVE  LoaderInv'
<1> DEFINE b == FindDef(DefOf[Tok]).block
<1>1. /\ Word /\ phase = "load" /\ p # End /\ Tok \in DOMAIN DefOf
      /\ DefScopes(DefOf[Tok]) # {} /\ infos[b].begin = p + 1
      /\ MoveTo(infos[b].end + 1)
      /\ blockTable' = blockTable /\ code' = code /\ codeUpdated' = codeUpdated
      /\ linked' = linked /\ unlinked' = unlinked
  BY DEF LoadDef, Word, InLoad, DefHere, blockVars
<1>2. /\ Loading /\ toks \in Seq(STRING) /\ Len(toks) \in Nat /\ End = Len(toks) + 1
      /\ p \in Nat /\ Tok = toks[p] /\ Cur \in 1..Len(infos)
      /\ callStack' = callStack /\ infos' = infos
      /\ CallsFit(toks, infos, callStack) /\ SameTree(infos, infos) /\ infos[1].loaded
      /\ Cur = callStack[Len(callStack)].block
      /\ TreeDone(toks, infos) /\ Forest(toks, infos) /\ Ended(infos)
      /\ ListsHoldNames =>
           /\ toks[1] = Opener => p = 1
           /\ Inside(infos, callStack, p) /\ Innermost(infos, Cur, p)
  BY <1>1, InTheLoad DEF Word
<1>3. b \in 2..Len(infos)
  BY <1>1, <1>2, FindDefIs
<1> HIDE DEF b
<1>4. infos[b].end \in 1..Len(toks)
  BY <1>2, <1>3, InForest DEF Ended
<1>5. p' = infos[b].end + 1 /\ p' \in 1..End
  <2> DEFINE e == infos[b].end
             n == Len(toks)
  <2>1. p' = e + 1 /\ e \in 1..n /\ n \in Nat /\ End = n + 1
    BY <1>1, <1>2, <1>4 DEF MoveTo
  <2> HIDE DEF e, n
  <2>2. e + 1 \in 1..(n + 1)
    BY <2>1
  <2> QED
    BY <2>1, <2>2 DEF e
<1>6. Tok \notin Braces /\ Tok # Opener
  BY <1>1, DefNoBrace DEF Braces
<1>7. ASSUME ListsHoldNames PROVE toks[1] # Opener /\ Inside(infos, callStack, infos[b].end + 1)
  <2>1. Innermost(infos, Cur, infos[b].begin)
    <3>1. Innermost(infos, Cur, p + 1)
      BY <1>2, <1>6, <1>7, StepInnermost
    <3> QED
      BY <1>1, <3>1
  <2>2. Innermost(infos, Cur, infos[b].end + 1)
    BY <1>2, <1>3, <2>1, JumpInnermost
  <2> QED
    BY <1>2, <1>6, <1>7, <2>2 DEF Inside
<1>8. TableInv'
  BY <1>1, <1>2, WhileLoading DEF TableInv
<1>9. /\ code' = << >> /\ codeUpdated' = FALSE /\ linked' = {} /\ unlinked' = {}
      /\ Len(blockTable') = Len(blockTable)
  BY <1>1, <1>2, WhileLoading
<1>10. toks' = toks /\ prior' = prior /\ phase' = "load" /\ error' = error
  BY <1>1 DEF MoveTo
<1> QED
  BY <1>1, <1>2, <1>5, <1>7, <1>8, <1>9, <1>10, LoadKeeps

(* A function on the first m numbers is a sequence.                           *)
LEMMA FunctionIsSeq ==
  ASSUME NEW S, NEW m \in Nat, NEW w \in [1..m -> S]
  PROVE  w \in Seq(S) /\ Len(w) = m
<1>1. w \in Seq(S)
  BY SeqDef
<1>2. DOMAIN w = 1..m
  OBVIOUS
<1> QED
  BY <1>1, <1>2, LenProperties

(* A list of variables.                                                       *)
LEMMA LoadVarsKeeps ==
  ASSUME LoaderInv, LoadVars
  PROVE  LoaderInv'
<1> DEFINE close == Min(ListEnds)
           names == BoundFirst(SubSeq(toks, p + 1, close - 1))
           m == Len(names)
           b == Global(Cur)
           n == blockTable[b].varCount
           v == infos[Cur].vars \o [k \in 1..m |-> [name |-> names[k], var |-> n + k - 1]]
<1>1. /\ phase = "load" /\ p # End /\ Tok = "[" /\ ListEnds # {}
      /\ infos' = [infos EXCEPT ![Cur].vars = v]
      /\ blockTable' =
           [blockTable EXCEPT
              ![b].code = @ \o [k \in 1..m |-> Inst("PopVar", n + k - 1)],
              ![b].varCount = @ + m]
      /\ Outdate /\ MoveTo(close + 1) /\ callStack' = callStack
  BY DEF LoadVars, InLoad
<1>2. /\ Loading /\ toks \in Seq(STRING) /\ Len(toks) \in Nat /\ End = Len(toks) + 1
      /\ p \in 1..Len(toks) /\ p \in Nat /\ Tok = toks[p]
      /\ infos \in Seq(LoadBlockInfo) /\ Len(infos) \in Nat /\ Len(infos) >= 1
      /\ Cur \in 1..Len(infos) /\ b \in Blocks
      /\ CallsFit(toks, infos, callStack) /\ infos[1].loaded
      /\ Cur = callStack[Len(callStack)].block
      /\ Forest(toks, infos) /\ Ended(infos)
      /\ ListsHoldNames =>
           /\ toks[1] = Opener => p = 1
           /\ Inside(infos, callStack, p) /\ Innermost(infos, Cur, p)
  BY <1>1, InTheLoad
<1>3. close \in (p + 1)..Len(toks) /\ close \in Nat
  <2>1. ListEnds \subseteq Nat /\ ListEnds \subseteq (p + 1)..Len(toks)
    BY <1>2 DEF ListEnds
  <2>2. Min(ListEnds) \in ListEnds
    BY <1>1, <2>1, MinIsLeast
  <2> QED
    BY <2>1, <2>2
<1> HIDE DEF close
<1>4. names \in Seq(STRING) /\ m \in Nat
  <2>1. SubSeq(toks, p + 1, close - 1) \in Seq(STRING)
    <3>1. \A i \in (p + 1)..(close - 1) : toks[i] \in STRING
      <4> TAKE i \in (p + 1)..(close - 1)
      <4>1. i \in 1..Len(toks)
        BY <1>2, <1>3
      <4> QED
        BY <1>2, <4>1, ElementOfSeq
    <3>2. p + 1 \in Int /\ close - 1 \in Int
      BY <1>2, <1>3
    <3> QED
      BY <1>2, <3>1, <3>2, SubSeqProperties
  <2> QED
    BY <2>1, NamesAreStrings
<1> HIDE DEF names
<1>5. n \in Nat
  <2>1. TableInv
    BY <1>2, WhileLoading
  <2>2. blockTable \in Seq(BlockInfo) /\ b \in 1..Len(blockTable)
    BY <1>2, <2>1 DEF TableInv, Blocks
  <2>3. blockTable[b] \in BlockInfo
    BY <2>2, ElementOfSeq
  <2> QED
    BY <2>3 DEF BlockInfo
<1>6. TableInv' /\ Len(blockTable') = Len(blockTable)
  <2>1. TableInv
    BY <1>2, WhileLoading
  <2> QED
    BY <1>1, <1>2, <1>4, <2>1, BindKeeps
<1> HIDE DEF b, n, m
<1>7. v \in Seq([name : STRING, var : Nat])
  <2> DEFINE w == [k \in 1..m |-> [name |-> names[k], var |-> n + k - 1]]
  <2>1. \A k \in 1..m : [name |-> names[k], var |-> n + k - 1] \in [name : STRING, var : Nat]
    <3> TAKE k \in 1..m
    <3>1. names[k] \in STRING
      BY <1>4, ElementOfSeq DEF m
    <3>2. n + k - 1 \in Nat
      BY <1>4, <1>5
    <3> QED
      BY <3>1, <3>2
  <2>2. w \in [1..m -> [name : STRING, var : Nat]]
    BY <2>1
  <2> HIDE DEF w
  <2>3. w \in Seq([name : STRING, var : Nat])
    <3>1. m \in Nat
      BY <1>4
    <3> QED
      BY <2>2, <3>1, FunctionIsSeq
  <2>4. infos[Cur].vars \in Seq([name : STRING, var : Nat])
    BY <1>2, InfoFields
  <2> QED
    BY <2>3, <2>4, ConcatProperties DEF w
<1> HIDE DEF v
<1>8. SameTree(infos, infos') /\ infos'[1].loaded
  <2>1. PICK g : g = [infos EXCEPT ![Cur].vars = v]
    OBVIOUS
  <2>2. SameTree(infos, g) /\ \A i \in 1..Len(infos) : infos[i].loaded => g[i].loaded
    BY <1>2, <1>7, <2>1, BoundIs, Zenon
  <2>3. 1 \in 1..Len(infos)
    BY <1>2
  <2> QED
    BY <1>1, <1>2, <2>1, <2>2, <2>3
<1>9. p' = close + 1 /\ p' \in 1..End
  BY <1>1, <1>2, <1>3 DEF MoveTo
<1>10. ASSUME ListsHoldNames PROVE toks[1] # Opener /\ Inside(infos, callStack, close + 1)
  <2>1. NoBrace(toks, p, close + 1)
    BY <1>1, <1>2, <1>10, ListIsClosed DEF close
  <2>2. toks[p] \notin Braces /\ p <= close + 1 /\ close + 1 \in Nat
    <3>1. p \in p..((close + 1) - 1) /\ p <= close + 1 /\ close + 1 \in Nat
      BY <1>2, <1>3
    <3> QED
      BY <2>1, <3>1 DEF NoBrace
  <2>3. Innermost(infos, Cur, close + 1)
    BY <1>2, <1>10, <2>1, <2>2, StretchInnermost
  <2>4. toks[1] # Opener
    BY <1>2, <1>10, <2>2 DEF Braces
  <2> QED
    BY <1>2, <1>10, <2>3, <2>4 DEF Inside
<1>11. toks' = toks /\ prior' = prior /\ phase' = "load" /\ error' = error
  BY <1>1 DEF MoveTo
<1>12. code' = << >> /\ codeUpdated' = FALSE /\ linked' = {} /\ unlinked' = {}
  BY <1>1, <1>2, WhileLoading DEF Outdate
<1> QED
  BY <1>1, <1>2, <1>6, <1>8, <1>9, <1>10, <1>11, <1>12, LoadKeeps

(* Every step.                                                                *)
LEMMA StepKeeps ==
  ASSUME LoaderInv, LoadStep
  PROVE  LoaderInv'
<1>1. ASSUME TreeEnd \/ TreeClose \/ TreeOpen \/ TreeDef \/ TreeOther PROVE LoaderInv'
  BY <1>1, TreeEndKeeps, TreeCloseKeeps, TreeOpenKeeps, TreeDefKeeps, TreeOtherKeeps
<1>2. ASSUME TreeUnclosed \/ TreeUnopened \/ TreeBadDef \/ TreeLostDef PROVE LoaderInv'
  BY <1>2, TreeStopsKeep
<1>3. ASSUME LoadEnd \/ LoadUnclosed \/ LoadClose \/ LoadMisplacedClose PROVE LoaderInv'
  BY <1>3, LoadEndKeeps, LoadCloseKeeps, MisplacedKeeps
<1>4. ASSUME LoadOpen \/ LoadBlockValue \/ LoadForeignBlock PROVE LoaderInv'
  BY <1>4, LoadOpenKeeps, BlockValueKeeps, ForeignBlockKeeps
<1>5. ASSUME LoadVars \/ LoadOpenList \/ LoadDef \/ LoadForeignDef PROVE LoaderInv'
  BY <1>5, LoadVarsKeeps, OpenListKeeps, LoadDefKeeps, ForeignDefKeeps
<1>6. ASSUME LoadApply \/ LoadVar \/ LoadOpr \/ LoadImm \/ LoadCallInst PROVE LoaderInv'
  BY <1>6, PlainWordsKeep
<1>7. ASSUME LoadCallee \/ LoadUnknown PROVE LoaderInv'
  BY <1>7, LoadCalleeKeeps, UnknownKeeps
<1> QED
  BY <1>1, <1>2, <1>3, <1>4, <1>5, <1>6, <1>7 DEF LoadStep

(* The state a load begins in: the blocks of the context are empty.           *)
LEMMA BeginsWell ==
  ASSUME LoadInit
  PROVE  LoaderInv
<1>1. /\ toks \in Seq(STRING) /\ prior \in Nat /\ p = 1 /\ phase = "tree" /\ error = "NONE"
      /\ code = << >> /\ codeUpdated = FALSE /\ linked = {} /\ unlinked = {}
  <2>1. PICK l \in Loads : toks = l.toks /\ prior = l.prior
    BY DEF LoadInit
  <2>2. l.toks \in Seq(STRING) /\ l.prior \in 0..MaxBlocks /\ MaxBlocks \in Nat
    BY LoadsAssumption, TableAssumption
  <2> QED
    BY <2>1, <2>2 DEF LoadInit
<1>2. Len(toks) \in Nat /\ p \in 1..End
  BY <1>1 DEF End
<1>3. TableInv /\ Len(blockTable) = prior + 1
  <2>1. EmptyBlock \in BlockInfo /\ EmptyBlock.code = << >> /\ EmptyBlock.varCount = 0
    <3>1. << >> \in Seq(Instruction)
      BY EmptySeq
    <3> QED
      BY <3>1 DEF EmptyBlock, BlockInfo
  <2>2. blockTable = [b \in 1..(prior + 1) |-> EmptyBlock]
    BY DEF LoadInit
  <2>3. \A b \in 1..(prior + 1) : blockTable[b] = EmptyBlock
    BY <2>2
  <2>4. blockTable \in [1..(prior + 1) -> BlockInfo] /\ prior + 1 \in Nat
    BY <1>1, <2>1, <2>2
  <2>5. blockTable \in Seq(BlockInfo) /\ Len(blockTable) = prior + 1
    BY <2>4, FunctionIsSeq
  <2>6. Good(blockTable)
    <3>1. AllProper(blockTable)
      BY <2>1, <2>3, <2>5, NoCode DEF AllProper
    <3>2. Counted(blockTable)
      BY <2>1, <2>3, <2>5, NoCode DEF Counted
    <3> QED
      BY <3>1, <3>2 DEF Good
  <2> QED
    BY <2>5, <2>6 DEF TableInv
<1>4. /\ infos \in Seq(LoadBlockInfo) /\ Len(infos) = 1
      /\ infos[1].scope = None /\ infos[1].begin = 1 /\ infos[1].end = None
      /\ ~ infos[1].loaded /\ infos[1].defs = << >> /\ infos[1].vars = << >>
  <2> DEFINE x == NewInfo(None, 1)
  <2>1. /\ x \in LoadBlockInfo /\ x.scope = None /\ x.begin = 1 /\ x.end = None
        /\ ~ x.loaded /\ x.defs = << >> /\ x.vars = << >>
    <3>1. << >> \in Seq([name : STRING, block : Nat]) /\ << >> \in Seq([name : STRING, var : Nat])
      BY EmptySeq
    <3> QED
      BY <3>1 DEF NewInfo, None, LoadBlockInfo
  <2>2. infos = << x >>
    BY DEF LoadInit
  <2> HIDE DEF x
  <2> QED
    BY <2>1, <2>2
<1>5. /\ callStack \in Seq(LoadCall) /\ Len(callStack) = 1
      /\ callStack[1].block = 1 /\ callStack[1].def = NoName
  <2> DEFINE x == [block |-> 1, def |-> NoName, retP |-> None]
  <2>1. x \in LoadCall /\ x.block = 1 /\ x.def = NoName
    BY WordsAssumption DEF LoadCall, None
  <2>2. callStack = << x >>
    BY DEF LoadInit
  <2> HIDE DEF x
  <2> QED
    BY <2>1, <2>2
<1>6. 2..1 = {} /\ 1..1 = {1} /\ 1..0 = {}
  OBVIOUS
<1>7. Forest(toks, infos)
  <2>1. DefsFit(toks, infos, 1)
    <3>1. Len(infos[1].defs) = 0
      BY <1>4
    <3> QED
      BY <1>6, <3>1 DEF DefsFit
  <2>2. AllApart(infos)
    BY <1>4, <1>6 DEF AllApart
  <2> QED
    BY <1>4, <1>6, <2>1, <2>2 DEF Forest
<1>8. OpenStack(toks, infos, callStack)
  <2>1. Rising(callStack)
    BY <1>5, <1>6 DEF Rising
  <2> QED
    BY <1>4, <1>5, <1>6, <2>1 DEF OpenStack
<1>9. ReadBefore(infos, p) /\ Untouched(infos)
  BY <1>4, <1>6 DEF ReadBefore, Untouched
<1>10. Balanced(toks, infos, callStack, p)
  BY <1>4, <1>5, <1>6 DEF Balanced
<1>11. AllNoted(toks, infos, callStack, p)
  <2>1. p - 1 = 0
    BY <1>1
  <2> QED
    BY <1>6, <2>1 DEF AllNoted
<1>12. TreeInv
  BY <1>7, <1>8, <1>9, <1>10, <1>11 DEF TreeInv, TreeAt
<1>13. Base
  BY <1>1, <1>2, <1>4, <1>5 DEF Base, Phases
<1>14. Unlinked
  BY <1>1, <1>3, <1>4 DEF Unlinked, TableInv
<1>15. phase \notin Crashes \union {"abandoned"}
  BY <1>1 DEF Crashes
<1> QED
  BY <1>1, <1>12, <1>13, <1>14, <1>15 DEF LoaderInv

(* What is said of the loader is said of its variables.                       *)
LEMMA SameKeeps ==
  ASSUME LoaderInv, toks' = toks, prior' = prior, infos' = infos, callStack' = callStack,
         p' = p, phase' = phase, error' = error,
         blockTable' = blockTable, code' = code, codeUpdated' = codeUpdated,
         linked' = linked, unlinked' = unlinked
  PROVE  LoaderInv'
<1>1. toks' = toks /\ prior' = prior /\ infos' = infos /\ callStack' = callStack
      /\ p' = p /\ phase' = phase /\ error' = error
      /\ blockTable' = blockTable /\ code' = code /\ codeUpdated' = codeUpdated
      /\ linked' = linked /\ unlinked' = unlinked
  OBVIOUS
<1>2. /\ WellFormed' <=> WellFormed
      /\ ListsHoldNames' <=> ListsHoldNames
  BY <1>1, SameWords
<1>3. Base' /\ Unlinked'
  BY <1>1 DEF LoaderInv, Base, Unlinked, TableInv, Loading, End
<1>4. phase' = "tree" => TreeInv'
  BY <1>1 DEF LoaderInv, TreeInv
<1>5. phase' = "load" => LoadInv'
  BY <1>1 DEF LoaderInv, LoadInv
<1>6. phase' = "load" /\ ListsHoldNames' => Tracked'
  BY <1>1, <1>2 DEF LoaderInv, Tracked
<1>7. WellFormed' => phase' \notin Crashes \union {"abandoned"}
  BY <1>1, <1>2 DEF LoaderInv
<1> QED
  BY <1>3, <1>4, <1>5, <1>6, <1>7 DEF LoaderInv

-------------------------------------------------------------------------------
(***************************************************************************)
(* The loader's invariant: at every step of both passes (LoadStep, that is *)
(* SR_manaLoadBlockDefTree and SR_manaLoadBlock) the block infos are the   *)
(* forest of the braces read so far, and the second pass is always inside  *)
(* the block it emits to.                                                  *)
(***************************************************************************)
THEOREM LoaderInvariance == LoadSpec => []LoaderInv
<1>1. LoadInit => LoaderInv
  BY BeginsWell
<1>2. LoaderInv /\ [LoadStep]_manaVars => LoaderInv'
  <2> SUFFICES ASSUME LoaderInv, [LoadStep]_manaVars PROVE LoaderInv'
    OBVIOUS
  <2>1. CASE LoadStep
    BY <2>1, StepKeeps
  <2>2. CASE UNCHANGED manaVars
    BY <2>2, SameKeeps DEF manaVars, loadVars, blockVars
  <2> QED
    BY <2>1, <2>2
<1> QED
  BY <1>1, <1>2, PTL DEF LoadSpec

(***************************************************************************)
(* The tables of the loader (LoadBlockInfo, the call stack, the position)  *)
(* keep their types, and so does the block table it writes to.             *)
(***************************************************************************)
THEOREM LoaderTypes == LoadSpec => []LoaderTypeOK
<1>1. LoaderInv => LoaderTypeOK
  <2> SUFFICES ASSUME LoaderInv PROVE LoaderTypeOK
    OBVIOUS
  <2>1. TypeOK
    <3>1. blockTable \in Seq(BlockInfo) /\ code = << >> /\ codeUpdated = FALSE
          /\ linked = {} /\ unlinked = {}
      BY DEF LoaderInv, Unlinked
    <3>2. << >> \in Seq(Instruction)
      BY EmptySeq
    <3> QED
      BY <3>1, <3>2 DEF TypeOK
  <2> QED
    BY <2>1 DEF LoaderInv, Base, LoaderTypeOK, End
<1> QED
  BY <1>1, LoaderInvariance, PTL

(***************************************************************************)
(* On a well-formed source no assertion of SR_manaLoadBlock fails and no   *)
(* token past the last is read, however blocks and definitions are nested; *)
(* a load that is rejected leaves the blocks it found.                     *)
(***************************************************************************)
THEOREM SafeLoads == LoadSpec => []SafeLoad
<1>1. LoaderInv => SafeLoad
  BY DEF LoaderInv, Unlinked, SafeLoad
<1> QED
  BY <1>1, LoaderInvariance, PTL
===============================================================================
