-------------------------- MODULE SorcerFaithful_proofs --------------------------
(***************************************************************************)
(* The compiler is faithful, for every source and every table of words:    *)
(* when a source has been loaded that has nothing but names in its lists,  *)
(* each block that was loaded has one instruction for each of its own      *)
(* words, in their order, and each says what its word means in the text    *)
(* (Faithful).                                                             *)
(*                                                                         *)
(* The inductive invariant says the same of every block that is being      *)
(* loaded, up to the position where it goes on.  The forest of blocks      *)
(* (SorcerMana_proofs) and what the blocks know of names                   *)
(* (SorcerProgram_proofs) relate what the loader looks up in its tables to *)
(* what stands in the text.                                                *)
(***************************************************************************)
EXTENDS SorcerProgram_proofs

-------------------------------------------------------------------------------
(* The blocks around a position, read in the text. *)

(* Two positions have the same owner if they lie in the same block. *)
LEMMA SameOwner ==
  ASSUME toks \in Seq(STRING), TreeDone(toks, infos),
         NEW k \in 1..Len(toks), NEW l \in 1..Len(toks), NEW c, Innermost(infos, c, k)
  PROVE  Owner(l) = Owner(k) <=> Innermost(infos, c, l)
<1>1. Forest(toks, infos) /\ Len(infos) \in Nat /\ Len(infos) >= 1
  BY DEF TreeDone, Forest
<1>2. PICK i \in 1..Len(infos) : Innermost(infos, i, l)
  BY <1>1, SomeInnermost
<1>3. c \in 1..Len(infos)
  BY DEF Innermost
<1>4. /\ i = 1 => Owner(l) = Nowhere
      /\ i # 1 => Owner(l) = infos[i].begin
  BY <1>2, OwnerIs
<1>5. /\ c = 1 => Owner(k) = Nowhere
      /\ c # 1 => Owner(k) = infos[c].begin
  BY OwnerIs
<1>6. ASSUME NEW j \in 1..Len(infos), j # 1
      PROVE  j \in 2..Len(infos) /\ infos[j].begin # Nowhere
  <2>1. j \in 2..Len(infos)
    BY <1>1, <1>6
  <2>2. infos[j].begin \in 1..Len(toks)
    BY <1>1, <2>1, InForest
  <2> QED
    BY <2>1, <2>2 DEF Nowhere
<1>7. ASSUME Owner(l) = Owner(k) PROVE i = c
  <2>1. CASE i = 1
    BY <1>3, <1>4, <1>5, <1>6, <1>7, <2>1
  <2>2. CASE c = 1
    BY <1>2, <1>4, <1>5, <1>6, <1>7, <2>2
  <2>3. CASE i # 1 /\ c # 1
    <3>1. i \in 2..Len(infos) /\ c \in 2..Len(infos) /\ infos[i].begin = infos[c].begin
      BY <1>2, <1>3, <1>4, <1>5, <1>6, <1>7, <2>3
    <3> QED
      BY <1>1, <3>1, InOrderOfBegin
  <2> QED
    BY <2>1, <2>2, <2>3
<1>8. ASSUME Innermost(infos, c, l) PROVE Owner(l) = Owner(k)
  <2>1. i = c
    BY <1>1, <1>2, <1>8, OneInnermost
  <2> QED
    BY <1>4, <1>5, <2>1
<1> QED
  BY <1>2, <1>7, <1>8

(* Of two blocks that a position lies in, the second lies in the first. *)
LEMMA SpansNest ==
  ASSUME NEW tk \in Seq(STRING), NEW inf, Forest(tk, inf), Ended(inf),
         NEW s \in 2..Len(inf), NEW i \in 1..Len(inf), i < s,
         NEW k \in Nat, Spans(inf, s, k), Spans(inf, i, k)
  PROVE  i <= inf[s].scope /\ inf[s].scope \in 1..(s - 1)
<1>1. Len(inf) \in Nat /\ Innermost(inf, inf[s].scope, inf[s].begin)
  BY InForest
<1>2. inf[s].scope \in 1..(s - 1)
  BY ScopeBelow
<1>3. Spans(inf, i, inf[s].begin)
  <2>1. CASE i = 1
    BY <2>1 DEF Spans
  <2>2. CASE i # 1
    <3>1. i \in 2..Len(inf)
      BY <1>1, <2>2
    <3>2. /\ inf[s].begin \in Nat /\ inf[s].end \in Nat /\ inf[s].end # None
          /\ inf[i].begin \in Nat /\ inf[i].end \in Nat /\ inf[i].end # None
      BY <3>1, InForest DEF Ended
    <3>3. inf[s].begin < k /\ k <= inf[i].end
      BY <1>1, <2>2, <3>2 DEF Spans
    <3>4. Apart(inf, i, s)
      BY <3>1 DEF Forest, AllApart
    <3>5. inf[i].begin < inf[s].begin /\ inf[s].begin <= inf[i].end
      BY <3>2, <3>3, <3>4 DEF Apart
    <3> QED
      BY <3>5 DEF Spans
  <2> QED
    BY <2>1, <2>2
<1> QED
  BY <1>1, <1>2, <1>3 DEF Innermost

(* So every block that a position lies in is a scope of the innermost one. *)
LEMMA ChainsReach ==
  ASSUME NEW tk \in Seq(STRING), NEW inf, Forest(tk, inf), Ended(inf),
         NEW f, Chains(inf, f), NEW k \in Nat
  PROVE  \A s \in 1..Len(inf) : Spans(inf, s, k) =>
           \A i \in 1..s : Spans(inf, i, k) => i \in f[s]
<1>1. Len(inf) \in Nat /\ \A s \in 1..Len(inf) : f[s] = {s} \union f[inf[s].scope]
  <2>1. \A s \in 0..Len(inf) : f[s] = IF s = 0 THEN {} ELSE {s} \union f[inf[s].scope]
    BY DEF Chains, None
  <2>2. Len(inf) \in Nat
    BY DEF Forest
  <2>3. ASSUME NEW s \in 1..Len(inf) PROVE f[s] = {s} \union f[inf[s].scope]
    <3>1. s \in 0..Len(inf) /\ s # 0
      OBVIOUS
    <3> QED
      BY <2>1, <3>1, Zenon
  <2> QED
    BY <2>2, <2>3
<1> DEFINE Reaches(s) == Spans(inf, s, k) => \A i \in 1..s : Spans(inf, i, k) => i \in f[s]
<1> DEFINE T == { n \in Nat : \A s \in 1..n : s <= Len(inf) => Reaches(s) }
<1>2. 0 \in T
  OBVIOUS
<1>3. ASSUME NEW n \in T PROVE n + 1 \in T
  <2>1. n \in Nat /\ \A s \in 1..n : s <= Len(inf) => Reaches(s)
    OBVIOUS
  <2>2. ASSUME n + 1 <= Len(inf), Spans(inf, n + 1, k),
               NEW i \in 1..(n + 1), Spans(inf, i, k)
        PROVE  i \in f[n + 1]
    <3>1. n + 1 \in 1..Len(inf) /\ i \in 1..Len(inf) /\ (n + 1) - 1 = n
      BY <1>1, <2>1, <2>2
    <3>2. f[n + 1] = {n + 1} \union f[inf[n + 1].scope]
      BY <1>1, <3>1
    <3>3. CASE i = n + 1
      BY <3>2, <3>3
    <3>4. CASE i # n + 1
      <4>1. n + 1 \in 2..Len(inf) /\ i < n + 1
        BY <1>1, <2>1, <3>1, <3>4
      <4>2. i <= inf[n + 1].scope /\ inf[n + 1].scope \in 1..n
        BY <2>2, <3>1, <4>1, SpansNest
      <4>3. Spans(inf, inf[n + 1].scope, k)
        BY <2>2, <4>1, ScopeSpans
      <4>4. Reaches(inf[n + 1].scope)
        BY <1>1, <2>1, <2>2, <4>2
      <4>5. i \in 1..inf[n + 1].scope
        BY <4>2
      <4> QED
        BY <2>2, <3>2, <4>3, <4>4, <4>5
    <3> QED
      BY <3>3, <3>4
  <2>3. \A s \in 1..(n + 1) : s = n + 1 \/ s \in 1..n
    BY <2>1
  <2>4. n + 1 <= Len(inf) => Reaches(n + 1)
    BY <2>2
  <2> HIDE DEF Reaches
  <2>5. \A s \in 1..(n + 1) : s <= Len(inf) => Reaches(s)
    BY <2>1, <2>3, <2>4
  <2> QED
    BY <2>1, <2>5
<1>4. T = Nat
  <2>1. T \subseteq Nat
    OBVIOUS
  <2> HIDE DEF T
  <2> QED
    BY <1>2, <1>3, <2>1, AllNumbers
<1> HIDE DEF Reaches
<1>5. ASSUME NEW s \in 1..Len(inf) PROVE Reaches(s)
  <2>1. s \in T /\ s \in 1..s /\ s <= Len(inf)
    BY <1>1, <1>4
  <2> QED
    BY <2>1
<1> QED
  BY <1>5 DEF Reaches

(* The blocks a position lies in are the scopes of the word that stands there. *)
LEMMA SpansIsScope ==
  ASSUME NEW tk \in Seq(STRING), Forest(tk, infos), Ended(infos),
         NEW c, NEW k \in Nat, Innermost(infos, c, k),
         NEW i \in 1..Len(infos), Spans(infos, i, k)
  PROVE  i \in Scopes(c)
<1>1. Len(infos) \in Nat /\ infos[1].scope = None
  BY DEF Forest
<1>2. ScopesBelow(infos)
  <2> SUFFICES ASSUME NEW s \in 1..Len(infos) PROVE infos[s].scope \in 0..(s - 1)
    BY DEF ScopesBelow
  <2>1. CASE s = 1
    BY <1>1, <2>1 DEF None
  <2>2. CASE s # 1
    <3>1. s \in 2..Len(infos)
      BY <1>1, <2>2
    <3>2. infos[s].scope \in 1..(s - 1)
      BY <3>1, ScopeBelow
    <3> QED
      BY <3>2
  <2> QED
    BY <2>1, <2>2
<1> DEFINE f == CHOOSE h : Chains(infos, h)
<1>3. Chains(infos, f)
  BY <1>1, <1>2, ChainsExist
<1>4. Scopes(c) = f[c]
  BY DEF Scopes, Chains
<1> HIDE DEF f
<1>5. c \in 1..Len(infos) /\ Spans(infos, c, k) /\ i \in 1..c
  BY <1>1 DEF Innermost
<1> QED
  BY <1>3, <1>4, <1>5, ChainsReach

-------------------------------------------------------------------------------
(* What has been compiled of a block. *)

(* Block a of the context is one of inf's, begins at k and is loaded. *)
LoadedIn(inf, a, k) ==
  /\ a > prior /\ a - prior \in 1..Len(inf)
  /\ inf[a - prior].begin = k /\ inf[a - prior].loaded

(* Instruction x is what position k means: Means, with the table inf. *)
Says(inf, k, x) ==
  \/ x.op = "PushBlock" /\ toks[k] = "{" /\ LoadedIn(inf, x.arg, k)
  \/ x.op = "PopVar" /\ Listed(k)
  \/ /\ x.op = "PushVar"
     /\ \E l \in IF OwnBindings(k) # {} THEN OwnBindings(k) ELSE Bindings(k) :
          x.arg = SlotOf(l)
  \/ /\ x.op = "Call"
     /\ OwnBindings(k) = {}
     /\ \E d \in Definitions(k) :
          /\ \A e \in Definitions(k) : Owner(e) <= Owner(d)
          /\ LoadedIn(inf, x.arg, d + 1)
  \/ x.op = "Apply" /\ toks[k] = "#"
  \/ x.op = "Opr" /\ toks[k] \in DOMAIN OprOf /\ x.arg = OprOf[toks[k]]
  \/ x.op = "PushImm" /\ toks[k] \in DOMAIN LiteralOf /\ x.arg = LiteralOf[toks[k]]

(* The words of block i before q that owe it an instruction, *)
Own(inf, i, q) == { k \in 1..Len(toks) : k < q /\ Innermost(inf, i, k) /\ Emits(k) }

(* and the names in its lists. *)
Names(inf, i, q) == { l \in 1..Len(toks) : l < q /\ Innermost(inf, i, l) /\ Listed(l) }

(* The code c is what the words of block i before q say. *)
Compiled(inf, i, c, q) ==
  /\ Len(c) = Cardinality(Own(inf, i, q))
  /\ \A k \in Own(inf, i, q) : Says(inf, k, c[Cardinality(Own(inf, i, k + 1))])

(* The entry e of the variables of block i. *)
VarIs(inf, i, e, q) == \E l \in Names(inf, i, q) : toks[l] = e.name /\ e.var = SlotOf(l)

(* Block i has bound the names in its lists before q, to n variables. *)
Binds(inf, i, n, q) ==
  /\ n = Cardinality(Names(inf, i, q))
  /\ \A x \in 1..Len(inf[i].vars) : VarIs(inf, i, inf[i].vars[x], q)

Done(inf, t, i, q) ==
  Compiled(inf, i, t[prior + i].code, q) /\ Binds(inf, i, t[prior + i].varCount, q)

LoadMore(inf, g) == \A a, k : LoadedIn(inf, a, k) => LoadedIn(g, a, k)

(* So it means that in the module's own table. *)
LEMMA SaysIs == \A k, x : Says(infos, k, x) => Means(k, x)
<1>1. \A a, d : LoadedIn(infos, a, d) => LoadedAt(a, d)
  BY Zenon DEF LoadedAt, LoadedIn
<1>2. ASSUME NEW k, NEW x, Says(infos, k, x) PROVE Means(k, x)
  BY <1>1, <1>2, ZenonT(40) DEF Means, Says
<1> QED
  BY <1>2

(* What an instruction says does not change when more is loaded. *)
LEMMA SaysMore ==
  ASSUME NEW inf, NEW g, LoadMore(inf, g), NEW k, NEW x, Says(inf, k, x)
  PROVE  Says(g, k, x)
  BY Zenon DEF Says, LoadMore

(* In a table with the same blocks the same words are a block's own. *)
LEMMA SameOwn ==
  ASSUME NEW inf, NEW g, SameBlocks(inf, g), NEW i, NEW q
  PROVE  Own(g, i, q) = Own(inf, i, q) /\ Names(g, i, q) = Names(inf, i, q)
<1>1. \A k : Innermost(g, i, k) <=> Innermost(inf, i, k)
  BY DEF SameBlocks
<1> QED
  BY <1>1 DEF Own, Names

(* They are finitely many. *)
LEMMA OwnIsFinite ==
  ASSUME toks \in Seq(STRING), NEW inf, NEW i, NEW q
  PROVE  /\ IsFiniteSet(Own(inf, i, q)) /\ Cardinality(Own(inf, i, q)) \in Nat
         /\ IsFiniteSet(Names(inf, i, q)) /\ Cardinality(Names(inf, i, q)) \in Nat
<1>1. Own(inf, i, q) \subseteq 1..Len(toks) /\ Names(inf, i, q) \subseteq 1..Len(toks)
  BY DEF Own, Names
<1>2. IsFiniteSet(1..Len(toks))
  BY FS_Interval
<1>3. IsFiniteSet(Own(inf, i, q)) /\ IsFiniteSet(Names(inf, i, q))
  BY <1>1, <1>2, FS_Subset
<1> QED
  BY <1>3, FS_CardinalityType

(* The positions from a to b follow those in S. *)
LEMMA CountOn ==
  ASSUME NEW S, IsFiniteSet(S), NEW a \in Nat, NEW b \in Nat, a <= b + 1,
         S \subseteq Nat, \A k \in S : k < a
  PROVE  /\ IsFiniteSet(S \union (a..b))
         /\ Cardinality(S \union (a..b)) = Cardinality(S) + (b - a) + 1
<1>1. IsFiniteSet(a..b) /\ Cardinality(a..b) = b - a + 1
  <2>1. IsFiniteSet(a..b) /\ Cardinality(a..b) = IF a > b THEN 0 ELSE b - a + 1
    BY FS_Interval
  <2> QED
    BY <2>1
<1>2. S \intersect (a..b) = {}
  OBVIOUS
<1>3. Cardinality(S \intersect (a..b)) = 0
  BY <1>2, FS_EmptySet
<1>4. Cardinality(S) \in Nat
  BY FS_CardinalityType
<1>5. /\ IsFiniteSet(S \union (a..b))
      /\ Cardinality(S \union (a..b)) =
           Cardinality(S) + Cardinality(a..b) - Cardinality(S \intersect (a..b))
  BY <1>1, FS_Union
<1> QED
  BY <1>1, <1>3, <1>4, <1>5

(* A word's place in the code: the words of its block up to it. *)
LEMMA PlaceIs ==
  ASSUME toks \in Seq(STRING), NEW inf, NEW i, NEW q \in Nat, NEW k \in Own(inf, i, q)
  PROVE  Cardinality(Own(inf, i, k + 1)) \in 1..Cardinality(Own(inf, i, q))
<1>1. k \in Nat /\ k < q /\ k \in 1..Len(toks)
  BY DEF Own
<1>2. Own(inf, i, k + 1) \subseteq Own(inf, i, q) /\ k \in Own(inf, i, k + 1)
  <2>1. \A m \in 1..Len(toks) : m < k + 1 => m < q
    BY <1>1
  <2>2. k < k + 1
    BY <1>1
  <2> QED
    BY <1>1, <2>1, <2>2 DEF Own
<1>3. IsFiniteSet(Own(inf, i, q)) /\ IsFiniteSet(Own(inf, i, k + 1))
  BY OwnIsFinite
<1>4. Cardinality(Own(inf, i, k + 1)) <= Cardinality(Own(inf, i, q))
  BY <1>2, <1>3, FS_Subset
<1>5. Cardinality(Own(inf, i, k + 1)) # 0
  BY <1>2, <1>3, FS_EmptySet
<1> QED
  BY <1>4, <1>5, OwnIsFinite

(* What is compiled stays compiled when more is loaded. *)
LEMMA CompiledSame ==
  ASSUME NEW inf, NEW g, SameBlocks(inf, g), LoadMore(inf, g),
         NEW i, NEW c, NEW q, Compiled(inf, i, c, q)
  PROVE  Compiled(g, i, c, q)
<1>1. \A r : Own(g, i, r) = Own(inf, i, r)
  BY SameOwn
<1>2. Len(c) = Cardinality(Own(g, i, q))
  BY <1>1 DEF Compiled
<1>3. ASSUME NEW k \in Own(g, i, q) PROVE Says(g, k, c[Cardinality(Own(g, i, k + 1))])
  <2>1. Own(g, i, k + 1) = Own(inf, i, k + 1) /\ k \in Own(inf, i, q)
    BY <1>1
  <2>2. Says(inf, k, c[Cardinality(Own(inf, i, k + 1))])
    BY <2>1 DEF Compiled
  <2> QED
    BY <2>1, <2>2, SaysMore
<1> QED
  BY <1>2, <1>3 DEF Compiled

(* So are the variables. *)
LEMMA BindsSame ==
  ASSUME NEW inf, NEW g, SameBlocks(inf, g), NEW i, g[i].vars = inf[i].vars,
         NEW n, NEW q, Binds(inf, i, n, q)
  PROVE  Binds(g, i, n, q)
<1>1. Names(g, i, q) = Names(inf, i, q)
  BY SameOwn
<1> QED
  BY <1>1 DEF Binds, VarIs

(* Where no word lies between, the same has been compiled. *)
LEMMA DoneMoves ==
  ASSUME NEW inf, NEW t, NEW i, NEW q, NEW r, Done(inf, t, i, q),
         Own(inf, i, r) = Own(inf, i, q), Names(inf, i, r) = Names(inf, i, q)
  PROVE  Done(inf, t, i, r)
<1>1. Compiled(inf, i, t[prior + i].code, r)
  BY DEF Done, Compiled
<1>2. Binds(inf, i, t[prior + i].varCount, r)
  BY DEF Done, Binds, VarIs
<1> QED
  BY <1>1, <1>2 DEF Done

(* The code d is c, and what the words from a to b say. *)
LEMMA CompiledOn ==
  ASSUME toks \in Seq(STRING), NEW inf, NEW i, NEW q \in Nat, NEW r \in Nat,
         NEW a \in Nat, NEW b \in Nat, q <= a, a <= b + 1, b < r,
         Own(inf, i, r) = Own(inf, i, q) \union (a..b),
         NEW c, Compiled(inf, i, c, q),
         NEW d, Len(d) = Len(c) + (b - a) + 1, \A j \in 1..Len(c) : d[j] = c[j],
         \A k \in a..b : Says(inf, k, d[Len(c) + (k - a) + 1])
  PROVE  Compiled(inf, i, d, r)
<1> DEFINE S == Own(inf, i, q)
<1>1. /\ IsFiniteSet(S) /\ Cardinality(S) \in Nat /\ Len(c) = Cardinality(S)
      /\ S \subseteq Nat /\ \A k \in S : k < q
  <2>1. IsFiniteSet(S) /\ Cardinality(S) \in Nat
    BY OwnIsFinite
  <2>2. Len(c) = Cardinality(S)
    BY DEF Compiled
  <2>3. S \subseteq Nat /\ \A k \in S : k < q
    BY DEF Own
  <2> QED
    BY <2>1, <2>2, <2>3
<1>2. \A k \in S : k < a
  BY <1>1
<1>3. ASSUME NEW k \in Nat, a <= k + 1
      PROVE  Cardinality(S \union (a..k)) = Len(c) + (k - a) + 1
  <2> HIDE DEF S
  <2>1. IsFiniteSet(S) /\ S \subseteq Nat
    BY <1>1
  <2>2. Cardinality(S \union (a..k)) = Cardinality(S) + (k - a) + 1
    BY <1>2, <1>3, <2>1, CountOn
  <2> QED
    BY <1>1, <2>2
<1>4. Len(d) = Cardinality(Own(inf, i, r))
  BY <1>3
<1>5. ASSUME NEW k \in S PROVE Says(inf, k, d[Cardinality(Own(inf, i, k + 1))])
  <2>1. Cardinality(Own(inf, i, k + 1)) \in 1..Len(c)
    BY <1>1, PlaceIs
  <2>2. Says(inf, k, c[Cardinality(Own(inf, i, k + 1))])
    BY DEF Compiled
  <2> QED
    BY <2>1, <2>2
<1>6. ASSUME NEW k \in a..b PROVE Says(inf, k, d[Cardinality(Own(inf, i, k + 1))])
  <2>1. k \in Nat /\ a <= k /\ k <= b /\ k + 1 <= r
    OBVIOUS
  <2>2. Own(inf, i, k + 1) = { m \in Own(inf, i, r) : m < k + 1 }
    <3>1. \A m \in 1..Len(toks) : m < k + 1 => m < r
      BY <2>1
    <3> QED
      BY <3>1 DEF Own
  <2>3. { m \in S \union (a..b) : m < k + 1 } = S \union (a..k)
    <3> HIDE DEF S
    <3>1. \A m \in S : m < k + 1
      BY <1>1, <1>2, <2>1
    <3>2. \A m \in a..b : m < k + 1 <=> m \in a..k
      BY <2>1
    <3>3. \A m \in a..k : m \in a..b
      BY <2>1
    <3> QED
      BY <3>1, <3>2, <3>3
  <2>4. Own(inf, i, k + 1) = S \union (a..k)
    BY <2>2, <2>3
  <2>5. a <= k + 1
    BY <2>1
  <2>6. Cardinality(S \union (a..k)) = Len(c) + (k - a) + 1
    BY <1>3, <2>1, <2>5
  <2>7. Cardinality(Own(inf, i, k + 1)) = Len(c) + (k - a) + 1
    BY <2>4, <2>6, Zenon
  <2> QED
    BY <2>7
<1> QED
  BY <1>4, <1>5, <1>6 DEF Compiled

-------------------------------------------------------------------------------
(* Which words are a block's own. *)

(* What owes an instruction, with the names of the brackets. *)
LEMMA EmitsIs ==
  \A k : Emits(k) <=> /\ toks[k] \notin {Closer, ListBegin}
                      /\ ~ Closes(k)
                      /\ ~ Defines(k)
                      /\ (toks[k] = Opener /\ k > 1 => ~ Defines(k - 1))
  BY Zenon DEF Emits, Closer, Opener, ListBegin

(* A bracket that closes a list. *)
LEMMA ClosesIs ==
  \A k : Closes(k) <=> /\ toks[k] = ListEnd /\ k > 1
                       /\ toks[k - 1] = ListBegin \/ InList(toks, k - 1)
  BY ListedIs, Zenon DEF Closes, ListBegin, ListEnd

(* A position outside all lists closes none. *)
LEMMA OutsideClosesNone ==
  ASSUME NEW k \in Nat, Outside(toks, k)
  PROVE  ~ Closes(k)
<1> SUFFICES ASSUME Closes(k) PROVE FALSE
  OBVIOUS
<1>1. k > 1 /\ (toks[k - 1] = ListBegin \/ InList(toks, k - 1))
  BY ClosesIs
<1>2. PICK b \in 1..(k - 1) :
        toks[b] = ListBegin /\ \A m \in (b + 1)..(k - 1) : toks[m] # ListEnd
  <2>1. CASE toks[k - 1] = ListBegin
    <3>1. k - 1 \in 1..(k - 1) /\ ((k - 1) + 1)..(k - 1) = {}
      BY <1>1
    <3> QED
      BY <2>1, <3>1
  <2>2. CASE InList(toks, k - 1)
    <3>1. PICK b \in 1..((k - 1) - 1) :
            /\ toks[b] = ListBegin
            /\ \A m \in (b + 1)..(k - 1) : toks[m] \notin {ListBegin, ListEnd}
      BY <2>2 DEF InList
    <3>2. b \in 1..(k - 1)
      OBVIOUS
    <3> QED
      BY <3>1, <3>2
  <2> QED
    BY <1>1, <2>1, <2>2
<1>3. PICK m \in (b + 1)..(k - 1) : toks[m] = ListEnd
  BY <1>2 DEF Outside
<1> QED
  BY <1>2, <1>3

(* A name in a list owes a binding. *)
LEMMA ListedEmits ==
  ASSUME toks \in Seq(STRING), ListsClosed(toks), NEW k \in 1..Len(toks), InList(toks, k)
  PROVE  Emits(k)
<1>1. toks[k] \notin Structural /\ toks[k] # ListEnd
  BY NamesArePlain
<1>2. toks[k] # Closer /\ toks[k] # Opener
  BY <1>1, PlainNoBrace DEF Braces
<1>3. toks[k] # ListBegin
  BY <1>1, BracketsAre
<1>4. ~ Closes(k)
  BY <1>1, ClosesIs
<1>5. ~ Defines(k)
  BY <1>1, Zenon DEF Defines, Structural
<1> QED
  BY <1>2, <1>3, <1>4, <1>5, EmitsIs

(* A step over one position. *)
LEMMA OwnSteps ==
  ASSUME toks \in Seq(STRING), NEW inf, NEW i, NEW k \in 1..Len(toks)
  PROVE  /\ Innermost(inf, i, k) /\ Emits(k) =>
              Own(inf, i, k + 1) = Own(inf, i, k) \union (k..k)
         /\ ~ Emits(k) => Own(inf, i, k + 1) = Own(inf, i, k)
         /\ ~ Listed(k) => Names(inf, i, k + 1) = Names(inf, i, k)
<1>1. k \in Nat /\ k..k = {k} /\ \A m \in 1..Len(toks) : m < k + 1 <=> m < k \/ m = k
  OBVIOUS
<1>2. ASSUME Innermost(inf, i, k), Emits(k)
      PROVE  Own(inf, i, k + 1) = Own(inf, i, k) \union (k..k)
  BY <1>1, <1>2 DEF Own
<1>3. ASSUME ~ Emits(k) PROVE Own(inf, i, k + 1) = Own(inf, i, k)
  BY <1>1, <1>3 DEF Own
<1>4. ASSUME ~ Listed(k) PROVE Names(inf, i, k + 1) = Names(inf, i, k)
  BY <1>1, <1>4 DEF Names
<1> QED
  BY <1>2, <1>3, <1>4

(* Nothing comes before the text. *)
LEMMA OwnAtStart ==
  ASSUME toks \in Seq(STRING), NEW inf, NEW i, NEW q \in 0..1
  PROVE  Own(inf, i, q) = {} /\ Names(inf, i, q) = {}
<1>1. \A k \in 1..Len(toks) : ~ (k < q)
  OBVIOUS
<1> QED
  BY <1>1 DEF Own, Names

(* A jump over a block: what it holds is not its scope's own. *)
LEMMA OwnJumps ==
  ASSUME toks \in Seq(STRING), NEW inf, Forest(toks, inf), Ended(inf),
         NEW b \in 2..Len(inf), NEW i, Innermost(inf, i, inf[b].begin)
  PROVE  /\ Own(inf, i, inf[b].end + 1) = Own(inf, i, inf[b].begin + 1)
         /\ Names(inf, i, inf[b].end + 1) = Names(inf, i, inf[b].begin + 1)
<1> DEFINE m == inf[b].begin
           e == inf[b].end
<1>1. /\ Len(inf) \in Nat /\ m \in Nat /\ e \in Nat /\ e # None /\ m < e
      /\ Innermost(inf, inf[b].scope, m)
  BY InForest DEF Ended
<1>2. i \in 1..(b - 1)
  <2>1. inf[b].scope = i
    BY <1>1, OneInnermost
  <2> QED
    BY <2>1, ScopeBelow
<1>3. ASSUME NEW k \in 1..Len(toks), Innermost(inf, i, k)
      PROVE  k < e + 1 <=> k < m + 1
  <2>1. ~ Spans(inf, b, k)
    <3>1. Spans(inf, b, k) => b <= i
      BY <1>3 DEF Innermost
    <3> QED
      BY <1>2, <3>1
  <2>2. ~ (m < k /\ k <= e)
    BY <2>1 DEF Spans
  <2> HIDE DEF m, e
  <2> QED
    BY <1>1, <2>2
<1> HIDE DEF m, e
<1>4. Own(inf, i, e + 1) = Own(inf, i, m + 1)
  BY <1>3 DEF Own
<1>5. Names(inf, i, e + 1) = Names(inf, i, m + 1)
  BY <1>3 DEF Names
<1> QED
  BY <1>4, <1>5 DEF m, e

(* A block is entered before its first word, *)
LEMMA OwnEnters ==
  ASSUME toks \in Seq(STRING), NEW inf, Forest(toks, inf), Ended(inf), NEW b \in 2..Len(inf)
  PROVE  Own(inf, b, inf[b].begin + 1) = {} /\ Names(inf, b, inf[b].begin + 1) = {}
<1>1. inf[b].begin \in Nat /\ b # 1
  BY InForest
<1>2. ASSUME NEW k \in 1..Len(toks), Innermost(inf, b, k) PROVE ~ (k < inf[b].begin + 1)
  <2>1. inf[b].begin < k
    BY <1>1, <1>2 DEF Innermost, Spans
  <2> QED
    BY <1>1, <2>1
<1> QED
  BY <1>2 DEF Own, Names

(* and its end is behind its last. *)
LEMMA OwnCloses ==
  ASSUME toks \in Seq(STRING), ListsClosed(toks), NEW inf, Forest(toks, inf), Ended(inf),
         NEW b \in 2..Len(inf)
  PROVE  /\ Own(inf, b, Len(toks) + 1) = Own(inf, b, inf[b].end)
         /\ Names(inf, b, Len(toks) + 1) = Names(inf, b, inf[b].end)
<1> DEFINE e == inf[b].end
<1>1. e \in 1..Len(toks) /\ e \in Nat /\ e # None /\ toks[e] = Closer /\ b # 1
  BY InForest DEF Ended
<1>2. ~ Emits(e)
  BY <1>1, EmitsIs
<1>3. ~ Listed(e)
  <2>1. toks[e] \in Structural
    BY <1>1, Zenon DEF Structural, Closer
  <2>2. ~ InList(toks, e)
    BY <1>1, <2>1, OutsideStructural
  <2> QED
    BY <2>2, ListedIs
<1>4. ASSUME NEW k \in 1..Len(toks), Innermost(inf, b, k)
      PROVE  k < Len(toks) + 1 /\ (k < e \/ k = e)
  <2>1. k <= e
    BY <1>1, <1>4 DEF Innermost, Spans
  <2> HIDE DEF e
  <2> QED
    BY <1>1, <2>1
<1> HIDE DEF e
<1>5. Own(inf, b, Len(toks) + 1) = Own(inf, b, e)
  BY <1>2, <1>4 DEF Own
<1>6. Names(inf, b, Len(toks) + 1) = Names(inf, b, e)
  BY <1>3, <1>4 DEF Names
<1> QED
  BY <1>5, <1>6 DEF e

(* The list from k to e gives its block the names between its brackets. *)
LEMMA OwnList ==
  ASSUME toks \in Seq(STRING), ListsClosed(toks), NEW inf, Forest(toks, inf), Ended(inf),
         NEW k \in 1..Len(toks), toks[k] = ListBegin, NEW e \in (k + 1)..Len(toks),
         toks[e] = ListEnd, \A m \in (k + 1)..(e - 1) : toks[m] # ListEnd,
         NoBrace(toks, k, e + 1), NEW c, Innermost(inf, c, k)
  PROVE  /\ Own(inf, c, e + 1) = Own(inf, c, k) \union ((k + 1)..(e - 1))
         /\ Names(inf, c, e + 1) = Names(inf, c, k) \union ((k + 1)..(e - 1))
         /\ \A m \in (k + 1)..(e - 1) : Listed(m) /\ Innermost(inf, c, m)
<1>1. k \in Nat /\ e \in Nat /\ k < e /\ e <= Len(toks) /\ Len(toks) \in Nat
  OBVIOUS
<1>2. /\ \A m \in (k + 1)..(e - 1) : InList(toks, m)
      /\ ~ InList(toks, e)
  BY ListIs
<1>3. ~ InList(toks, k)
  BY BracketsAre, OutsideStructural
<1>4. ~ Emits(k)
  BY EmitsIs
<1>5. ~ Emits(e)
  <2>1. Closes(e)
    <3>1. CASE e = k + 1
      <4>1. e - 1 = k /\ e > 1
        BY <1>1, <3>1
      <4> QED
        BY <4>1, ClosesIs
    <3>2. CASE e # k + 1
      <4>1. e - 1 \in (k + 1)..(e - 1) /\ e > 1
        BY <1>1, <3>2
      <4> QED
        BY <1>2, <4>1, ClosesIs
    <3> QED
      BY <3>1, <3>2
  <2> QED
    BY <2>1, EmitsIs
<1>6. ASSUME NEW m \in (k + 1)..(e - 1)
      PROVE  m \in 1..Len(toks) /\ Emits(m) /\ Listed(m) /\ Innermost(inf, c, m)
  <2>1. m \in 1..Len(toks) /\ m \in Nat /\ k <= m
    BY <1>1
  <2>2. InList(toks, m)
    BY <1>2
  <2>3. Innermost(inf, c, m)
    <3>1. NoBrace(toks, k, m)
      <4>1. \A x \in k..(m - 1) : x \in k..((e + 1) - 1)
        BY <1>1, <2>1
      <4> QED
        BY <4>1 DEF NoBrace
    <3> QED
      BY <1>1, <2>1, <3>1, StretchInnermost
  <2> QED
    BY <2>1, <2>2, <2>3, ListedEmits, ListedIs
<1>7. \A m \in 1..Len(toks) :
        m < e + 1 <=> m < k \/ m = k \/ m = e \/ m \in (k + 1)..(e - 1)
  BY <1>1
<1>8. Own(inf, c, e + 1) = Own(inf, c, k) \union ((k + 1)..(e - 1))
  BY <1>4, <1>5, <1>6, <1>7 DEF Own
<1>9. Names(inf, c, e + 1) = Names(inf, c, k) \union ((k + 1)..(e - 1))
  <2>1. ~ Listed(k) /\ ~ Listed(e)
    BY <1>2, <1>3, ListedIs
  <2> QED
    BY <1>6, <1>7, <2>1 DEF Names
<1> QED
  BY <1>6, <1>8, <1>9

-------------------------------------------------------------------------------
(* The variables that a list binds. *)

(* The list a name stands in ends before any position outside all lists. *)
LEMMA ListedEnds ==
  ASSUME NEW tk, NEW q \in Nat, Outside(tk, q), NEW x \in 1..(q - 1), InList(tk, x)
  PROVE  \E m \in x..(q - 1) : tk[m] = ListEnd
<1>1. PICK b \in 1..(x - 1) :
        tk[b] = ListBegin /\ \A m \in (b + 1)..x : tk[m] \notin {ListBegin, ListEnd}
  BY DEF InList
<1>2. b \in 1..(q - 1)
  OBVIOUS
<1>3. PICK m \in (b + 1)..(q - 1) : tk[m] = ListEnd
  BY <1>1, <1>2 DEF Outside
<1>4. ~ (m \in (b + 1)..x)
  BY <1>1, <1>3
<1>5. m \in x..(q - 1)
  BY <1>4
<1> QED
  BY <1>3, <1>5

(* The jth name from the end of a list is the jth that it binds. *)
LEMMA SlotIs ==
  ASSUME toks \in Seq(STRING), TreeDone(toks, infos), ListsClosed(toks),
         NEW k \in 1..Len(toks), toks[k] = ListBegin, NEW e \in (k + 1)..Len(toks),
         toks[e] = ListEnd, \A m \in (k + 1)..(e - 1) : toks[m] # ListEnd,
         NoBrace(toks, k, e + 1), Outside(toks, k),
         NEW c, Innermost(infos, c, k), NEW j \in 1..(e - k - 1)
  PROVE  SlotOf(e - j) = Cardinality(Names(infos, c, k)) + j - 1
<1>1. PICK l \in Nat : l = e - j /\ l \in (k + 1)..(e - 1) /\ l \in 1..Len(toks)
  OBVIOUS
<1>2. /\ k \in Nat /\ e \in Nat /\ k < l /\ l < e /\ e <= Len(toks) /\ Len(toks) \in Nat
  BY <1>1
<1>3. Forest(toks, infos) /\ Ended(infos)
  BY DoneEnded DEF TreeDone
<1>4. \A m \in (k + 1)..(e - 1) : Listed(m) /\ Innermost(infos, c, m)
  BY <1>3, OwnList
<1>5. Innermost(infos, c, l)
  BY <1>1, <1>4
<1>6. \A x \in 1..Len(toks) : Owner(x) = Owner(l) <=> Innermost(infos, c, x)
  BY <1>1, <1>5, SameOwner
<1> DEFINE N == Names(infos, c, k)
           After(x) == x < l /\ \E m \in x..l : toks[m] = ListEnd
           Later(x) == x > l /\ \A m \in l..x : toks[m] # ListEnd
<1>7. SlotOf(l) = Cardinality({ x \in 1..Len(toks) :
                    Listed(x) /\ Owner(x) = Owner(l) /\ (After(x) \/ Later(x)) })
  BY Zenon DEF SlotOf, ListEnd
<1>8. ASSUME NEW x \in 1..Len(toks), Listed(x), Innermost(infos, c, x), After(x)
      PROVE  x \in N
  <2>1. PICK m \in x..l : toks[m] = ListEnd
    BY <1>8
  <2>2. ~ (m \in (k + 1)..(e - 1))
    BY <2>1
  <2>3. x <= k
    BY <1>2, <2>2
  <2>4. x # k
    <3>1. ~ Listed(k)
      BY BracketsAre, OutsideStructural, ListedIs
    <3> QED
      BY <1>8, <3>1
  <2>5. x < k
    BY <1>2, <2>3, <2>4
  <2> QED
    BY <1>8, <2>5 DEF Names
<1>9. ASSUME NEW x \in 1..Len(toks), Later(x) PROVE x \in (l + 1)..(e - 1)
  <2>1. ~ (e \in l..x)
    BY <1>9
  <2>2. x > l
    BY <1>9
  <2> QED
    BY <1>2, <2>1, <2>2
<1>10. ASSUME NEW x \in N
       PROVE  x \in 1..Len(toks) /\ Listed(x) /\ Innermost(infos, c, x) /\ After(x)
  <2>1. x \in 1..Len(toks) /\ x < k /\ Listed(x) /\ Innermost(infos, c, x)
    BY DEF Names
  <2>2. x \in 1..(k - 1) /\ InList(toks, x)
    BY <1>2, <2>1, ListedIs
  <2>3. PICK m \in x..(k - 1) : toks[m] = ListEnd
    BY <1>2, <2>2, ListedEnds
  <2>4. m \in x..l /\ x < l
    BY <1>2, <2>1
  <2> QED
    BY <2>1, <2>3, <2>4
<1>11. ASSUME NEW x \in (l + 1)..(e - 1)
       PROVE  x \in 1..Len(toks) /\ Listed(x) /\ Innermost(infos, c, x) /\ Later(x)
  <2>1. x \in (k + 1)..(e - 1) /\ x \in 1..Len(toks) /\ x > l
    BY <1>2
  <2>2. \A m \in l..x : m \in (k + 1)..(e - 1)
    BY <1>2
  <2> QED
    BY <1>4, <2>1, <2>2
<1> HIDE DEF N, After, Later
<1>12. { x \in 1..Len(toks) : Listed(x) /\ Owner(x) = Owner(l) /\ (After(x) \/ Later(x)) }
         = N \union ((l + 1)..(e - 1))
  BY <1>4, <1>6, <1>8, <1>9, <1>10, <1>11
<1>13. Cardinality(N \union ((l + 1)..(e - 1))) = Cardinality(N) + ((e - 1) - (l + 1)) + 1
  <2>1. IsFiniteSet(N) /\ N \subseteq Nat /\ \A x \in N : x < l + 1
    <3>1. IsFiniteSet(N)
      BY OwnIsFinite DEF N
    <3>2. \A x \in N : x \in Nat /\ x < l + 1
      BY <1>2 DEF N, Names
    <3> QED
      BY <3>1, <3>2
  <2>2. l + 1 \in Nat /\ e - 1 \in Nat /\ l + 1 <= (e - 1) + 1
    BY <1>2
  <2> QED
    BY <2>1, <2>2, CountOn
<1>14. Cardinality(N) \in Nat
  BY OwnIsFinite DEF N
<1>15. Cardinality(N) + ((e - 1) - (l + 1)) + 1 = Cardinality(N) + j - 1
  BY <1>1, <1>2, <1>14
<1>16. SlotOf(l) = Cardinality(N) + j - 1
  BY <1>7, <1>12, <1>13, <1>15, Zenon
<1> QED
  BY <1>1, <1>16 DEF N


-------------------------------------------------------------------------------
(* The inductive invariant. *)

(* Where the block of call n goes on. *)
GoesOn(cs, n, q) == IF n = Len(cs) THEN q ELSE cs[n + 1].retP

(* Up to where block i has been compiled: not at all, wholly, or up to where  *)
(* its call goes on.                                                          *)
StopsAt(inf, cs, q, i, s) ==
  \/ ~ inf[i].loaded /\ s = 0
  \/ inf[i].loaded /\ (\A n \in 1..Len(cs) : cs[n].block # i) /\ s = Len(toks) + 1
  \/ \E n \in 1..Len(cs) : cs[n].block = i /\ s = GoesOn(cs, n, q)

(* No block is entered twice. *)
CallsLoaded(inf, cs) ==
  /\ \A n \in 1..Len(cs) : cs[n].block \in 1..Len(inf) /\ inf[cs[n].block].loaded
  /\ \A m, n \in 1..Len(cs) : cs[m].block = cs[n].block => m = n

(* A block never goes on between a definition's name and its brace. *)
WordBegins(s) == s = 1 \/ ~ Defines(s - 1)

Resumes(cs, q) == \A n \in 1..Len(cs) : WordBegins(GoesOn(cs, n, q))

AllDone(inf, t, cs, q) ==
  \A i \in 1..Len(inf) : \A s : StopsAt(inf, cs, q, i, s) => Done(inf, t, i, s)

FaithAt(inf, t, cs, q) ==
  CallsLoaded(inf, cs) /\ Resumes(cs, q) /\ AllDone(inf, t, cs, q)

(* Every block that has been loaded has been compiled wholly. *)
AllFinished(inf, t) ==
  \A i \in 1..Len(inf) : inf[i].loaded => Done(inf, t, i, Len(toks) + 1)

(* What is asked of the text during the second pass.  That it does not begin   *)
(* with a block need not be asked of a text that compiles (BraceFirst).        *)
Readable == ListsHoldNames /\ (toks # << >> => toks[1] # Opener)

FaithInv ==
  /\ phase = "load" /\ Readable => FaithAt(infos, blockTable, callStack, p)
  /\ phase = "loaded" /\ Readable => TreeDone(toks, infos) /\ AllFinished(infos, blockTable)

(* A source that begins with a block is not read beyond it. *)
BraceFirst ==
  toks # << >> /\ toks[1] = Opener => (phase = "load" => p = 1) /\ phase # "loaded"

(* The tables g and u are inf and t, but for what block c has of its own. *)
SameLoaded(inf, g) ==
  Len(g) = Len(inf) /\ \A i \in 1..Len(inf) : g[i].loaded <=> inf[i].loaded

SameWork(inf, t, g, u, i) ==
  /\ g[i].vars = inf[i].vars
  /\ u[prior + i].code = t[prior + i].code
  /\ u[prior + i].varCount = t[prior + i].varCount

OthersSame(inf, t, g, u, c) == \A i \in 1..Len(inf) : i # c => SameWork(inf, t, g, u, i)

(* What a block has done stays done. *)
LEMMA DoneSame ==
  ASSUME NEW inf, NEW g, SameBlocks(inf, g), LoadMore(inf, g), NEW t, NEW u,
         NEW i, SameWork(inf, t, g, u, i), NEW q, Done(inf, t, i, q)
  PROVE  Done(g, u, i, q)
<1>1. Compiled(g, i, t[prior + i].code, q)
  BY CompiledSame DEF Done
<1>2. g[i].vars = inf[i].vars
  BY DEF SameWork
<1>3. Binds(g, i, t[prior + i].varCount, q)
  BY <1>2, BindsSame DEF Done
<1> QED
  BY <1>1, <1>3, Zenon DEF Done, SameWork

(* A word: the block of the last call goes on to r. *)
LEMMA FaithMoves ==
  ASSUME NEW inf, NEW g, NEW t, NEW u, NEW cs, Len(cs) \in Nat, Len(cs) >= 1,
         NEW q, NEW r, FaithAt(inf, t, cs, q),
         SameBlocks(inf, g), LoadMore(inf, g), SameLoaded(inf, g),
         OthersSame(inf, t, g, u, cs[Len(cs)].block),
         Done(g, u, cs[Len(cs)].block, r), WordBegins(r)
  PROVE  FaithAt(g, u, cs, r)
<1>1. PICK L : L = Len(cs)
  OBVIOUS
<1>2. PICK c : c = cs[L].block
  OBVIOUS
<1>3. /\ L \in 1..Len(cs) /\ CallsLoaded(inf, cs)
  BY <1>1 DEF FaithAt
<1>4. CallsLoaded(g, cs)
  BY <1>3 DEF CallsLoaded, SameLoaded
<1>5. ASSUME NEW n \in 1..Len(cs) PROVE WordBegins(GoesOn(cs, n, r))
  <2>1. CASE n = Len(cs)
    BY <2>1 DEF GoesOn
  <2>2. CASE n # Len(cs)
    <3>1. GoesOn(cs, n, r) = GoesOn(cs, n, q)
      BY <2>2 DEF GoesOn
    <3> QED
      BY <3>1 DEF FaithAt, Resumes
  <2> QED
    BY <2>1, <2>2
<1>6. ASSUME NEW i \in 1..Len(g), NEW s, StopsAt(g, cs, r, i, s)
      PROVE  Done(g, u, i, s)
  <2>1. i \in 1..Len(inf) /\ (g[i].loaded <=> inf[i].loaded)
    BY DEF SameLoaded
  <2>2. CASE i = c
    <3>1. inf[i].loaded
      BY <1>2, <1>3, <2>2 DEF CallsLoaded
    <3>2. PICK n \in 1..Len(cs) : cs[n].block = i /\ s = GoesOn(cs, n, r)
      BY <1>2, <1>3, <1>6, <2>1, <2>2, <3>1 DEF StopsAt
    <3>3. n = L
      BY <1>2, <1>3, <2>2, <3>2 DEF CallsLoaded
    <3>4. s = r
      BY <1>1, <3>2, <3>3 DEF GoesOn
    <3> QED
      BY <1>1, <1>2, <2>2, <3>4
  <2>3. CASE i # c
    <3>1. ASSUME NEW n \in 1..Len(cs), cs[n].block = i, s = GoesOn(cs, n, r)
          PROVE  s = GoesOn(cs, n, q)
      BY <1>1, <1>2, <2>3, <3>1 DEF GoesOn
    <3>2. StopsAt(inf, cs, q, i, s)
      BY <1>6, <2>1, <3>1 DEF StopsAt
    <3>3. Done(inf, t, i, s)
      BY <2>1, <3>2 DEF FaithAt, AllDone
    <3>4. SameWork(inf, t, g, u, i)
      BY <1>1, <1>2, <2>1, <2>3 DEF OthersSame
    <3> QED
      BY <3>3, <3>4, DoneSame
  <2> QED
    BY <2>2, <2>3
<1> QED
  BY <1>4, <1>5, <1>6 DEF FaithAt, Resumes, AllDone

(* A block b that has not been loaded is entered at r. *)
LEMMA FaithEnters ==
  ASSUME toks \in Seq(STRING),
         NEW inf, NEW g, NEW t, NEW cs, Len(cs) \in Nat, Len(cs) >= 1,
         NEW q, NEW r, FaithAt(inf, t, cs, q),
         SameBlocks(inf, g), SameVars(inf, g),
         NEW b \in 1..Len(inf), ~ inf[b].loaded, g[b].loaded,
         \A i \in 1..Len(inf) : i # b => (g[i].loaded <=> inf[i].loaded),
         LoadMore(inf, g), NEW name, NEW dt, Pushed(cs, dt, b, name),
         dt[Len(cs) + 1].retP = q, WordBegins(r),
         Own(inf, b, r) = {}, Names(inf, b, r) = {}
  PROVE  FaithAt(g, t, dt, r)
<1>1. PICK L \in Nat : L = Len(cs)
  OBVIOUS
<1>2. /\ L >= 1 /\ Len(dt) = L + 1
      /\ \A n \in 1..L : dt[n] = cs[n]
      /\ dt[L + 1].block = b /\ dt[L + 1].retP = q
      /\ \A n : n \in 1..Len(dt) <=> (n \in 1..L \/ n = L + 1)
  BY <1>1 DEF Pushed
<1>3. /\ \A n \in 1..L : cs[n].block \in 1..Len(inf) /\ inf[cs[n].block].loaded
      /\ \A m, n \in 1..L : cs[m].block = cs[n].block => m = n
  BY <1>1 DEF FaithAt, CallsLoaded
<1>4. Len(g) = Len(inf)
  BY DEF SameVars
<1>5. \A n \in 1..L : cs[n].block # b
  BY <1>3
<1>12. ASSUME NEW n \in 1..Len(dt), dt[n].block = b PROVE n = L + 1
  <2>1. CASE n \in 1..L
    <3>1. dt[n] = cs[n] /\ cs[n].block # b
      BY <1>2, <1>5, <2>1
    <3> QED
      BY <1>12, <3>1
  <2> QED
    BY <1>2, <2>1
<1>6. CallsLoaded(g, dt)
  <2>1. ASSUME NEW n \in 1..Len(dt) PROVE dt[n].block \in 1..Len(g) /\ g[dt[n].block].loaded
    BY <1>2, <1>3, <1>4
  <2>2. ASSUME NEW m \in 1..Len(dt), NEW n \in 1..Len(dt), dt[m].block = dt[n].block
        PROVE  m = n
    <3>1. CASE dt[m].block = b
      BY <1>12, <2>2, <3>1
    <3>2. CASE dt[m].block # b
      <4>1. m # L + 1 /\ n # L + 1
        BY <1>2, <2>2, <3>2
      <4>2. m \in 1..L /\ n \in 1..L
        BY <1>2, <4>1
      <4>3. cs[m].block = cs[n].block
        BY <1>2, <2>2, <4>2
      <4> QED
        BY <1>3, <4>2, <4>3
    <3> QED
      BY <3>1, <3>2
  <2> QED
    BY <2>1, <2>2 DEF CallsLoaded
<1>7. ASSUME NEW n \in 1..L PROVE GoesOn(dt, n, r) = GoesOn(cs, n, q)
  <2>1. n # Len(dt)
    BY <1>2
  <2>2. CASE n = L
    BY <1>1, <1>2, <2>1, <2>2 DEF GoesOn
  <2>3. CASE n # L
    <3>1. n + 1 \in 1..L
      BY <2>3
    <3> QED
      BY <1>1, <1>2, <2>1, <2>3, <3>1 DEF GoesOn
  <2> QED
    BY <2>2, <2>3
<1>8. GoesOn(dt, L + 1, r) = r
  BY <1>2 DEF GoesOn
<1>9. Resumes(dt, r)
  <2>1. ASSUME NEW n \in 1..Len(dt) PROVE WordBegins(GoesOn(dt, n, r))
    <3>1. CASE n \in 1..L
      BY <1>1, <1>7, <3>1 DEF FaithAt, Resumes
    <3>2. CASE n = L + 1
      BY <1>8, <3>2
    <3> QED
      BY <1>2, <3>1, <3>2
  <2> QED
    BY <2>1 DEF Resumes
<1>10. ASSUME NEW i, SameWork(inf, t, g, t, i), NEW s, Done(inf, t, i, s) PROVE Done(g, t, i, s)
  BY <1>10, DoneSame
<1>11. ASSUME NEW i \in 1..Len(g), NEW s, StopsAt(g, dt, r, i, s)
       PROVE  Done(g, t, i, s)
  <2>1. i \in 1..Len(inf) /\ g[i].vars = inf[i].vars
    BY <1>4 DEF SameVars
  <2>2. SameWork(inf, t, g, t, i)
    BY <2>1 DEF SameWork
  <2>3. CASE i = b
    <3>1. PICK n \in 1..Len(dt) : dt[n].block = i /\ s = GoesOn(dt, n, r)
      BY <1>2, <1>11, <2>3 DEF StopsAt
    <3>2. s = r
      <4>1. n = L + 1
        BY <1>12, <2>3, <3>1
      <4> QED
        BY <1>8, <3>1, <4>1
    <3>3. StopsAt(inf, cs, q, i, 0)
      BY <2>3 DEF StopsAt
    <3>4. Done(inf, t, i, 0)
      BY <2>1, <3>3 DEF FaithAt, AllDone
    <3>5. Own(inf, i, 0) = {} /\ Names(inf, i, 0) = {}
      BY OwnAtStart
    <3>6. Done(inf, t, i, s)
      BY <2>3, <3>2, <3>4, <3>5, DoneMoves
    <3> QED
      BY <1>10, <2>2, <3>6
  <2>4. CASE i # b
    <3>1. g[i].loaded <=> inf[i].loaded
      BY <2>1, <2>4
    <3>2. StopsAt(inf, cs, q, i, s)
      <4>1. CASE ~ g[i].loaded /\ s = 0
        BY <3>1, <4>1 DEF StopsAt
      <4>2. CASE g[i].loaded /\ (\A n \in 1..Len(dt) : dt[n].block # i) /\ s = Len(toks) + 1
        <5>1. \A n \in 1..L : cs[n].block # i
          BY <1>2, <4>2
        <5> QED
          BY <1>1, <3>1, <4>2, <5>1 DEF StopsAt
      <4>3. CASE \E n \in 1..Len(dt) : dt[n].block = i /\ s = GoesOn(dt, n, r)
        <5>1. PICK n \in 1..Len(dt) : dt[n].block = i /\ s = GoesOn(dt, n, r)
          BY <4>3
        <5>2. n \in 1..L
          BY <1>2, <2>4, <5>1
        <5>3. cs[n].block = i /\ s = GoesOn(cs, n, q)
          BY <1>2, <1>7, <5>1, <5>2
        <5> QED
          BY <1>1, <5>2, <5>3 DEF StopsAt
      <4> QED
        BY <1>11, <4>1, <4>2, <4>3 DEF StopsAt
    <3>3. Done(inf, t, i, s)
      BY <2>1, <3>2 DEF FaithAt, AllDone
    <3> QED
      BY <1>10, <2>2, <3>3
  <2> QED
    BY <2>3, <2>4
<1> QED
  BY <1>6, <1>9, <1>11 DEF FaithAt, AllDone

(* The block of the last call ends at q, with nothing behind it. *)
LEMMA FaithReturns ==
  ASSUME NEW inf, NEW t, NEW cs, Len(cs) \in Nat, Len(cs) > 1, NEW q,
         FaithAt(inf, t, cs, q), NEW dt, Popped(cs, dt), NEW c, c = cs[Len(cs)].block,
         Own(inf, c, Len(toks) + 1) = Own(inf, c, q),
         Names(inf, c, Len(toks) + 1) = Names(inf, c, q)
  PROVE  FaithAt(inf, t, dt, cs[Len(cs)].retP)
<1>1. PICK L \in Nat : L = Len(cs)
  OBVIOUS
<1>2. PICK r : r = cs[L].retP
  OBVIOUS
<1>3. /\ L > 1 /\ Len(dt) = L - 1 /\ c = cs[L].block
      /\ \A n \in 1..Len(dt) : dt[n] = cs[n]
      /\ \A n : n \in 1..L <=> (n \in 1..Len(dt) \/ n = L)
      /\ \A n \in 1..Len(dt) : n # L
  BY <1>1 DEF Popped
<1>4. /\ \A n \in 1..L : cs[n].block \in 1..Len(inf) /\ inf[cs[n].block].loaded
      /\ \A m, n \in 1..L : cs[m].block = cs[n].block => m = n
  BY <1>1 DEF FaithAt, CallsLoaded
<1>5. CallsLoaded(inf, dt)
  BY <1>3, <1>4 DEF CallsLoaded
<1>6. ASSUME NEW n \in 1..Len(dt) PROVE GoesOn(dt, n, r) = GoesOn(cs, n, q)
  <2>1. n # Len(cs)
    BY <1>1, <1>3
  <2>2. CASE n = Len(dt)
    <3>1. n + 1 = L
      BY <1>3, <2>2
    <3> QED
      BY <1>2, <2>1, <2>2, <3>1 DEF GoesOn
  <2>3. CASE n # Len(dt)
    <3>1. n + 1 \in 1..Len(dt)
      BY <1>3, <2>3
    <3> QED
      BY <1>3, <2>1, <2>3, <3>1 DEF GoesOn
  <2> QED
    BY <2>2, <2>3
<1>7. Resumes(dt, r)
  <2>1. ASSUME NEW n \in 1..Len(dt) PROVE WordBegins(GoesOn(dt, n, r))
    BY <1>1, <1>3, <1>6 DEF FaithAt, Resumes
  <2> QED
    BY <2>1 DEF Resumes
<1>8. ASSUME NEW i \in 1..Len(inf), NEW s, StopsAt(inf, dt, r, i, s)
      PROVE  Done(inf, t, i, s)
  <2>1. CASE i = c
    <3>1. inf[i].loaded /\ \A n \in 1..Len(dt) : dt[n].block # i
      BY <1>3, <1>4, <2>1
    <3>2. s = Len(toks) + 1
      BY <1>8, <3>1 DEF StopsAt
    <3>3. StopsAt(inf, cs, q, i, q)
      BY <1>1, <1>3, <2>1 DEF StopsAt, GoesOn
    <3>4. Done(inf, t, i, q)
      BY <3>3 DEF FaithAt, AllDone
    <3> QED
      BY <2>1, <3>2, <3>4, DoneMoves
  <2>2. CASE i # c
    <3>1. StopsAt(inf, cs, q, i, s)
      <4>1. CASE ~ inf[i].loaded /\ s = 0
        BY <4>1 DEF StopsAt
      <4>2. CASE inf[i].loaded /\ (\A n \in 1..Len(dt) : dt[n].block # i) /\ s = Len(toks) + 1
        <5>1. \A n \in 1..L : cs[n].block # i
          BY <1>3, <2>2, <4>2
        <5> QED
          BY <1>1, <4>2, <5>1 DEF StopsAt
      <4>3. CASE \E n \in 1..Len(dt) : dt[n].block = i /\ s = GoesOn(dt, n, r)
        <5>1. PICK n \in 1..Len(dt) : dt[n].block = i /\ s = GoesOn(dt, n, r)
          BY <4>3
        <5>2. n \in 1..L /\ cs[n].block = i /\ s = GoesOn(cs, n, q)
          BY <1>3, <1>6, <5>1
        <5> QED
          BY <1>1, <5>2 DEF StopsAt
      <4> QED
        BY <1>8, <4>1, <4>2, <4>3 DEF StopsAt
    <3> QED
      BY <3>1 DEF FaithAt, AllDone
  <2> QED
    BY <2>1, <2>2
<1>9. FaithAt(inf, t, dt, r)
  BY <1>5, <1>7, <1>8 DEF FaithAt, AllDone
<1> QED
  BY <1>1, <1>2, <1>9

-------------------------------------------------------------------------------
(* What has to be shown of a step. *)

(* The text does not change, so neither does what its words mean. *)
LEMMA SameMeanings ==
  ASSUME toks' = toks, prior' = prior
  PROVE  /\ \A k : (Emits(k))' <=> Emits(k)
         /\ \A k : (Listed(k))' <=> Listed(k)
         /\ \A k : (Defines(k))' <=> Defines(k)
         /\ \A k : SlotOf(k)' = SlotOf(k)
         /\ \A k : Owner(k)' = Owner(k)
         /\ \A k : Bindings(k)' = Bindings(k)
         /\ \A k : OwnBindings(k)' = OwnBindings(k)
         /\ \A k : Definitions(k)' = Definitions(k)
<1>1. ASSUME NEW j, NEW k PROVE Opening(j, k)' = Opening(j, k)
  BY DEF Opening
<1>2. ASSUME NEW k PROVE Around(k)' = Around(k)
  BY <1>1 DEF Around, Opening
<1>3. ASSUME NEW k PROVE Owner(k)' = Owner(k)
  BY <1>2 DEF Owner
<1>4. ASSUME NEW k PROVE (Listed(k))' <=> Listed(k)
  BY DEF Listed
<1>5. ASSUME NEW k PROVE (Defines(k))' <=> Defines(k)
  BY DEF Defines
<1>6. ASSUME NEW k PROVE (Closes(k))' <=> Closes(k)
  BY <1>4, Zenon DEF Closes
<1>7. ASSUME NEW k PROVE (Emits(k))' <=> Emits(k)
  BY <1>5, <1>6, Zenon DEF Emits
<1>8. ASSUME NEW k PROVE Bindings(k)' = Bindings(k)
  BY <1>2, <1>3, <1>4 DEF Bindings
<1>9. ASSUME NEW k PROVE OwnBindings(k)' = OwnBindings(k)
  BY <1>3, <1>8 DEF OwnBindings
<1>10. ASSUME NEW k PROVE Definitions(k)' = Definitions(k)
  BY <1>2, <1>3, <1>5 DEF Definitions
<1>11. ASSUME NEW k PROVE SlotOf(k)' = SlotOf(k)
  BY <1>3, <1>4 DEF SlotOf
<1> QED
  BY <1>3, <1>4, <1>5, <1>7, <1>8, <1>9, <1>10, <1>11, Zenon

(* So what the invariant asks of the next state is asked of its tables, *)
LEMMA DoneNext ==
  ASSUME toks' = toks, prior' = prior, NEW i, NEW q
  PROVE  (Done(infos, blockTable, i, q))' <=> Done(infos', blockTable', i, q)
<1>1. ASSUME NEW a, NEW k PROVE (LoadedIn(infos, a, k))' <=> LoadedIn(infos', a, k)
  BY Zenon DEF LoadedIn
<1>2. ASSUME NEW k, NEW x PROVE (Says(infos, k, x))' <=> Says(infos', k, x)
  <2>1. ASSUME NEW d PROVE (LoadedIn(infos, x.arg, d))' <=> LoadedIn(infos', x.arg, d)
    BY <1>1
  <2>2. /\ OwnBindings(k)' = OwnBindings(k) /\ Bindings(k)' = Bindings(k)
        /\ Definitions(k)' = Definitions(k) /\ ((Listed(k))' <=> Listed(k))
    BY SameMeanings, Zenon
  <2>3. ASSUME NEW l PROVE SlotOf(l)' = SlotOf(l) /\ Owner(l)' = Owner(l)
    BY SameMeanings, Zenon
  <2> DEFINE V == IF OwnBindings(k) # {} THEN OwnBindings(k) ELSE Bindings(k)
  <2>4. V' = V
    BY <2>2, Zenon
  <2> DEFINE slot == \E l \in V : x.arg = SlotOf(l)
             last(d) == \A e \in Definitions(k) : Owner(e) <= Owner(d)
             inner == \E d \in Definitions(k) : last(d) /\ LoadedIn(infos, x.arg, d + 1)
             innerNext == \E d \in Definitions(k) : last(d) /\ LoadedIn(infos', x.arg, d + 1)
  <2>5. slot' <=> slot
    <3> HIDE DEF V
    <3> QED
      BY <2>3, <2>4, Zenon
  <2>6. inner' <=> innerNext
    <3>1. ASSUME NEW d PROVE last(d)' <=> last(d)
      <4>1. Owner(d)' = Owner(d) /\ \A e : Owner(e)' = Owner(e)
        BY <2>3
      <4>2. ASSUME last(d), NEW e \in Definitions(k)' PROVE Owner(e)' <= Owner(d)'
        BY <2>2, <4>1, <4>2
      <4>3. ASSUME last(d)', NEW e \in Definitions(k) PROVE Owner(e) <= Owner(d)
        BY <2>2, <4>1, <4>3
      <4> QED
        BY <4>2, <4>3
    <3> HIDE DEF last
    <3> QED
      BY <2>1, <2>2, <3>1, Zenon
  <2>7. (Says(infos, k, x))' <=>
          \/ x.op = "PushBlock" /\ toks[k] = "{" /\ LoadedIn(infos', x.arg, k)
          \/ x.op = "PopVar" /\ Listed(k)
          \/ x.op = "PushVar" /\ slot'
          \/ x.op = "Call" /\ OwnBindings(k) = {} /\ inner'
          \/ x.op = "Apply" /\ toks[k] = "#"
          \/ x.op = "Opr" /\ toks[k] \in DOMAIN OprOf /\ x.arg = OprOf[toks[k]]
          \/ x.op = "PushImm" /\ toks[k] \in DOMAIN LiteralOf /\ x.arg = LiteralOf[toks[k]]
    BY <2>1, <2>2, Zenon DEF Says
  <2>8. Says(infos', k, x) <=>
          \/ x.op = "PushBlock" /\ toks[k] = "{" /\ LoadedIn(infos', x.arg, k)
          \/ x.op = "PopVar" /\ Listed(k)
          \/ x.op = "PushVar" /\ slot
          \/ x.op = "Call" /\ OwnBindings(k) = {} /\ innerNext
          \/ x.op = "Apply" /\ toks[k] = "#"
          \/ x.op = "Opr" /\ toks[k] \in DOMAIN OprOf /\ x.arg = OprOf[toks[k]]
          \/ x.op = "PushImm" /\ toks[k] \in DOMAIN LiteralOf /\ x.arg = LiteralOf[toks[k]]
    BY Zenon DEF Says
  <2> HIDE DEF slot, inner, innerNext
  <2> QED
    BY <2>5, <2>6, <2>7, <2>8, Zenon
<1>3. ASSUME NEW r PROVE Own(infos, i, r)' = Own(infos', i, r)
  BY SameMeanings DEF Own, Innermost, Spans
<1>4. ASSUME NEW r PROVE Names(infos, i, r)' = Names(infos', i, r)
  BY SameMeanings DEF Names, Innermost, Spans
<1> QED
  BY <1>2, <1>3, <1>4, SameMeanings DEF Done, Compiled, Binds, VarIs

LEMMA FaithNext ==
  ASSUME toks' = toks, prior' = prior, FaithAt(infos', blockTable', callStack', p')
  PROVE  FaithAt(infos, blockTable, callStack, p)'
<1>1. ASSUME NEW i, NEW q
      PROVE  (Done(infos, blockTable, i, q))' <=> Done(infos', blockTable', i, q)
  BY DoneNext
<1>2. ASSUME NEW i, NEW s
      PROVE  (StopsAt(infos, callStack, p, i, s))' <=> StopsAt(infos', callStack', p', i, s)
  BY DEF StopsAt, GoesOn
<1>3. (AllDone(infos, blockTable, callStack, p))'
        <=> AllDone(infos', blockTable', callStack', p')
  BY <1>1, <1>2 DEF AllDone
<1>4. (Resumes(callStack, p))' <=> Resumes(callStack', p')
  BY SameMeanings DEF Resumes, WordBegins, GoesOn
<1> QED
  BY <1>3, <1>4 DEF FaithAt, CallsLoaded

(* and at the end of the load as well. *)
LEMMA FinishedNext ==
  ASSUME toks' = toks, prior' = prior, AllFinished(infos', blockTable')
  PROVE  AllFinished(infos, blockTable)'
<1>1. ASSUME NEW i, NEW q
      PROVE  (Done(infos, blockTable, i, q))' <=> Done(infos', blockTable', i, q)
  BY DoneNext
<1> QED
  BY <1>1 DEF AllFinished

(* A step of the second pass, *)
LEMMA FaithLoads ==
  ASSUME toks' = toks, prior' = prior, phase' = "load",
         ListsHoldNames /\ (toks # << >> => toks[1] # Opener) =>
           FaithAt(infos', blockTable', callStack', p')
  PROVE  FaithInv'
<1>1. ListsHoldNames' <=> ListsHoldNames
  BY SameText
<1>3. ASSUME ListsHoldNames', (toks # << >> => toks[1] # Opener)'
      PROVE  FaithAt(infos, blockTable, callStack, p)'
  BY <1>1, <1>3, FaithNext
<1> QED
  BY <1>3 DEF FaithInv, Readable

(* and one that does not go on loading. *)
LEMMA FaithStops ==
  ASSUME phase' \notin {"load", "loaded"}
  PROVE  FaithInv'
  BY DEF FaithInv

(* What the invariant says during the second pass. *)
LEMMA FaithInTheLoad ==
  ASSUME LoaderInv, NamesInv, FaithInv, phase = "load", ListsHoldNames,
         toks # << >> => toks[1] # Opener
  PROVE  /\ FaithAt(infos, blockTable, callStack, p)
         /\ ListsClosed(toks) /\ Innermost(infos, Cur, p)
         /\ p # End =>
              toks[1] # Opener /\ Placed(toks, infos, Cur, p) /\ Outside(toks, p)
         /\ Done(infos, blockTable, Cur, p) /\ WordBegins(p) /\ infos[Cur].loaded
<1>1. /\ Len(callStack) \in Nat /\ Len(callStack) >= 1 /\ Cur \in 1..Len(infos)
      /\ Cur = callStack[Len(callStack)].block /\ Innermost(infos, Cur, p)
      /\ toks \in Seq(STRING)
  BY InTheLoad
<1>2. Len(callStack) \in 1..Len(callStack)
  BY <1>1
<1>3. FaithAt(infos, blockTable, callStack, p)
  BY Zenon DEF FaithInv, Readable
<1>4. StopsAt(infos, callStack, p, Cur, p)
  BY <1>1, <1>2 DEF StopsAt, GoesOn
<1>5. Done(infos, blockTable, Cur, p)
  BY <1>1, <1>3, <1>4 DEF FaithAt, AllDone
<1>6. WordBegins(p)
  <2>1. GoesOn(callStack, Len(callStack), p) = p
    BY DEF GoesOn
  <2> QED
    BY <1>2, <1>3, <2>1 DEF FaithAt, Resumes
<1>7. infos[Cur].loaded
  BY <1>1, <1>2, <1>3 DEF FaithAt, CallsLoaded
<1>8. ListsClosed(toks)
  BY NamesInTheLoad
<1>9. ASSUME p # End PROVE toks[1] # Opener /\ Placed(toks, infos, Cur, p)
  <2>1. p \in 1..Len(toks)
    BY <1>9, InTheLoad
  <2>2. toks # << >>
    BY <2>1
  <2>3. toks[1] # Opener
    BY <2>2
  <2> QED
    BY <2>3, NamesInTheLoad
<1> QED
  BY <1>1, <1>3, <1>5, <1>6, <1>7, <1>8, <1>9 DEF Placed

-------------------------------------------------------------------------------
(* What the loader looks up is what the word means. *)

(* Every block has been compiled up to somewhere. *)
LEMMA SomeStop ==
  ASSUME NEW inf, NEW cs, NEW q, NEW i
  PROVE  \E s : StopsAt(inf, cs, q, i, s)
<1>1. CASE \E n \in 1..Len(cs) : cs[n].block = i
  BY <1>1 DEF StopsAt
<1>2. CASE ~ inf[i].loaded
  BY <1>2 DEF StopsAt
<1>3. CASE inf[i].loaded /\ \A n \in 1..Len(cs) : cs[n].block # i
  BY <1>3 DEF StopsAt
<1> QED
  BY <1>1, <1>2, <1>3

(* So its variables are those of its lists. *)
LEMMA VarsAreNames ==
  ASSUME FaithAt(infos, blockTable, callStack, p), NEW i \in 1..Len(infos),
         NEW x \in 1..Len(infos[i].vars)
  PROVE  \E q : VarIs(infos, i, infos[i].vars[x], q)
<1>1. PICK s : StopsAt(infos, callStack, p, i, s)
  BY SomeStop
<1>2. Done(infos, blockTable, i, s)
  BY <1>1 DEF FaithAt, AllDone
<1> QED
  BY <1>2 DEF Done, Binds

(* A name that the block of p has bound before p is found there. *)
LEMMA OwnIsFound ==
  ASSUME toks \in Seq(STRING), TreeDone(toks, infos), Cur \in 1..Len(infos),
         p \in 1..Len(toks), Innermost(infos, Cur, p), Placed(toks, infos, Cur, p),
         OwnBindings(p) # {}
  PROVE  VarScopes(Tok) # {} /\ Max(VarScopes(Tok)) = Cur
<1>1. PICK o : o \in OwnBindings(p)
  OBVIOUS
<1>2. Forest(toks, infos) /\ Tok = toks[p]
  BY DEF TreeDone, Tok
<1>3. /\ o \in 1..(p - 1) /\ InList(toks, o) /\ toks[o] = Tok
      /\ Innermost(infos, Cur, o)
  BY <1>1, <1>2, OwnIsInnermost
<1>4. Known(infos, Cur, Tok)
  BY <1>3 DEF Placed
<1>5. infos[Cur].vars \in Seq([name : STRING, var : Nat])
  BY <1>2, InfoFields DEF Forest
<1>6. Knows(infos[Cur].vars, Tok)
  BY <1>4, <1>5 DEF Known, Knows
<1>7. Cur \in VarScopes(Tok)
  BY <1>2, <1>6, ScopesAre DEF VarScopes
<1>8. VarScopes(Tok) \in SUBSET Scopes(Cur)
  BY DEF VarScopes
<1> QED
  BY <1>2, <1>7, <1>8, KnowingScopes

(* The variable that a word finds. *)
LEMMA VarSays ==
  ASSUME toks \in Seq(STRING), TreeDone(toks, infos), Cur \in 1..Len(infos),
         p \in 1..Len(toks), Innermost(infos, Cur, p), Placed(toks, infos, Cur, p),
         FaithAt(infos, blockTable, callStack, p), Done(infos, blockTable, Cur, p),
         VarScopes(Tok) # {}
  PROVE  Says(infos, p, Inst("PushVar", FindVar(Tok).var))
<1>1. Forest(toks, infos) /\ Tok = toks[p]
  BY DEF TreeDone, Tok
<1>2. PICK m : m = Max(VarScopes(Tok))
  OBVIOUS
<1>3. VarScopes(Tok) \in SUBSET Scopes(Cur)
  BY DEF VarScopes
<1>4. m \in VarScopes(Tok) /\ m \in 1..Len(infos)
  BY <1>1, <1>2, <1>3, KnowingScopes
<1>5. m \in Scopes(Cur) /\ Knows(infos[m].vars, Tok)
  BY <1>4 DEF VarScopes
<1>6. infos[m].vars \in Seq([name : STRING, var : Nat])
  BY <1>1, <1>4, InfoFields DEF Forest
<1>7. PICK x \in 1..Len(infos[m].vars) :
        First(infos[m].vars, Tok) = infos[m].vars[x] /\ infos[m].vars[x].name = Tok
  BY <1>5, <1>6, FirstIs
<1>8. FindVar(Tok) = infos[m].vars[x]
  BY <1>2, <1>7 DEF FindVar
<1>9. PICK v : v = FindVar(Tok).var
  OBVIOUS
<1>10. ASSUME NEW q, VarIs(infos, m, infos[m].vars[x], q)
       PROVE  \E l \in Names(infos, m, q) : toks[l] = Tok /\ v = SlotOf(l)
  BY <1>7, <1>8, <1>9, <1>10 DEF VarIs
<1>11. ASSUME NEW q, NEW l \in Names(infos, m, q), toks[l] = Tok
       PROVE  l \in Bindings(p) /\ l \in 1..Len(toks)
  <2>1. l \in 1..Len(toks) /\ Innermost(infos, m, l) /\ InList(toks, l)
    BY ListedIs DEF Names
  <2> QED
    BY <1>1, <1>5, <1>11, <2>1, ListedIsBinding
<1>12. CASE OwnBindings(p) # {}
  <2>1. m = Cur
    BY <1>2, <1>12, OwnIsFound
  <2>2. VarIs(infos, m, infos[m].vars[x], p)
    BY <1>7, <2>1 DEF Done, Binds
  <2>3. PICK l \in Names(infos, m, p) : toks[l] = Tok /\ v = SlotOf(l)
    BY <1>10, <2>2
  <2>4. l \in Bindings(p) /\ l \in 1..Len(toks)
    BY <1>11, <2>3
  <2>5. l < p /\ Innermost(infos, Cur, l)
    BY <2>1 DEF Names
  <2>6. Owner(l) = Owner(p)
    BY <2>4, <2>5, SameOwner
  <2>7. l \in OwnBindings(p)
    BY <2>4, <2>5, <2>6 DEF OwnBindings
  <2> QED
    BY <1>9, <1>12, <2>3, <2>7, Zenon DEF Says, Inst
<1>13. CASE OwnBindings(p) = {}
  <2>1. PICK q : VarIs(infos, m, infos[m].vars[x], q)
    BY <1>4, VarsAreNames
  <2>2. PICK l \in Names(infos, m, q) : toks[l] = Tok /\ v = SlotOf(l)
    BY <1>10, <2>1
  <2>3. l \in Bindings(p)
    BY <1>11, <2>2
  <2> QED
    BY <1>9, <1>13, <2>2, <2>3, Zenon DEF Says, Inst
<1> QED
  BY <1>12, <1>13

(* A definition in the text is known to the block it stands in. *)
LEMMA DefIsKnown ==
  ASSUME toks \in Seq(STRING), TreeDone(toks, infos), NEW e \in 1..Len(toks), Defines(e),
         NEW i, Innermost(infos, i, e)
  PROVE  i \in 1..Len(infos) /\ Knows(infos[i].defs, DefOf[toks[e]])
<1>1. /\ Forest(toks, infos) /\ AllEnded(toks, infos) /\ Ended(infos)
      /\ AllNoted(toks, infos, << >>, Len(toks) + 1)
      /\ Len(infos) \in Nat /\ i \in 1..Len(infos) /\ e \in Nat
  BY DoneEnded DEF TreeDone, Forest, Innermost
<1>2. toks[e] \in DOMAIN DefOf /\ toks[e] \notin Braces
  BY DefNoBrace DEF Defines
<1>3. PICK name : name = DefOf[toks[e]]
  OBVIOUS
<1>4. PICK j \in 2..Len(infos) : infos[j].begin = e + 1 /\ NameKept(infos, << >>, j, name)
  BY <1>1, <1>2, <1>3 DEF AllNoted, Noted
<1>5. Innermost(infos, infos[j].scope, e + 1)
  BY <1>1, <1>4, InForest
<1>6. Innermost(infos, infos[j].scope, e)
  BY <1>1, <1>2, <1>5, StepInnermost
<1>7. infos[j].scope = i
  BY <1>1, <1>6, OneInnermost
<1>8. PICK x \in 1..Len(infos[i].defs) : infos[i].defs[x] = [name |-> name, block |-> j]
  BY <1>1, <1>4, <1>7 DEF NameKept, Ended
<1>9. infos[i].defs \in Seq([name : STRING, block : Nat])
  BY <1>1, InfoFields DEF Forest
<1>10. x \in DOMAIN infos[i].defs /\ infos[i].defs[x].name = name
  BY <1>8, <1>9
<1> QED
  BY <1>1, <1>3, <1>10, Zenon DEF Knows

(* The definition that fits an entry of block m stands in that block. *)
LEMMA DefStands ==
  ASSUME toks \in Seq(STRING), TreeDone(toks, infos), NEW m, NEW d, DefFits(toks, infos, m, d)
  PROVE  /\ d.block \in 2..Len(infos)
         /\ infos[d.block].begin \in Nat /\ infos[d.block].begin - 1 \in 1..Len(toks)
         /\ Defines(infos[d.block].begin - 1)
         /\ DefOf[toks[infos[d.block].begin - 1]] = d.name
         /\ Innermost(infos, m, infos[d.block].begin - 1)
<1>1. Forest(toks, infos) /\ Ended(infos)
  BY DoneEnded DEF TreeDone
<1>2. PICK b : b = d.block
  OBVIOUS
<1>3. PICK k : k = infos[b].begin
  OBVIOUS
<1>4. /\ b \in 2..Len(infos) /\ infos[b].scope = m
      /\ HasName(toks, k) /\ d.name = NameOf(toks, k)
  BY <1>2, <1>3, Zenon DEF DefFits
<1>5. k \in Nat /\ Innermost(infos, m, k)
  BY <1>1, <1>3, <1>4, InForest
<1>6. k - 1 \in 1..Len(toks) /\ toks[k - 1] \in DOMAIN DefOf
  BY <1>4 DEF HasName
<1>7. k - 1 \in Nat /\ (k - 1) + 1 = k
  BY <1>5, <1>6
<1>8. toks[k - 1] \notin Braces
  BY <1>6, DefNoBrace
<1>9. Innermost(infos, m, k - 1)
  BY <1>1, <1>5, <1>7, <1>8, StepInnermost
<1> QED
  BY <1>2, <1>3, <1>4, <1>5, <1>6, <1>9 DEF Defines, NameOf

(* The innermost definition of a word is the one it finds. *)
LEMMA FoundIsInnermost ==
  ASSUME toks \in Seq(STRING), TreeDone(toks, infos), Cur \in 1..Len(infos),
         p \in 1..Len(toks), Innermost(infos, Cur, p), DefScopes(Tok) # {},
         NEW d \in 1..Len(toks), Innermost(infos, Max(DefScopes(Tok)), d)
  PROVE  /\ Owner(d) \in Around(p) \union {Nowhere}
         /\ \A e \in Definitions(p) : Owner(e) <= Owner(d)
<1>1. /\ Forest(toks, infos) /\ Ended(infos) /\ Tok = toks[p] /\ Len(infos) \in Nat
      /\ infos \in Seq(LoadBlockInfo) /\ p \in Nat
  BY DoneEnded DEF TreeDone, Tok, Forest
<1>2. PICK S : S = DefScopes(Tok)
  OBVIOUS
<1>3. S \in SUBSET Scopes(Cur) /\ Scopes(Cur) \subseteq 1..Cur
  BY <1>1, <1>2, ScopesAre DEF DefScopes
<1>4. PICK m : m = Max(S)
  OBVIOUS
<1>5. m \in S /\ (\A y \in S : y <= m)
  <2>1. S \in SUBSET (0..Len(infos))
    BY <1>1, <1>3
  <2> QED
    BY <1>1, <1>2, <1>4, <2>1, GreatestNumber
<1>6. m \in Scopes(Cur) /\ m \in 1..Len(infos)
  BY <1>1, <1>3, <1>5
<1>7. Spans(infos, m, p)
  <2>1. Spans(infos, Cur, p)
    BY DEF Innermost
  <2> QED
    BY <1>1, <1>6, <2>1, ScopesSpan
<1>8. /\ m = 1 => Owner(d) = Nowhere
      /\ m # 1 => Owner(d) = infos[m].begin
  BY <1>2, <1>4, OwnerIs
<1>9. Owner(d) \in Around(p) \union {Nowhere}
  <2>1. CASE m = 1
    BY <1>8, <2>1
  <2>2. CASE m # 1
    <3>1. m \in 2..Len(infos)
      BY <1>1, <1>6, <2>2
    <3>2. infos[m].begin \in Around(p)
      BY <1>7, <3>1, SpanIsAround
    <3> QED
      BY <1>8, <2>2, <3>2
  <2> QED
    BY <2>1, <2>2
<1>10. Owner(d) \in Nat
  <2>1. ASSUME m # 1 PROVE infos[m].begin \in Nat
    BY <1>1, <1>6, InfoFields
  <2> QED
    BY <1>8, <2>1 DEF Nowhere
<1>11. ASSUME NEW e \in Definitions(p) PROVE Owner(e) <= Owner(d)
  <2>1. /\ e \in 1..Len(toks) /\ Defines(e) /\ DefOf[toks[e]] = Tok
        /\ Owner(e) \in Around(p) \union {Nowhere}
    BY <1>1 DEF Definitions
  <2>2. PICK i \in 1..Len(infos) : Innermost(infos, i, e)
    BY <1>1, SomeInnermost DEF Forest
  <2>3. /\ i = 1 => Owner(e) = Nowhere
        /\ i # 1 => Owner(e) = infos[i].begin
    BY <2>1, <2>2, OwnerIs
  <2>4. CASE i = 1
    BY <1>10, <2>3, <2>4 DEF Nowhere
  <2>5. CASE i # 1
    <3>1. i \in 2..Len(infos)
      BY <1>1, <2>5
    <3>2. infos[i].begin \in 1..Len(toks)
      BY <1>1, <3>1, InForest
    <3>3. infos[i].begin \in Around(p)
      BY <2>1, <2>3, <2>5, <3>2 DEF Nowhere
    <3>4. PICK b \in 2..Len(infos) : infos[b].begin = infos[i].begin /\ Spans(infos, b, p)
      BY <3>3, AroundIsSpan
    <3>5. b = i
      BY <1>1, <3>1, <3>4, InOrderOfBegin
    <3>6. i \in Scopes(Cur)
      BY <1>1, <3>4, <3>5, SpansIsScope
    <3>7. Knows(infos[i].defs, Tok)
      BY <2>1, <2>2, DefIsKnown
    <3>8. i <= m
      BY <1>2, <1>5, <3>6, <3>7 DEF DefScopes
    <3>9. m \in 2..Len(infos) /\ m # 1
      BY <1>1, <1>6, <3>1, <3>8
    <3>10. infos[i].begin <= infos[m].begin
      <4>1. CASE i = m
        BY <3>2, <4>1
      <4>2. CASE i # m
        <5>1. i < m
          BY <1>6, <3>1, <3>8, <4>2
        <5>2. infos[i].begin < infos[m].begin
          BY <1>1, <3>1, <3>9, <5>1, InOrderOfBegin
        <5>3. infos[m].begin \in 1..Len(toks)
          BY <1>1, <3>9, InForest
        <5> QED
          BY <3>2, <5>2, <5>3
      <4> QED
        BY <4>1, <4>2
    <3> QED
      BY <1>8, <2>3, <2>5, <3>9, <3>10
  <2> QED
    BY <2>4, <2>5
<1> QED
  BY <1>9, <1>11

(* The call of a definition that has been loaded. *)
LEMMA CallSays ==
  ASSUME toks \in Seq(STRING), TreeDone(toks, infos), Cur \in 1..Len(infos), prior \in Nat,
         p \in 1..Len(toks), Innermost(infos, Cur, p), Placed(toks, infos, Cur, p),
         VarScopes(Tok) = {}, DefScopes(Tok) # {}, infos[FindDef(Tok).block].loaded
  PROVE  Says(infos, p, Inst("Call", Global(FindDef(Tok).block)))
<1>1. Forest(toks, infos) /\ Tok = toks[p]
  BY DEF TreeDone, Tok
<1>2. OwnBindings(p) = {}
  BY OwnIsFound
<1>3. PICK f : f = FindDef(Tok)
  OBVIOUS
<1>4. DefFits(toks, infos, Max(DefScopes(Tok)), f) /\ f.name = Tok
  BY <1>1, <1>3, FindDefIs
<1>5. PICK b : b = f.block
  OBVIOUS
<1>6. PICK d : d = infos[b].begin - 1
  OBVIOUS
<1>7. /\ b \in 2..Len(infos) /\ infos[b].begin \in Nat /\ d \in 1..Len(toks)
      /\ Defines(d) /\ DefOf[toks[d]] = Tok
      /\ Innermost(infos, Max(DefScopes(Tok)), d)
  BY <1>4, <1>5, <1>6, DefStands
<1>8. /\ Owner(d) \in Around(p) \union {Nowhere}
      /\ \A e \in Definitions(p) : Owner(e) <= Owner(d)
  BY <1>7, FoundIsInnermost
<1>9. d \in Definitions(p)
  BY <1>1, <1>7, <1>8 DEF Definitions
<1>10. LoadedIn(infos, Global(b), d + 1)
  <2>1. Global(b) > prior /\ Global(b) - prior = b /\ d + 1 = infos[b].begin
    BY <1>6, <1>7 DEF Global
  <2>2. infos[b].loaded
    BY <1>3, <1>5
  <2> QED
    BY <1>7, <2>1, <2>2 DEF LoadedIn
<1> QED
  BY <1>2, <1>3, <1>5, <1>8, <1>9, <1>10, Zenon DEF Says, Inst

-------------------------------------------------------------------------------
(* The steps of the second pass keep what has been compiled. *)

(* Nothing changes but the block table. *)
LEMMA SameInfos ==
  ASSUME NEW inf
  PROVE  SameBlocks(inf, inf) /\ LoadMore(inf, inf) /\ SameLoaded(inf, inf)
  BY DEF SameBlocks, LoadMore, SameLoaded

(* A word at q that becomes the instruction x. *)
LEMMA WordCompiles ==
  ASSUME toks \in Seq(STRING), prior \in Nat,
         NEW inf, Len(inf) \in Nat, NEW t \in Seq(BlockInfo), Len(t) = prior + Len(inf),
         NEW u, NEW x, NEW c \in 1..Len(inf), Grown(t, u, prior + c, x),
         NEW cs, Len(cs) \in Nat, Len(cs) >= 1, c = cs[Len(cs)].block,
         NEW q \in Nat, NEW r \in Nat, q < r, FaithAt(inf, t, cs, q),
         Own(inf, c, r) = Own(inf, c, q) \union (q..q),
         Names(inf, c, r) = Names(inf, c, q), Says(inf, q, x), WordBegins(r)
  PROVE  FaithAt(inf, u, cs, r)
<1>1. StopsAt(inf, cs, q, c, q)
  <2>1. Len(cs) \in 1..Len(cs) /\ GoesOn(cs, Len(cs), q) = q
    BY DEF GoesOn
  <2> QED
    BY <2>1 DEF StopsAt
<1>2. Done(inf, t, c, q)
  BY <1>1 DEF FaithAt, AllDone
<1>3. prior + c \in 1..Len(t) /\ t[prior + c] \in BlockInfo
  <2>1. prior + c \in 1..Len(t)
    OBVIOUS
  <2> QED
    BY <2>1
<1>4. t[prior + c].code \in Seq(Instruction)
  BY <1>3 DEF BlockInfo
<1>5. PICK a : a = t[prior + c].code
  OBVIOUS
<1>6. PICK d : d = u[prior + c].code
  OBVIOUS
<1>7. /\ a \in Seq(Instruction) /\ d = Append(a, x)
      /\ u[prior + c].varCount = t[prior + c].varCount
      /\ Len(a) \in Nat
  <2>1. d = Append(a, x)
    BY <1>5, <1>6, Zenon DEF Grown
  <2>2. u[prior + c].varCount = t[prior + c].varCount
    BY <1>3, Zenon DEF Grown
  <2>3. a \in Seq(Instruction)
    BY <1>4, <1>5
  <2> QED
    BY <2>1, <2>2, <2>3
<1>8. /\ Len(d) = Len(a) + 1 /\ d[Len(a) + 1] = x
      /\ \A j \in 1..Len(a) : d[j] = a[j]
  BY <1>7
<1>9. Compiled(inf, c, a, q) /\ Binds(inf, c, t[prior + c].varCount, q)
  BY <1>2, <1>5 DEF Done
<1>10. Compiled(inf, c, d, r)
  <2>1. Len(d) = Len(a) + (q - q) + 1
    BY <1>7, <1>8
  <2>2. ASSUME NEW k \in q..q PROVE Says(inf, k, d[Len(a) + (k - q) + 1])
    <3>1. k = q /\ Len(a) + (k - q) + 1 = Len(a) + 1
      BY <1>7, <2>2
    <3> QED
      BY <1>8, <3>1
  <2>3. q <= q /\ q <= q + 1 /\ q < r
    OBVIOUS
  <2>4. \A k \in q..q : Says(inf, k, d[Len(a) + (k - q) + 1])
    BY <2>2
  <2> QED
    BY <1>8, <1>9, <2>1, <2>3, <2>4, CompiledOn, ZenonT(40)
<1>11. Binds(inf, c, u[prior + c].varCount, r)
  BY <1>7, <1>9 DEF Binds, VarIs
<1>12. Done(inf, u, c, r)
  BY <1>6, <1>10, <1>11 DEF Done
<1>13. OthersSame(inf, t, inf, u, c)
  <2>1. ASSUME NEW i \in 1..Len(inf), i # c PROVE SameWork(inf, t, inf, u, i)
    <3>1. prior + i \in 1..Len(t) /\ prior + i # prior + c
      BY <2>1
    <3> QED
      BY <3>1 DEF Grown, SameWork
  <2> QED
    BY <2>1 DEF OthersSame
<1> QED
  BY <1>12, <1>13, SameInfos, FaithMoves

(* A word that becomes an instruction. *)
LEMMA InstFaith ==
  ASSUME LoaderInv, NamesInv, FaithInv, Word, NEW q \in Nat, MoveTo(q),
         NEW op \in Opcodes, NEW arg \in Nat,
         \/ AddInst(Global(Cur), op, arg)
         \/ arg \in Blocks /\ AddReference(Global(Cur), op, arg),
         Readable =>
           /\ p < q /\ WordBegins(q)
           /\ Own(infos, Cur, q) = Own(infos, Cur, p) \union (p..p)
           /\ Names(infos, Cur, q) = Names(infos, Cur, p)
           /\ Says(infos, p, Inst(op, arg))
  PROVE  FaithInv'
<1>1. /\ phase = "load" /\ p # End /\ infos' = infos /\ callStack' = callStack
      /\ toks' = toks /\ prior' = prior /\ phase' = phase /\ p' = q
  BY DEF Word, InLoad, MoveTo
<1>2. /\ Loading /\ toks \in Seq(STRING) /\ p \in Nat /\ Len(infos) \in Nat
      /\ Len(callStack) \in Nat /\ Len(callStack) >= 1
      /\ Cur = callStack[Len(callStack)].block /\ Cur \in 1..Len(infos)
      /\ Global(Cur) \in Blocks
  BY <1>1, InTheLoad
<1>3. TableInv /\ Len(blockTable) = prior + Len(infos) /\ prior \in Nat
  BY <1>2, WhileLoading
<1>4. blockTable \in Seq(BlockInfo)
  BY <1>3 DEF TableInv
<1>5. Grown(blockTable, blockTable', Global(Cur), Inst(op, arg))
  BY <1>2, <1>3, AddedIs
<1>6. ASSUME Readable PROVE FaithAt(infos, blockTable', callStack, q)
  <2>1. FaithAt(infos, blockTable, callStack, p)
    BY <1>1, <1>6, FaithInTheLoad DEF Readable
  <2>2. PICK t : t = blockTable
    OBVIOUS
  <2>3. PICK u : u = blockTable'
    OBVIOUS
  <2>4. PICK x : x = Inst(op, arg)
    OBVIOUS
  <2>5. PICK c : c = Cur
    OBVIOUS
  <2>6. /\ t \in Seq(BlockInfo) /\ Len(t) = prior + Len(infos)
        /\ Grown(t, u, prior + c, x) /\ FaithAt(infos, t, callStack, p)
    BY <1>3, <1>4, <1>5, <2>1, <2>2, <2>3, <2>4, <2>5 DEF Global
  <2>7. /\ p < q /\ WordBegins(q) /\ Says(infos, p, x)
        /\ Own(infos, c, q) = Own(infos, c, p) \union (p..p)
        /\ Names(infos, c, q) = Names(infos, c, p)
        /\ c \in 1..Len(infos) /\ c = callStack[Len(callStack)].block
    BY <1>2, <1>6, <2>4, <2>5
  <2>8. FaithAt(infos, u, callStack, q)
    BY <1>2, <1>3, <2>6, <2>7, WordCompiles
  <2> QED
    BY <2>3, <2>8
<1> QED
  BY <1>1, <1>6, FaithLoads DEF Readable

(* A word that goes on behind itself. *)
LEMMA PlainSteps ==
  ASSUME LoaderInv, NamesInv, FaithInv, phase = "load", p # End, Readable,
         Tok \notin Structural
  PROVE  /\ p < p + 1 /\ WordBegins(p + 1)
         /\ Own(infos, Cur, p + 1) = Own(infos, Cur, p) \union (p..p)
         /\ Names(infos, Cur, p + 1) = Names(infos, Cur, p)
<1>1. /\ toks \in Seq(STRING) /\ p \in 1..Len(toks) /\ p \in Nat /\ Tok = toks[p]
  BY InTheLoad
<1>2. Innermost(infos, Cur, p) /\ Outside(toks, p)
  BY FaithInTheLoad DEF Readable
<1>3. ~ Closes(p) /\ ~ Listed(p)
  BY <1>1, <1>2, OutsideClosesNone, OutsideIsPlain, ListedIs
<1>4. ~ Defines(p) /\ toks[p] \notin Braces /\ toks[p] # ListBegin
  <2>1. ~ Defines(p)
    BY <1>1 DEF Defines, Structural
  <2>2. toks[p] \notin Braces
    BY <1>1, PlainNoBrace
  <2>3. toks[p] # ListBegin
    BY <1>1, BracketsAre
  <2> QED
    BY <2>1, <2>2, <2>3
<1>5. Emits(p)
  BY <1>3, <1>4, EmitsIs DEF Braces
<1>6. WordBegins(p + 1)
  <2>1. (p + 1) - 1 = p
    BY <1>1
  <2> QED
    BY <1>4, <2>1 DEF WordBegins
<1> QED
  BY <1>1, <1>2, <1>3, <1>5, <1>6, OwnSteps

(* Apply, a variable, an operator, a literal and a call. *)
LEMMA PlainWordsFaith ==
  ASSUME LoaderInv, NamesInv, FaithInv,
         LoadApply \/ LoadVar \/ LoadOpr \/ LoadImm \/ LoadCallInst
  PROVE  FaithInv'
<1>1. Word /\ Tok \notin Structural /\ MoveTo(p + 1) /\ phase = "load" /\ p # End
  BY DEF LoadApply, LoadVar, LoadOpr, LoadImm, LoadCallInst, IsVar, IsDef, IsOther,
         PlainWord, Word, InLoad
<1>2. /\ Loading /\ toks \in Seq(STRING) /\ Forest(toks, infos) /\ Cur \in 1..Len(infos)
      /\ Tok = toks[p] /\ p \in Nat /\ p + 1 \in Nat /\ p \in 1..Len(toks)
      /\ TreeDone(toks, infos)
  BY <1>1, InTheLoad
<1>3. Len(blockTable) = prior + Len(infos) /\ prior \in Nat /\ Len(infos) \in Nat
  BY <1>2, WhileLoading
<1>4. ASSUME Readable
      PROVE  /\ p < p + 1 /\ WordBegins(p + 1)
             /\ Own(infos, Cur, p + 1) = Own(infos, Cur, p) \union (p..p)
             /\ Names(infos, Cur, p + 1) = Names(infos, Cur, p)
  BY <1>1, <1>4, PlainSteps
<1>5. ASSUME Readable
      PROVE  /\ Innermost(infos, Cur, p) /\ Placed(toks, infos, Cur, p)
             /\ FaithAt(infos, blockTable, callStack, p) /\ Done(infos, blockTable, Cur, p)
  BY <1>1, <1>5, FaithInTheLoad DEF Readable
<1>6. CASE LoadApply
  <2>1. AddInst(Global(Cur), "Apply", 0) /\ Tok = "#"
    BY <1>6 DEF LoadApply, AddInstApply
  <2>2. "Apply" \in Opcodes /\ 0 \in Nat
    BY DEF Opcodes
  <2>3. Says(infos, p, Inst("Apply", 0))
    BY <1>2, <2>1, Zenon DEF Says, Inst
  <2> QED
    BY <1>1, <1>2, <1>4, <2>1, <2>2, <2>3, InstFaith
<1>7. CASE LoadVar
  <2>1. AddInst(Global(Cur), "PushVar", FindVar(Tok).var) /\ VarScopes(Tok) # {}
    BY <1>7 DEF LoadVar, AddInstPushVar, IsVar
  <2>2. "PushVar" \in Opcodes
    BY DEF Opcodes
  <2>3. FindVar(Tok).var \in Nat
    BY <1>2, <2>1, FindVarIs
  <2>4. Readable => Says(infos, p, Inst("PushVar", FindVar(Tok).var))
    BY <1>2, <1>5, <2>1, VarSays
  <2> QED
    BY <1>1, <1>2, <1>4, <2>1, <2>2, <2>3, <2>4, InstFaith
<1>8. CASE LoadOpr
  <2>1. AddInst(Global(Cur), "Opr", OprOf[Tok]) /\ Tok \in DOMAIN OprOf
    BY <1>8 DEF LoadOpr, AddInstOpr
  <2>2. "Opr" \in Opcodes
    BY DEF Opcodes
  <2>3. OprOf[Tok] \in Nat
    BY <2>1, WordsAssumption, PayloadAssumption
  <2>4. Says(infos, p, Inst("Opr", OprOf[Tok]))
    BY <1>2, <2>1, Zenon DEF Says, Inst
  <2> QED
    BY <1>1, <1>2, <1>4, <2>1, <2>2, <2>3, <2>4, InstFaith
<1>9. CASE LoadImm
  <2>1. AddInst(Global(Cur), "PushImm", LiteralOf[Tok]) /\ Tok \in DOMAIN LiteralOf
    BY <1>9 DEF LoadImm, AddInstPushImm
  <2>2. "PushImm" \in Opcodes
    BY DEF Opcodes
  <2>3. LiteralOf[Tok] \in Nat
    BY <2>1, WordsAssumption, PayloadAssumption
  <2>4. Says(infos, p, Inst("PushImm", LiteralOf[Tok]))
    BY <1>2, <2>1, Zenon DEF Says, Inst
  <2> QED
    BY <1>1, <1>2, <1>4, <2>1, <2>2, <2>3, <2>4, InstFaith
<1>10. CASE LoadCallInst
  <2> DEFINE x == Global(FindDef(Tok).block)
  <2>1. /\ AddReference(Global(Cur), "Call", x)
        /\ DefScopes(Tok) # {} /\ VarScopes(Tok) = {} /\ infos[FindDef(Tok).block].loaded
    BY <1>10 DEF LoadCallInst, AddInstCall, IsDef, IsVar
  <2>2. FindDef(Tok).block \in 1..Len(infos)
    BY <1>2, <2>1, FindDefIs
  <2>3. "Call" \in Opcodes
    BY DEF Opcodes
  <2>4. x \in Blocks /\ x \in Nat
    BY <1>3, <2>2 DEF Global, Blocks
  <2>5. Readable => Says(infos, p, Inst("Call", x))
    BY <1>2, <1>3, <1>5, <2>1, CallSays
  <2> HIDE DEF x
  <2> QED
    BY <1>1, <1>2, <1>4, <2>1, <2>3, <2>4, <2>5, InstFaith
<1> QED
  BY <1>6, <1>7, <1>8, <1>9, <1>10

(* The value of a block that has been loaded: its text is skipped. *)
LEMMA BlockValueFaith ==
  ASSUME LoaderInv, NamesInv, FaithInv, LoadBlockValue
  PROVE  FaithInv'
<1> DEFINE b == FindBlock(p)
<1>1. /\ Word /\ phase = "load" /\ p # End /\ Tok = Opener /\ infos[b].scope = Cur
      /\ infos[b].loaded
      /\ AddReference(Global(Cur), "PushBlock", Global(b))
      /\ MoveTo(infos[b].end + 1)
  BY DEF LoadBlockValue, Word, InLoad, Opener, AddInstPushBlock
<1>2. /\ Loading /\ toks \in Seq(STRING) /\ p \in Nat
      /\ p \in 1..Len(toks) /\ Tok = toks[p] /\ Len(infos) \in Nat
      /\ Cur \in 1..Len(infos) /\ Cur \in Nat /\ infos[1].scope = None
      /\ TreeDone(toks, infos) /\ Forest(toks, infos) /\ Ended(infos)
  BY <1>1, InTheLoad
<1>3. /\ b \in 1..Len(infos) /\ infos[b].begin = p
      /\ p # 1 => b \in 2..Len(infos)
      /\ p = 1 => b = 1
  BY <1>1, <1>2, FindBlockIs
<1> HIDE DEF b
<1>4. b \in 2..Len(infos)
  <2>1. b # 1
    BY <1>1, <1>2 DEF None
  <2> QED
    BY <1>3, <2>1
<1>5. /\ infos[b].end \in 1..Len(toks) /\ infos[b].begin < infos[b].end
      /\ toks[infos[b].end] = Closer /\ Innermost(infos, Cur, p)
  BY <1>1, <1>2, <1>3, <1>4, InForest DEF Ended
<1>6. PICK e : e = infos[b].end
  OBVIOUS
<1>7. e \in Nat /\ e + 1 \in Nat /\ p < e + 1 /\ e \in 1..Len(toks) /\ toks[e] = Closer
  BY <1>2, <1>3, <1>5, <1>6
<1>8. Global(b) \in Blocks /\ Global(b) \in Nat /\ Global(b) > prior /\ Global(b) - prior = b
  <2>1. Len(blockTable) = prior + Len(infos) /\ prior \in Nat
    BY <1>2, WhileLoading
  <2> QED
    BY <1>2, <1>4, <2>1 DEF Global, Blocks
<1>9. "PushBlock" \in Opcodes
  BY DEF Opcodes
<1>10. WordBegins(e + 1)
  <2>1. (e + 1) - 1 = e /\ Closer \in Braces
    BY <1>7 DEF Braces
  <2> QED
    BY <1>7, <2>1, DefNoBrace DEF WordBegins, Defines
<1>11. Says(infos, p, Inst("PushBlock", Global(b)))
  <2>1. LoadedIn(infos, Global(b), p)
    BY <1>1, <1>2, <1>3, <1>4, <1>8 DEF LoadedIn
  <2>2. toks[p] = "{"
    BY <1>1, <1>2, Zenon DEF Opener
  <2> QED
    BY <2>1, <2>2, Zenon DEF Says, Inst
<1>12. ASSUME Readable
       PROVE  /\ Own(infos, Cur, e + 1) = Own(infos, Cur, p) \union (p..p)
              /\ Names(infos, Cur, e + 1) = Names(infos, Cur, p)
  <2>1. ListsClosed(toks) /\ Outside(toks, p) /\ WordBegins(p)
    BY <1>1, <1>12, FaithInTheLoad DEF Readable
  <2>2. ~ Closes(p) /\ ~ Listed(p)
    BY <1>2, <2>1, OutsideClosesNone, OutsideIsPlain, ListedIs
  <2>3. ~ Defines(p) /\ toks[p] # Closer /\ toks[p] # ListBegin
    <3>1. toks[p] = Opener /\ toks[p] \in Braces
      BY <1>1, <1>2 DEF Braces
    <3> QED
      BY <3>1, DefNoBrace, BracesDiffer, BracketsAre DEF Defines
  <2>4. Emits(p)
    BY <2>1, <2>2, <2>3, EmitsIs DEF WordBegins
  <2>5. /\ Own(infos, Cur, p + 1) = Own(infos, Cur, p) \union (p..p)
        /\ Names(infos, Cur, p + 1) = Names(infos, Cur, p)
    BY <1>2, <1>5, <2>2, <2>4, OwnSteps
  <2>6. /\ Own(infos, Cur, e + 1) = Own(infos, Cur, p + 1)
        /\ Names(infos, Cur, e + 1) = Names(infos, Cur, p + 1)
    <3>1. Innermost(infos, Cur, infos[b].begin)
      BY <1>3, <1>5
    <3>2. /\ Own(infos, Cur, infos[b].end + 1) = Own(infos, Cur, infos[b].begin + 1)
          /\ Names(infos, Cur, infos[b].end + 1) = Names(infos, Cur, infos[b].begin + 1)
      BY <1>2, <1>4, <3>1, OwnJumps
    <3> QED
      BY <1>3, <1>6, <3>2
  <2> QED
    BY <2>5, <2>6
<1>13. MoveTo(e + 1)
  BY <1>1, <1>6
<1> QED
  BY <1>1, <1>7, <1>8, <1>9, <1>10, <1>11, <1>12, <1>13, InstFaith

(* The definition at p owes nothing. *)
LEMMA DefOwnsNothing ==
  ASSUME toks \in Seq(STRING), NEW inf, Forest(toks, inf), Ended(inf), ListsClosed(toks),
         NEW k \in 1..Len(toks), Defines(k), NEW b \in 2..Len(inf), inf[b].begin = k + 1,
         NEW c, Innermost(inf, c, k)
  PROVE  /\ Own(inf, c, inf[b].end + 1) = Own(inf, c, k)
         /\ Names(inf, c, inf[b].end + 1) = Names(inf, c, k)
<1>1. toks[k] \in DOMAIN DefOf /\ toks[k] \notin Braces /\ toks[k] \in Structural
  BY DefNoBrace DEF Defines, Structural
<1>2. k + 1 \in 1..Len(toks) /\ toks[k + 1] = Opener
  BY InForest
<1>3. Innermost(inf, c, k + 1)
  BY <1>1, StepInnermost
<1>4. ~ Emits(k) /\ ~ Emits(k + 1)
  <2>1. (k + 1) - 1 = k /\ k + 1 > 1
    OBVIOUS
  <2> QED
    BY <1>2, <2>1, EmitsIs
<1>5. ~ Listed(k) /\ ~ Listed(k + 1)
  <2>1. toks[k + 1] \in Structural
    BY <1>2, PlainNoBrace DEF Braces
  <2> QED
    BY <1>1, <1>2, <2>1, OutsideStructural, ListedIs
<1>6. Own(inf, c, k + 1) = Own(inf, c, k) /\ Names(inf, c, k + 1) = Names(inf, c, k)
  BY <1>4, <1>5, OwnSteps
<1>7. /\ Own(inf, c, (k + 1) + 1) = Own(inf, c, k + 1)
      /\ Names(inf, c, (k + 1) + 1) = Names(inf, c, k + 1)
  BY <1>2, <1>4, <1>5, OwnSteps
<1>8. /\ Own(inf, c, inf[b].end + 1) = Own(inf, c, inf[b].begin + 1)
      /\ Names(inf, c, inf[b].end + 1) = Names(inf, c, inf[b].begin + 1)
  BY <1>3, OwnJumps
<1> QED
  BY <1>6, <1>7, <1>8

(* A definition is skipped. *)
LEMMA LoadDefFaith ==
  ASSUME LoaderInv, NamesInv, FaithInv, LoadDef
  PROVE  FaithInv'
<1> DEFINE b == FindDef(DefOf[Tok]).block
<1>1. /\ phase = "load" /\ p # End /\ Tok \in DOMAIN DefOf
      /\ DefScopes(DefOf[Tok]) # {} /\ infos[b].begin = p + 1
      /\ infos' = infos /\ callStack' = callStack /\ blockTable' = blockTable
      /\ toks' = toks /\ prior' = prior /\ phase' = phase /\ p' = infos[b].end + 1
  BY DEF LoadDef, Word, InLoad, DefHere, MoveTo, blockVars
<1>2. /\ toks \in Seq(STRING) /\ p \in 1..Len(toks) /\ Tok = toks[p] /\ Cur \in 1..Len(infos)
      /\ Forest(toks, infos) /\ Ended(infos)
      /\ Len(callStack) \in Nat /\ Len(callStack) >= 1
      /\ Cur = callStack[Len(callStack)].block
  BY <1>1, InTheLoad
<1>3. b \in 2..Len(infos)
  BY <1>1, <1>2, FindDefIs
<1> HIDE DEF b
<1>4. /\ infos[b].end \in 1..Len(toks) /\ toks[infos[b].end] = Closer
  BY <1>2, <1>3, InForest DEF Ended
<1>5. WordBegins(infos[b].end + 1)
  <2>1. (infos[b].end + 1) - 1 = infos[b].end /\ Closer \in Braces
    BY <1>4 DEF Braces
  <2> QED
    BY <1>4, <2>1, DefNoBrace DEF WordBegins, Defines
<1>6. ASSUME Readable
      PROVE  FaithAt(infos, blockTable, callStack, infos[b].end + 1)
  <2>1. /\ FaithAt(infos, blockTable, callStack, p) /\ ListsClosed(toks)
        /\ Innermost(infos, Cur, p) /\ Done(infos, blockTable, Cur, p)
    BY <1>1, <1>6, FaithInTheLoad DEF Readable
  <2>2. Defines(p)
    BY <1>1, <1>2 DEF Defines
  <2>3. /\ Own(infos, Cur, infos[b].end + 1) = Own(infos, Cur, p)
        /\ Names(infos, Cur, infos[b].end + 1) = Names(infos, Cur, p)
    BY <1>1, <1>2, <1>3, <2>1, <2>2, DefOwnsNothing
  <2>4. Done(infos, blockTable, Cur, infos[b].end + 1)
    BY <2>1, <2>3, DoneMoves
  <2>5. OthersSame(infos, blockTable, infos, blockTable, Cur)
    BY DEF OthersSame, SameWork
  <2> QED
    BY <1>2, <1>5, <2>1, <2>4, <2>5, SameInfos, FaithMoves
<1> QED
  BY <1>1, <1>6, FaithLoads DEF Readable

(* A block is marked as loaded, and no other. *)
Marks(inf, g, b) == g = [inf EXCEPT ![b].loaded = TRUE]

LEMMA MarkedOnly ==
  ASSUME NEW inf \in Seq(LoadBlockInfo), NEW b \in 1..Len(inf),
         NEW g, Marks(inf, g, b)
  PROVE  /\ g[b].loaded /\ \A i \in 1..Len(inf) : i # b => g[i] = inf[i]
         /\ SameVars(inf, g) /\ SameTree(inf, g) /\ LoadMore(inf, g)
<1>1. inf[b] \in LoadBlockInfo
  BY ElementOfSeq
<1>2. SameTree(inf, g) /\ \A i \in 1..Len(inf) : inf[i].loaded \/ i = b => g[i].loaded
  BY MarkedIs, Zenon DEF Marks
<1>3. \A i \in 1..Len(inf) : i # b => g[i] = inf[i]
  BY DEF Marks
<1>4. SameVars(inf, g)
  BY <1>1, <1>2 DEF LoadBlockInfo, Marks, SameVars, SameTree
<1>5. LoadMore(inf, g)
  <2>1. ASSUME NEW a, NEW k, LoadedIn(inf, a, k) PROVE LoadedIn(g, a, k)
    <3>1. PICK i : i = a - prior
      OBVIOUS
    <3>2. a > prior /\ i \in 1..Len(inf) /\ inf[i].begin = k /\ inf[i].loaded
      BY <2>1, <3>1 DEF LoadedIn
    <3>3. Len(g) = Len(inf) /\ g[i].begin = k /\ g[i].loaded
      BY <1>2, <3>2 DEF SameTree
    <3> QED
      BY <3>1, <3>2, <3>3 DEF LoadedIn
  <2> QED
    BY <2>1 DEF LoadMore
<1> QED
  BY <1>2, <1>3, <1>4, <1>5

(* A block is loaded before the token that asked for it. *)
LEMMA EnterFaith ==
  ASSUME LoaderInv, NamesInv, FaithInv, InLoad, NEW b \in 2..Len(infos),
         ~ infos[b].loaded, Enter(b)
  PROVE  FaithInv'
<1>1. /\ phase = "load" /\ p # End
      /\ infos' = [infos EXCEPT ![b].loaded = TRUE]
      /\ callStack' = Append(callStack, [block |-> b, def |-> NoName, retP |-> p])
      /\ p' = infos[b].begin + 1
      /\ toks' = toks /\ prior' = prior /\ phase' = phase
      /\ blockTable' = blockTable
  BY DEF InLoad, Enter, MoveTo, blockVars
<1>2. /\ toks \in Seq(STRING) /\ p \in Nat
      /\ infos \in Seq(LoadBlockInfo) /\ Len(infos) \in Nat /\ Len(infos) >= 1
      /\ callStack \in Seq(LoadCall) /\ Len(callStack) \in Nat /\ Len(callStack) >= 1
      /\ Forest(toks, infos) /\ Ended(infos) /\ infos[1].loaded /\ TreeDone(toks, infos)
  BY <1>1, InTheLoad
<1>3. b \in 1..Len(infos) /\ b \in Nat /\ 1 \in 1..Len(infos) /\ b # 1
  BY <1>2
<1>4. PICK g : g = infos'
  OBVIOUS
<1>5. /\ g[b].loaded /\ \A i \in 1..Len(infos) : i # b => g[i] = infos[i]
      /\ SameVars(infos, g) /\ SameTree(infos, g) /\ LoadMore(infos, g)
  <2>1. Marks(infos, g, b)
    BY <1>1, <1>4 DEF Marks
  <2> QED
    BY <1>2, <1>3, <2>1, MarkedOnly, Zenon
<1>6. SameBlocks(infos, g)
  <2>1. g[1].loaded
    BY <1>2, <1>3, <1>5
  <2> QED
    BY <1>2, <1>5, <2>1, DoneKept DEF SameBlocks
<1>7. PICK dt : dt = callStack'
  OBVIOUS
<1>8. Pushed(callStack, dt, b, NoName) /\ dt[Len(callStack) + 1].retP = p
  <2>1. NoName \in STRING
    BY WordsAssumption
  <2> QED
    BY <1>1, <1>2, <1>3, <1>7, <2>1, PushedIs
<1>9. infos[b].begin \in 1..Len(toks) /\ toks[infos[b].begin] \in Braces
  BY <1>2, InForest DEF Braces
<1>10. WordBegins(infos[b].begin + 1)
  <2>1. (infos[b].begin + 1) - 1 = infos[b].begin
    BY <1>9
  <2> QED
    BY <1>9, <2>1, DefNoBrace DEF WordBegins, Defines
<1>11. /\ Own(infos, b, infos[b].begin + 1) = {}
       /\ Names(infos, b, infos[b].begin + 1) = {}
  BY <1>2, OwnEnters
<1>12. ASSUME Readable PROVE FaithAt(g, blockTable, dt, infos[b].begin + 1)
  <2>1. FaithAt(infos, blockTable, callStack, p)
    BY <1>1, <1>12, FaithInTheLoad DEF Readable
  <2>2. \A i \in 1..Len(infos) : i # b => (g[i].loaded <=> infos[i].loaded)
    BY <1>5
  <2> QED
    BY <1>2, <1>3, <1>5, <1>6, <1>8, <1>10, <1>11, <2>1, <2>2, FaithEnters
<1> QED
  BY <1>1, <1>4, <1>7, <1>12, FaithLoads DEF Readable

(* A brace enters its block, *)
LEMMA LoadOpenFaith ==
  ASSUME LoaderInv, NamesInv, FaithInv, LoadOpen
  PROVE  FaithInv'
<1>1. /\ InLoad /\ phase = "load" /\ p # End /\ Tok = Opener
      /\ ~ infos[FindBlock(p)].loaded /\ Enter(FindBlock(p))
  BY DEF LoadOpen, InLoad, Opener
<1>2. /\ toks \in Seq(STRING) /\ p \in 1..Len(toks) /\ Tok = toks[p]
      /\ TreeDone(toks, infos) /\ infos[1].loaded
  BY <1>1, InTheLoad
<1>3. FindBlock(p) \in 2..Len(infos)
  <2>1. /\ p # 1 => FindBlock(p) \in 2..Len(infos)
        /\ p = 1 => FindBlock(p) = 1
    BY <1>1, <1>2, FindBlockIs
  <2> QED
    BY <1>1, <1>2, <2>1
<1> QED
  BY <1>1, <1>3, EnterFaith

(* and a word that of the definition it names. *)
LEMMA LoadCalleeFaith ==
  ASSUME LoaderInv, NamesInv, FaithInv, LoadCallee
  PROVE  FaithInv'
<1>1. /\ InLoad /\ phase = "load" /\ DefScopes(Tok) # {}
      /\ ~ infos[FindDef(Tok).block].loaded /\ Enter(FindDef(Tok).block)
  BY DEF LoadCallee, InLoad, IsDef
<1>2. toks \in Seq(STRING) /\ Forest(toks, infos) /\ Cur \in 1..Len(infos)
  BY <1>1, InTheLoad
<1>3. FindDef(Tok).block \in 2..Len(infos)
  BY <1>1, <1>2, FindDefIs
<1> QED
  BY <1>1, <1>3, EnterFaith

(* Back to the token that asked for the block. *)
LEMMA LoadCloseFaith ==
  ASSUME LoaderInv, NamesInv, FaithInv, LoadClose
  PROVE  FaithInv'
<1>1. /\ phase = "load" /\ p # End /\ infos[Cur].end = p
      /\ callStack' = Front(callStack) /\ p' = Last(callStack).retP
      /\ toks' = toks /\ prior' = prior /\ phase' = phase
      /\ blockTable' = blockTable /\ infos' = infos
  BY DEF LoadClose, InLoad, MoveTo, blockVars
<1>2. /\ toks \in Seq(STRING) /\ callStack \in Seq(LoadCall)
      /\ Len(callStack) \in Nat /\ Len(callStack) >= 1
      /\ infos[1].end = End /\ Cur \in 1..Len(infos) /\ Len(infos) \in Nat
      /\ Len(callStack) = 1 => Cur = 1
      /\ Len(callStack) > 1 => Cur # 1
      /\ Cur = callStack[Len(callStack)].block
      /\ Forest(toks, infos) /\ Ended(infos)
  BY <1>1, InTheLoad
<1>3. Len(callStack) > 1
  <2>1. Len(callStack) # 1
    BY <1>1, <1>2
  <2>2. PICK n \in Nat : n = Len(callStack)
    BY <1>2
  <2>3. n >= 1 /\ n # 1
    BY <1>2, <2>1, <2>2
  <2>4. n > 1
    BY <2>3
  <2> QED
    BY <2>2, <2>4
<1>4. Popped(callStack, Front(callStack)) /\ Cur \in 2..Len(infos)
  BY <1>2, <1>3, PoppedIs
<1>5. ASSUME Readable
      PROVE  FaithAt(infos, blockTable, Front(callStack), callStack[Len(callStack)].retP)
  <2>1. FaithAt(infos, blockTable, callStack, p) /\ ListsClosed(toks)
    BY <1>1, <1>5, FaithInTheLoad DEF Readable
  <2>2. /\ Own(infos, Cur, Len(toks) + 1) = Own(infos, Cur, p)
        /\ Names(infos, Cur, Len(toks) + 1) = Names(infos, Cur, p)
    BY <1>1, <1>2, <1>4, <2>1, OwnCloses
  <2> QED
    BY <1>2, <1>3, <1>4, <2>1, <2>2, FaithReturns
<1>6. p' = callStack[Len(callStack)].retP
  BY <1>1 DEF Last
<1> QED
  BY <1>1, <1>5, <1>6, FaithLoads DEF Readable

(* The second pass begins with nothing compiled. *)
LEMMA TreeEndFaith ==
  ASSUME LoaderInv, NamesInv, TreeEnd
  PROVE  FaithInv'
<1>1. /\ phase = "tree" /\ p = End /\ Len(callStack) = 1
      /\ infos' = [Closed EXCEPT ![1].loaded = TRUE]
      /\ p' = 1 /\ phase' = "load" /\ toks' = toks /\ prior' = prior
      /\ callStack' = callStack /\ blockTable' = blockTable
  BY DEF TreeEnd, InTree, blockVars
<1>2. /\ infos \in Seq(LoadBlockInfo) /\ Len(infos) \in Nat /\ Len(infos) >= 1 /\ p \in Nat
      /\ Len(blockTable) = prior + Len(infos) /\ prior \in Nat /\ TableInv
      /\ toks \in Seq(STRING)
  BY <1>1, WhileLoading DEF Loading
<1>3. TreeAt(toks, infos, callStack, p)
  BY <1>1 DEF LoaderInv, TreeInv
<1>4. callStack[1].block = 1 /\ callStack[1].def = NoName /\ Untouched(infos)
  BY <1>3 DEF TreeAt, OpenStack
<1>5. Closed = [infos EXCEPT ![1].end = p]
  BY <1>1, <1>4 DEF Closed, Cur, Last
<1>6. NoCodeIn(blockTable) /\ AllProper(blockTable)
  BY <1>1, <1>2 DEF NamesInv, TableInv, Good
<1>7. PICK g : g = infos'
  OBVIOUS
<1>8. /\ Len(g) = Len(infos) /\ g[1].loaded
      /\ \A i \in 1..Len(infos) : g[i].vars = infos[i].vars
      /\ \A i \in 1..Len(infos) : i # 1 => g[i].loaded = infos[i].loaded
  <2>1. PICK h : h = [infos EXCEPT ![1].end = p]
    OBVIOUS
  <2>2. h \in Seq(LoadBlockInfo) /\ Len(h) = Len(infos)
        /\ \A i \in 1..Len(infos) :
             h[i].vars = infos[i].vars /\ h[i].loaded = infos[i].loaded
    <3>1. 1 \in 1..Len(infos)
      BY <1>2
    <3>2. LET x == [infos EXCEPT ![1].end = p]
          IN /\ x \in Seq(LoadBlockInfo) /\ Len(x) = Len(infos)
             /\ \A i \in 1..Len(infos) : SameButEnd(infos, x, 1, i) /\ x[i].defs = infos[i].defs
             /\ x[1].end = p
      BY <1>2, <3>1, EndedIs
    <3>3. h \in Seq(LoadBlockInfo) /\ Len(h) = Len(infos)
          /\ \A i \in 1..Len(infos) : SameButEnd(infos, h, 1, i)
      BY <2>1, <3>2, Zenon
    <3> QED
      BY <3>3 DEF SameButEnd
  <2>3. Marks(h, g, 1)
    BY <1>1, <1>5, <1>7, <2>1 DEF Marks
  <2>4. /\ g[1].loaded /\ \A i \in 1..Len(h) : i # 1 => g[i] = h[i]
        /\ SameVars(h, g)
    <3>1. 1 \in 1..Len(h)
      BY <1>2, <2>2
    <3> QED
      BY <2>2, <2>3, <3>1, MarkedOnly, Zenon
  <2> QED
    BY <2>2, <2>4 DEF SameVars
<1>9. ASSUME NEW i \in 1..Len(g), NEW s \in 0..1 PROVE Done(g, blockTable, i, s)
  <2>1. Own(g, i, s) = {} /\ Names(g, i, s) = {} /\ Cardinality({}) = 0
    BY <1>2, OwnAtStart, FS_EmptySet
  <2>2. prior + i \in 1..Len(blockTable)
    BY <1>2, <1>8
  <2>3. PICK c : c = blockTable[prior + i].code
    OBVIOUS
  <2>4. PICK n : n = blockTable[prior + i].varCount
    OBVIOUS
  <2>5. Len(c) = 0 /\ Proper(c, n)
    BY <1>6, <2>2, <2>3, <2>4 DEF NoCodeIn, AllProper
  <2>6. n = 0
    <3>1. n = Cardinality(BindersIn(c, Len(c)))
      BY <2>5 DEF Proper, InOrder
    <3>2. BindersIn(c, 0) = {}
      BY DEF BindersIn
    <3> QED
      BY <2>1, <2>5, <3>1, <3>2
  <2>7. Compiled(g, i, c, s)
    BY <2>1, <2>5 DEF Compiled
  <2>8. 1..Len(g[i].vars) = {}
    <3>1. g[i].vars = << >>
      BY <1>4, <1>8 DEF Untouched
    <3> QED
      BY <3>1
  <2>9. Binds(g, i, n, s)
    BY <2>1, <2>6, <2>8 DEF Binds
  <2> QED
    BY <2>3, <2>4, <2>7, <2>9 DEF Done
<1>10. \A n \in 1..Len(callStack) : n = 1
  BY <1>1
<1>11. ASSUME NEW i \in 1..Len(g), NEW s, StopsAt(g, callStack, 1, i, s) PROVE s \in 0..1
  <2>1. CASE i = 1
    <3>1. g[i].loaded /\ 1 \in 1..Len(callStack) /\ callStack[1].block = i
      BY <1>1, <1>4, <1>8, <2>1
    <3>2. PICK n \in 1..Len(callStack) : s = GoesOn(callStack, n, 1)
      BY <1>11, <3>1 DEF StopsAt
    <3> QED
      BY <1>1, <1>10, <3>2 DEF GoesOn
  <2>2. CASE i # 1
    <3>1. ~ g[i].loaded
      BY <1>4, <1>8, <2>2 DEF Untouched
    <3>2. \A n \in 1..Len(callStack) : callStack[n].block # i
      BY <1>4, <1>10, <2>2
    <3> QED
      BY <1>11, <3>1, <3>2 DEF StopsAt
  <2> QED
    BY <2>1, <2>2
<1>12. FaithAt(g, blockTable, callStack, 1)
  <2>1. CallsLoaded(g, callStack)
    <3>1. 1 \in 1..Len(g)
      BY <1>2, <1>8
    <3> QED
      BY <1>4, <1>8, <1>10, <3>1 DEF CallsLoaded
  <2>2. Resumes(callStack, 1)
    BY <1>1, <1>10 DEF Resumes, GoesOn, WordBegins
  <2>3. AllDone(g, blockTable, callStack, 1)
    BY <1>9, <1>11 DEF AllDone
  <2> QED
    BY <2>1, <2>2, <2>3 DEF FaithAt
<1> QED
  BY <1>1, <1>7, <1>12, FaithLoads

-------------------------------------------------------------------------------
(* The end of the load. *)

(* The words that owe block i an instruction. *)
WordsOf(i) == { k \in OwnedBy(i) : Emits(k) }

(* Words have the owner that their block's begin is. *)
LEMMA WordsAre ==
  ASSUME toks \in Seq(STRING), TreeDone(toks, infos), NEW i \in 1..Len(infos)
  PROVE  /\ WordsOf(i) = Own(infos, i, Len(toks) + 1)
         /\ \A k \in Nat : Own(infos, i, k + 1) = { j \in WordsOf(i) : j <= k }
<1>1. Forest(toks, infos) /\ Len(infos) \in Nat /\ Len(infos) >= 1 /\ Len(toks) \in Nat
  BY DEF TreeDone, Forest
<1>2. ASSUME NEW k \in 1..Len(toks)
      PROVE  Innermost(infos, i, k)
               <=> Owner(k) = IF i = 1 THEN Nowhere ELSE infos[i].begin
  <2>1. PICK j \in 1..Len(infos) : Innermost(infos, j, k)
    BY <1>1, SomeInnermost
  <2>2. /\ j = 1 => Owner(k) = Nowhere
        /\ j # 1 => Owner(k) = infos[j].begin
    BY <2>1, OwnerIs
  <2>3. ASSUME NEW b \in 1..Len(infos), b # 1 PROVE infos[b].begin # Nowhere /\ b \in 2..Len(infos)
    <3>1. b \in 2..Len(infos)
      BY <1>1, <2>3
    <3>2. infos[b].begin \in 1..Len(toks)
      BY <1>1, <3>1, InForest
    <3> QED
      BY <1>1, <3>1, <3>2 DEF Nowhere
  <2>4. CASE j = i
    BY <2>1, <2>2, <2>4
  <2>5. CASE j # i
    <3>1. ~ Innermost(infos, i, k)
      BY <1>1, <2>1, <2>5, OneInnermost
    <3>2. CASE i = 1
      BY <2>2, <2>3, <2>5, <3>1, <3>2
    <3>3. CASE i # 1 /\ j = 1
      BY <2>2, <2>3, <3>1, <3>3
    <3>4. CASE i # 1 /\ j # 1
      <4>1. infos[i].begin # infos[j].begin
        BY <1>1, <2>3, <2>5, <3>4, InOrderOfBegin
      <4> QED
        BY <2>2, <3>1, <3>4, <4>1
    <3> QED
      BY <3>2, <3>3, <3>4
  <2> QED
    BY <2>4, <2>5
<1>3. ASSUME NEW k
      PROVE  k \in WordsOf(i) <=> (k \in 1..Len(toks) /\ Innermost(infos, i, k) /\ Emits(k))
  BY <1>2 DEF WordsOf, OwnedBy
<1>4. WordsOf(i) = Own(infos, i, Len(toks) + 1)
  <2>1. \A k \in 1..Len(toks) : k < Len(toks) + 1
    BY <1>1
  <2> QED
    BY <1>3, <2>1 DEF Own
<1>5. ASSUME NEW k \in Nat PROVE Own(infos, i, k + 1) = { j \in WordsOf(i) : j <= k }
  <2>1. \A j \in 1..Len(toks) : j < k + 1 <=> j <= k
    BY <1>1
  <2> QED
    BY <1>3, <2>1 DEF Own
<1> QED
  BY <1>4, <1>5, Zenon

(* A block that has been compiled wholly says what its words mean. *)
LEMMA FinishedMeans ==
  ASSUME toks \in Seq(STRING), TreeDone(toks, infos), NEW i \in 1..Len(infos),
         Done(infos, blockTable, i, Len(toks) + 1)
  PROVE  /\ Len(blockTable[Global(i)].code) = Cardinality(WordsOf(i))
         /\ \A k \in WordsOf(i) :
              Means(k, blockTable[Global(i)].code[Cardinality({ j \in WordsOf(i) : j <= k })])
<1>1. PICK c : c = blockTable[Global(i)].code
  OBVIOUS
<1>2. Compiled(infos, i, c, Len(toks) + 1)
  BY <1>1 DEF Done, Global
<1>3. WordsOf(i) = Own(infos, i, Len(toks) + 1)
  BY WordsAre
<1>4. Len(c) = Cardinality(WordsOf(i))
  BY <1>2, <1>3 DEF Compiled
<1>5. ASSUME NEW k \in WordsOf(i)
      PROVE  Means(k, c[Cardinality({ j \in WordsOf(i) : j <= k })])
  <2>1. k \in Own(infos, i, Len(toks) + 1)
    BY <1>3
  <2>2. k \in Nat
    BY <2>1 DEF Own
  <2>3. Own(infos, i, k + 1) = { j \in WordsOf(i) : j <= k }
    BY <2>2, WordsAre
  <2>4. Says(infos, k, c[Cardinality(Own(infos, i, k + 1))])
    BY <1>2, <2>1 DEF Compiled
  <2>5. Means(k, c[Cardinality(Own(infos, i, k + 1))])
    BY <2>4, SaysIs, Zenon
  <2> QED
    BY <2>3, <2>5, Zenon
<1> QED
  BY <1>1, <1>4, <1>5, Zenon

(* So the invariant implies the property. *)
LEMMA FaithInvFaithful ==
  ASSUME LoaderInv, FaithInv, BraceFirst
  PROVE  Faithful
<1> SUFFICES ASSUME phase = "loaded", Readable, NEW i \in DOMAIN infos, infos[i].loaded
             PROVE  /\ Len(blockTable[Global(i)].code) = Cardinality(WordsOf(i))
                    /\ \A k \in WordsOf(i) :
                         Means(k, blockTable[Global(i)].code
                                    [Cardinality({ j \in WordsOf(i) : j <= k })])
  BY Zenon DEF Faithful, WordsOf, Readable, BraceFirst
<1>2. toks \in Seq(STRING) /\ infos \in Seq(LoadBlockInfo)
  BY DEF LoaderInv, Base
<1>3. i \in 1..Len(infos)
  BY <1>2
<1>4. TreeDone(toks, infos) /\ AllFinished(infos, blockTable)
  BY DEF FaithInv
<1>5. Done(infos, blockTable, i, Len(toks) + 1)
  BY <1>3, <1>4 DEF AllFinished
<1> QED
  BY <1>2, <1>3, <1>4, <1>5, FinishedMeans

(* At the end of the load nothing is left to compile. *)
LEMMA LoadEndFaith ==
  ASSUME LoaderInv, NamesInv, FaithInv, LoadEnd
  PROVE  FaithInv'
<1>1. /\ phase = "load" /\ phase' = "loaded" /\ p = End /\ Len(callStack) = 1
      /\ toks' = toks /\ prior' = prior /\ infos' = infos /\ blockTable' = blockTable
  BY DEF LoadEnd, blockVars
<1>2. TreeDone(toks, infos) /\ callStack[1].block = 1 /\ End = Len(toks) + 1
  BY <1>1, InTheLoad DEF CallsFit
<1>3. ASSUME Readable PROVE AllFinished(infos, blockTable)
  <2>1. AllDone(infos, blockTable, callStack, p)
    BY <1>1, <1>3 DEF FaithInv, FaithAt
  <2>2. ASSUME NEW i \in 1..Len(infos), infos[i].loaded
        PROVE  StopsAt(infos, callStack, p, i, Len(toks) + 1)
    <3>1. \A n \in 1..Len(callStack) : n = 1
      BY <1>1
    <3>2. 1 \in 1..Len(callStack) /\ GoesOn(callStack, 1, p) = Len(toks) + 1
      BY <1>1, <1>2 DEF GoesOn
    <3>3. CASE i = 1
      BY <1>2, <3>2, <3>3 DEF StopsAt
    <3>4. CASE i # 1
      BY <1>2, <2>2, <3>1, <3>4 DEF StopsAt
    <3> QED
      BY <3>3, <3>4
  <2> QED
    BY <2>1, <2>2 DEF AllDone, AllFinished
<1>4. ASSUME Readable'
      PROVE  (TreeDone(toks, infos) /\ AllFinished(infos, blockTable))'
  <2>1. Readable
    BY <1>1, <1>4, SameText DEF Readable
  <2>2. AllFinished(infos', blockTable')
    BY <1>1, <1>3, <2>1
  <2> QED
    BY <1>1, <1>2, <2>2, FinishedNext
<1> QED
  BY <1>1, <1>4 DEF FaithInv

-------------------------------------------------------------------------------
(* A list of variables. *)

(* The text from k to e is a list that block c reads. *)
ListAt(k, e, c) ==
  /\ toks \in Seq(STRING) /\ TreeDone(toks, infos) /\ ListsClosed(toks)
  /\ k \in 1..Len(toks) /\ toks[k] = ListBegin /\ e \in (k + 1)..Len(toks)
  /\ toks[e] = ListEnd /\ (\A m \in (k + 1)..(e - 1) : toks[m] # ListEnd)
  /\ NoBrace(toks, k, e + 1) /\ Outside(toks, k) /\ Innermost(infos, c, k)

(* What it gives its block, *)
LEMMA ListOwns ==
  ASSUME NEW k, NEW e, NEW c, ListAt(k, e, c), NEW g, SameBlocks(infos, g)
  PROVE  /\ k \in Nat /\ e \in Nat /\ k < e /\ e <= Len(toks) /\ Len(toks) \in Nat
         /\ Own(g, c, e + 1) = Own(g, c, k) \union ((k + 1)..(e - 1))
         /\ Names(g, c, e + 1) = Names(g, c, k) \union ((k + 1)..(e - 1))
         /\ \A m \in (k + 1)..(e - 1) : Listed(m) /\ m \in Names(g, c, e + 1)
<1>1. k \in Nat /\ e \in Nat /\ k < e /\ e <= Len(toks) /\ Len(toks) \in Nat
  BY DEF ListAt
<1>2. Forest(toks, infos) /\ Ended(infos)
  BY DoneEnded DEF ListAt, TreeDone
<1>3. /\ Own(infos, c, e + 1) = Own(infos, c, k) \union ((k + 1)..(e - 1))
      /\ Names(infos, c, e + 1) = Names(infos, c, k) \union ((k + 1)..(e - 1))
      /\ \A m \in (k + 1)..(e - 1) : Listed(m) /\ Innermost(infos, c, m)
  BY <1>2, OwnList DEF ListAt
<1>4. /\ Own(g, c, e + 1) = Own(infos, c, e + 1) /\ Own(g, c, k) = Own(infos, c, k)
      /\ Names(g, c, e + 1) = Names(infos, c, e + 1) /\ Names(g, c, k) = Names(infos, c, k)
  BY SameOwn
<1> QED
  BY <1>1, <1>3, <1>4, Zenon

(* the code that this is, *)
LEMMA ListCompiled ==
  ASSUME NEW k, NEW e, NEW c, ListAt(k, e, c), NEW g, SameBlocks(infos, g),
         NEW a, Compiled(g, c, a, k), NEW d, Len(d) = Len(a) + (e - k - 1),
         \A j \in 1..Len(a) : d[j] = a[j],
         \A j \in (Len(a) + 1)..Len(d) : d[j].op = "PopVar"
  PROVE  Compiled(g, c, d, e + 1)
<1>1. /\ k \in Nat /\ e \in Nat /\ k < e
      /\ Own(g, c, e + 1) = Own(g, c, k) \union ((k + 1)..(e - 1))
      /\ \A m \in (k + 1)..(e - 1) : Listed(m)
  BY ListOwns
<1>2. PICK n : n = Len(a)
  OBVIOUS
<1>3. n \in Nat
  <2>1. toks \in Seq(STRING) /\ n = Cardinality(Own(g, c, k))
    BY <1>2 DEF ListAt, Compiled
  <2> QED
    BY <2>1, OwnIsFinite
<1>4. PICK x : x = k + 1
  OBVIOUS
<1>5. PICK y : y = e - 1
  OBVIOUS
<1>6. /\ x \in Nat /\ y \in Nat /\ k <= x /\ x <= y + 1 /\ y < e + 1
      /\ k \in Nat /\ e + 1 \in Nat
  BY <1>1, <1>4, <1>5
<1>7. Len(d) = n + (y - x) + 1
  <2>1. n + (e - k - 1) = n + (y - x) + 1
    BY <1>1, <1>3, <1>4, <1>5
  <2> QED
    BY <1>2, <2>1
<1>8. ASSUME NEW m \in x..y PROVE Says(g, m, d[n + (m - x) + 1])
  <2>1. n + (m - x) + 1 \in (n + 1)..(n + (y - x) + 1)
    BY <1>3, <1>6
  <2>2. d[n + (m - x) + 1].op = "PopVar"
    BY <1>2, <1>7, <2>1
  <2>3. Listed(m)
    BY <1>1, <1>4, <1>5, <1>8
  <2> QED
    BY <2>2, <2>3, Zenon DEF Says
<1>9. toks \in Seq(STRING) /\ Own(g, c, e + 1) = Own(g, c, k) \union (x..y)
  BY <1>1, <1>4, <1>5 DEF ListAt
<1>10. Len(d) = Len(a) + (y - x) + 1 /\ \A m \in x..y : Says(g, m, d[Len(a) + (m - x) + 1])
  BY <1>2, <1>7, <1>8
<1> QED
  BY <1>6, <1>9, <1>10, CompiledOn, ZenonT(40)

(* and the variables that its names become. *)
LEMMA ListBound ==
  ASSUME NEW k, NEW e, NEW c, ListAt(k, e, c), NEW g, SameBlocks(infos, g),
         NEW ns \in Seq(STRING), ListNames(toks, k, e, ns),
         NEW n, Binds(infos, c, n, k), BoundMore(infos, g, c, ns, n)
  PROVE  Binds(g, c, n + Len(ns), e + 1)
<1>1. /\ k \in Nat /\ e \in Nat /\ k < e /\ Len(ns) = e - k - 1 /\ Len(ns) \in Nat
      /\ Names(g, c, e + 1) = Names(g, c, k) \union ((k + 1)..(e - 1))
      /\ \A m \in (k + 1)..(e - 1) : m \in Names(g, c, e + 1)
  BY ListOwns DEF ListNames
<1>2. /\ n = Cardinality(Names(infos, c, k)) /\ Names(g, c, k) = Names(infos, c, k)
      /\ IsFiniteSet(Names(infos, c, k)) /\ n \in Nat
  <2>1. toks \in Seq(STRING) /\ n = Cardinality(Names(infos, c, k))
    BY DEF ListAt, Binds
  <2> QED
    BY <2>1, SameOwn, OwnIsFinite
<1>3. Cardinality(Names(g, c, e + 1)) = n + Len(ns)
  <2>1. PICK S : S = Names(infos, c, k)
    OBVIOUS
  <2>2. S \subseteq Nat /\ \A m \in S : m < k + 1
    BY <1>1, <2>1 DEF Names
  <2>3. k + 1 \in Nat /\ e - 1 \in Nat /\ k + 1 <= (e - 1) + 1
    BY <1>1
  <2>4. Cardinality(S \union ((k + 1)..(e - 1))) = Cardinality(S) + ((e - 1) - (k + 1)) + 1
    BY <1>2, <2>1, <2>2, <2>3, CountOn
  <2>5. n + ((e - 1) - (k + 1)) + 1 = n + (e - k - 1)
    BY <1>1, <1>2
  <2> QED
    BY <1>1, <1>2, <2>1, <2>4, <2>5
<1>4. PICK a : a = Len(infos[c].vars)
  OBVIOUS
<1>5. a \in Nat
  <2>1. infos \in Seq(LoadBlockInfo) /\ c \in 1..Len(infos)
    BY DEF ListAt, TreeDone, Forest, Innermost
  <2>2. infos[c].vars \in Seq([name : STRING, var : Nat])
    BY <2>1, InfoFields
  <2> QED
    BY <1>4, <2>2
<1>6. /\ Len(g[c].vars) = a + Len(ns)
      /\ \A x \in 1..a : g[c].vars[x] = infos[c].vars[x]
      /\ \A j \in 1..Len(ns) : g[c].vars[a + j].name = ns[j] /\ g[c].vars[a + j].var = n + j - 1
  BY <1>4 DEF BoundMore
<1>7. ASSUME NEW x \in 1..Len(g[c].vars) PROVE VarIs(g, c, g[c].vars[x], e + 1)
  <2>1. x \in 1..a \/ x - a \in 1..Len(ns)
    BY <1>1, <1>5, <1>6
  <2>2. CASE x \in 1..a
    <3>1. VarIs(infos, c, infos[c].vars[x], k) /\ g[c].vars[x] = infos[c].vars[x]
      BY <1>4, <1>6, <2>2 DEF Binds
    <3>2. \A l \in Names(infos, c, k) : l \in Names(g, c, e + 1)
      BY <1>1, <1>2
    <3> QED
      BY <3>1, <3>2, Zenon DEF VarIs
  <2>3. CASE x - a \in 1..Len(ns)
    <3>1. PICK j : j = x - a
      OBVIOUS
    <3>2. j \in 1..Len(ns) /\ a + j = x
      BY <1>5, <2>3, <3>1
    <3>3. g[c].vars[x].name = ns[j] /\ g[c].vars[x].var = n + j - 1
      BY <1>6, <3>2
    <3>4. e - j \in (k + 1)..(e - 1) /\ j \in 1..(e - k - 1)
      BY <1>1, <3>2
    <3>5. SlotOf(e - j) = n + j - 1
      BY <1>2, <3>4, SlotIs DEF ListAt
    <3>6. toks[e - j] = ns[j]
      BY <3>2 DEF ListNames
    <3>7. PICK l : l = e - j
      OBVIOUS
    <3>8. l \in Names(g, c, e + 1) /\ toks[l] = ns[j] /\ SlotOf(l) = n + j - 1
      BY <1>1, <3>4, <3>5, <3>6, <3>7
    <3> QED
      BY <3>3, <3>8, Zenon DEF VarIs
  <2> QED
    BY <2>1, <2>2, <2>3
<1> QED
  BY <1>3, <1>7 DEF Binds

(* The block goes on behind the list. *)
LEMMA ListFaith ==
  ASSUME NEW k, NEW e, NEW c, ListAt(k, e, c), prior \in Nat,
         NEW t \in Seq(BlockInfo), Len(t) = prior + Len(infos),
         NEW ns \in Seq(STRING), ListNames(toks, k, e, ns),
         NEW u, BoundIn(t, u, prior + c, Len(ns)),
         NEW g, BoundMore(infos, g, c, ns, t[prior + c].varCount),
         SameBlocks(infos, g), LoadMore(infos, g), SameLoaded(infos, g),
         NEW cs, Len(cs) \in Nat, Len(cs) >= 1, c = cs[Len(cs)].block,
         FaithAt(infos, t, cs, k), Done(infos, t, c, k)
  PROVE  FaithAt(g, u, cs, e + 1)
<1>1. /\ k \in Nat /\ e \in Nat /\ k < e /\ Len(ns) = e - k - 1
      /\ c \in 1..Len(infos) /\ Len(infos) \in Nat
  <2>1. k \in Nat /\ e \in Nat /\ k < e
    BY ListOwns
  <2>2. Len(ns) = e - k - 1
    BY DEF ListNames
  <2>3. Innermost(infos, c, k) /\ TreeDone(toks, infos)
    BY DEF ListAt
  <2>4. c \in 1..Len(infos) /\ Len(infos) \in Nat
    BY <2>3 DEF Innermost, TreeDone, Forest
  <2> QED
    BY <2>1, <2>2, <2>4
<1>2. PICK n : n = t[prior + c].varCount
  OBVIOUS
<1>3. PICK a : a = t[prior + c].code
  OBVIOUS
<1>4. PICK d : d = u[prior + c].code
  OBVIOUS
<1>5. Compiled(infos, c, a, k) /\ Binds(infos, c, n, k)
  BY <1>2, <1>3 DEF Done
<1>6. /\ u[prior + c].varCount = n + Len(ns)
      /\ Len(d) = Len(a) + Len(ns)
      /\ \A j \in 1..Len(a) : d[j] = a[j]
      /\ \A j \in (Len(a) + 1)..Len(d) : d[j].op = "PopVar"
      /\ \A y \in 1..Len(t) : y # prior + c => u[y] = t[y]
  BY <1>2, <1>3, <1>4 DEF BoundIn
<1>7. Compiled(g, c, a, k)
  BY <1>5, CompiledSame
<1>8. Compiled(g, c, d, e + 1)
  <2>1. Len(d) = Len(a) + (e - k - 1)
    BY <1>1, <1>6
  <2> QED
    BY <1>6, <1>7, <2>1, ListCompiled, Zenon
<1>9. Binds(g, c, n + Len(ns), e + 1)
  BY <1>2, <1>5, ListBound
<1>10. Done(g, u, c, e + 1)
  BY <1>4, <1>6, <1>8, <1>9 DEF Done
<1>11. OthersSame(infos, t, g, u, c)
  <2>1. ASSUME NEW i \in 1..Len(infos), i # c PROVE SameWork(infos, t, g, u, i)
    <3>0. PICK m : m = Len(infos)
      OBVIOUS
    <3>1. prior + i \in 1..Len(t) /\ prior + i # prior + c
      <4>1. /\ m \in Nat /\ i \in 1..m /\ c \in 1..m /\ i # c /\ prior \in Nat
            /\ Len(t) = prior + m
        BY <1>1, <2>1, <3>0
      <4>2. prior + i \in 1..(prior + m)
        BY <4>1
      <4>3. prior + i # prior + c
        BY <4>1
      <4> QED
        BY <4>1, <4>2, <4>3
    <3>2. u[prior + i] = t[prior + i]
      BY <1>6, <3>1
    <3>3. g[i].vars = infos[i].vars
      BY <2>1 DEF BoundMore
    <3> QED
      BY <3>2, <3>3 DEF SameWork
  <2> QED
    BY <2>1 DEF OthersSame
<1>12. WordBegins(e + 1)
  <2>1. toks[e] = ListEnd /\ (e + 1) - 1 = e
    BY <1>1 DEF ListAt
  <2>2. ListEnd \notin DOMAIN DefOf
    BY BracketsAre DEF Structural
  <2> QED
    BY <2>1, <2>2 DEF WordBegins, Defines
<1> QED
  BY <1>10, <1>11, <1>12, FaithMoves

(* A list of variables binds its names. *)
LEMMA LoadVarsFaith ==
  ASSUME LoaderInv, NamesInv, FaithInv, LoadVars
  PROVE  FaithInv'
<1> DEFINE close == Min(ListEnds)
           ns == BoundFirst(SubSeq(toks, p + 1, close - 1))
           b == Global(Cur)
           n == blockTable[b].varCount
<1>1. /\ phase = "load" /\ p # End /\ Tok = "[" /\ ListEnds # {}
      /\ infos' = [infos EXCEPT ![Cur].vars =
                     @ \o [k \in 1..Len(ns) |-> [name |-> ns[k], var |-> n + k - 1]]]
      /\ blockTable' =
           [blockTable EXCEPT
              ![b].code = @ \o [k \in 1..Len(ns) |-> Inst("PopVar", n + k - 1)],
              ![b].varCount = @ + Len(ns)]
      /\ p' = close + 1 /\ toks' = toks /\ prior' = prior /\ phase' = phase
      /\ callStack' = callStack
  BY DEF LoadVars, InLoad, MoveTo
<1>2. /\ Loading /\ toks \in Seq(STRING) /\ Len(toks) \in Nat
      /\ p \in 1..Len(toks) /\ p \in Nat /\ Tok = toks[p]
      /\ infos \in Seq(LoadBlockInfo) /\ Len(infos) \in Nat /\ Len(infos) >= 1
      /\ Cur \in 1..Len(infos) /\ b \in Blocks
      /\ CallsFit(toks, infos, callStack) /\ infos[1].loaded
      /\ Len(callStack) \in Nat /\ Len(callStack) >= 1
      /\ Cur = callStack[Len(callStack)].block
      /\ TreeDone(toks, infos) /\ Forest(toks, infos) /\ Ended(infos)
      /\ ListsHoldNames => Innermost(infos, Cur, p)
  BY <1>1, InTheLoad
<1>3. /\ close \in (p + 1)..Len(toks) /\ close \in Nat /\ toks[close] = ListEnd
      /\ \A m \in (p + 1)..(close - 1) : toks[m] # ListEnd
  <2>1. /\ ListEnds \subseteq Nat
        /\ ListEnds = { m \in (p + 1)..Len(toks) : toks[m] = ListEnd }
    <3>1. ListEnds = { m \in (p + 1)..Len(toks) : toks[m] = ListEnd }
      BY Zenon DEF ListEnds, ListEnd
    <3> QED
      BY <1>2, <3>1
  <2>2. Min(ListEnds) \in ListEnds /\ \A y \in ListEnds : Min(ListEnds) <= y
    BY <1>1, <2>1, MinIsLeast
  <2> HIDE DEF close
  <2>3. close \in ListEnds /\ \A y \in ListEnds : close <= y
    BY <2>2 DEF close
  <2>4. close \in (p + 1)..Len(toks) /\ toks[close] = ListEnd
    BY <2>1, <2>3
  <2>5. ASSUME NEW m \in (p + 1)..(close - 1) PROVE toks[m] # ListEnd
    <3>1. m \in (p + 1)..Len(toks) /\ ~ (close <= m)
      BY <1>2, <2>4
    <3> QED
      BY <2>1, <2>3, <3>1
  <2> QED
    BY <1>2, <2>4, <2>5
<1>4. ns \in Seq(STRING) /\ ListNames(toks, p, close, ns)
  BY <1>2, <1>3, ListNamesAre
<1>5. ListsHoldNames => NoBrace(toks, p, close + 1)
  BY <1>1, <1>2, ListIsClosed
<1> HIDE DEF ns, close
<1>6. TableInv /\ Len(blockTable) = prior + Len(infos) /\ prior \in Nat
  BY <1>2, WhileLoading
<1>7. blockTable \in Seq(BlockInfo) /\ b \in 1..Len(blockTable) /\ Len(ns) \in Nat /\ n \in Nat
  <2>1. blockTable \in Seq(BlockInfo) /\ b \in 1..Len(blockTable) /\ Len(ns) \in Nat
    BY <1>2, <1>4, <1>6 DEF TableInv, Blocks
  <2>2. blockTable[b] \in BlockInfo
    BY <2>1, ElementOfSeq
  <2> QED
    BY <2>1, <2>2 DEF BlockInfo
<1>8. PICK t : t = blockTable
  OBVIOUS
<1>9. PICK u : u = blockTable'
  OBVIOUS
<1>10. PICK g : g = infos'
  OBVIOUS
<1>11. BoundIn(t, u, b, Len(ns))
  <2> DEFINE m == Len(ns)
             x == [t EXCEPT
                     ![b].code = @ \o [k \in 1..m |-> Inst("PopVar", t[b].varCount + k - 1)],
                     ![b].varCount = @ + m]
  <2>1. u = x
    BY <1>1, <1>8, <1>9
  <2>2. t \in Seq(BlockInfo) /\ b \in 1..Len(t) /\ m \in Nat
    BY <1>7, <1>8
  <2> HIDE DEF m, b
  <2>3. BoundIn(t, x, b, m)
    BY <2>2, BoundInIs
  <2> HIDE DEF x
  <2> QED
    BY <2>1, <2>3 DEF m
<1>12. BoundMore(infos, g, Cur, ns, n)
  <2> DEFINE x == [infos EXCEPT ![Cur].vars =
                     @ \o [k \in 1..Len(ns) |-> [name |-> ns[k], var |-> n + k - 1]]]
  <2>1. g = x
    BY <1>1, <1>10
  <2> HIDE DEF n
  <2>2. BoundMore(infos, x, Cur, ns, n)
    <3>1. PICK c : c = Cur
      OBVIOUS
    <3>2. infos \in Seq(LoadBlockInfo) /\ c \in 1..Len(infos)
      BY <1>2, <3>1, Zenon
    <3>3. ns \in Seq(STRING) /\ n \in Nat
      BY <1>4, <1>7, Zenon
    <3> HIDE DEF x
    <3>4. PICK y : y = [infos EXCEPT ![c].vars =
                         @ \o [k \in 1..Len(ns) |-> [name |-> ns[k], var |-> n + k - 1]]]
      OBVIOUS
    <3>5. BoundMore(infos, y, c, ns, n)
      BY <3>2, <3>3, <3>4, BoundMoreIs
    <3>6. y = x
      BY <3>1, <3>4 DEF x
    <3> QED
      BY <3>1, <3>5, <3>6
  <2> HIDE DEF x
  <2> QED
    BY <2>1, <2>2
<1>13. SameTree(infos, g) /\ g[1].loaded /\ SameLoaded(infos, g)
  <2>1. LoaderInv'
    BY LoadVarsKeeps
  <2>2. infos' \in Seq(LoadBlockInfo)
    BY <2>1 DEF LoaderInv, Base
  <2>3. PICK c : c = Cur
    OBVIOUS
  <2>4. PICK w : w = infos[c].vars \o
                       [k \in 1..Len(ns) |-> [name |-> ns[k], var |-> n + k - 1]]
    OBVIOUS
  <2>5. g = [infos EXCEPT ![c].vars = w]
    BY <1>1, <1>10, <2>3, <2>4
  <2>6. c \in 1..Len(infos) /\ infos \in Seq(LoadBlockInfo)
    BY <1>2, <2>3
  <2>7. g[c].vars = w /\ g[c] \in LoadBlockInfo
    <3>1. g \in Seq(LoadBlockInfo) /\ c \in DOMAIN infos /\ DOMAIN g = DOMAIN infos
      BY <1>10, <2>2, <2>5, <2>6
    <3>2. infos[c] \in LoadBlockInfo
      BY <2>6, ElementOfSeq
    <3>3. g[c] = [infos[c] EXCEPT !.vars = w]
      BY <2>5, <3>1
    <3>4. g[c] \in LoadBlockInfo
      BY <3>1
    <3> QED
      BY <3>2, <3>3, <3>4 DEF LoadBlockInfo
  <2>8. w \in Seq([name : STRING, var : Nat])
    BY <2>7 DEF LoadBlockInfo
  <2>9. SameTree(infos, g) /\ \A i \in 1..Len(infos) : infos[i].loaded => g[i].loaded
    BY <2>5, <2>6, <2>8, BoundIs, Zenon
  <2>10. 1 \in 1..Len(infos)
    BY <1>2
  <2>11. SameLoaded(infos, g)
    <3>1. Len(g) = Len(infos)
      BY <2>9 DEF SameTree
    <3>2. ASSUME NEW i \in 1..Len(infos) PROVE g[i].loaded <=> infos[i].loaded
      <4>1. CASE i = c
        <5>1. infos[c] \in LoadBlockInfo /\ c \in DOMAIN infos
          BY <2>6, ElementOfSeq
        <5>2. g[c] = [infos[c] EXCEPT !.vars = w]
          BY <2>5, <5>1
        <5> QED
          BY <4>1, <5>1, <5>2 DEF LoadBlockInfo
      <4>2. CASE i # c
        BY <2>5, <2>6, <4>2
      <4> QED
        BY <4>1, <4>2
    <3> QED
      BY <3>1, <3>2 DEF SameLoaded
  <2> QED
    BY <1>2, <2>9, <2>10, <2>11
<1>14. SameBlocks(infos, g)
  BY <1>2, <1>13, DoneKept DEF SameBlocks
<1>15. LoadMore(infos, g)
  <2>1. ASSUME NEW a, NEW k, LoadedIn(infos, a, k) PROVE LoadedIn(g, a, k)
    <3>1. PICK i : i = a - prior
      OBVIOUS
    <3>2. a > prior /\ i \in 1..Len(infos) /\ infos[i].begin = k /\ infos[i].loaded
      BY <2>1, <3>1 DEF LoadedIn
    <3>3. Len(g) = Len(infos) /\ g[i].begin = k /\ g[i].loaded
      BY <1>13, <3>2 DEF SameTree, SameLoaded
    <3> QED
      BY <3>1, <3>2, <3>3 DEF LoadedIn
  <2> QED
    BY <2>1 DEF LoadMore
<1>16. ASSUME Readable PROVE FaithAt(g, u, callStack, close + 1)
  <2>1. /\ FaithAt(infos, t, callStack, p) /\ Done(infos, t, Cur, p)
        /\ ListsClosed(toks) /\ Outside(toks, p) /\ ListsHoldNames
    BY <1>1, <1>8, <1>16, FaithInTheLoad DEF Readable
  <2>2. toks[p] = ListBegin
    BY <1>1, <1>2 DEF ListBegin
  <2>3. b = prior + Cur
    BY DEF Global
  <2>4. ListAt(p, close, Cur)
    <3> HIDE DEF n, b
    <3> QED
      BY <1>2, <1>3, <1>5, <2>1, <2>2 DEF ListAt
  <2>5. /\ t \in Seq(BlockInfo) /\ Len(t) = prior + Len(infos)
        /\ BoundIn(t, u, prior + Cur, Len(ns))
        /\ BoundMore(infos, g, Cur, ns, t[prior + Cur].varCount)
    BY <1>6, <1>7, <1>8, <1>11, <1>12, <2>3
  <2>6. PICK c : c = Cur
    OBVIOUS
  <2> HIDE DEF n, b
  <2>7. /\ ListAt(p, close, c) /\ BoundIn(t, u, prior + c, Len(ns))
        /\ BoundMore(infos, g, c, ns, t[prior + c].varCount)
        /\ Done(infos, t, c, p) /\ c = callStack[Len(callStack)].block
    BY <1>2, <2>1, <2>4, <2>5, <2>6
  <2> QED
    BY <1>2, <1>4, <1>6, <1>13, <1>14, <1>15, <2>1, <2>5, <2>7, ListFaith
<1> QED
  BY <1>1, <1>9, <1>10, <1>16, FaithLoads DEF Readable

(* Every step of the loader. *)
LEMMA StepFaith ==
  ASSUME LoaderInv, NamesInv, FaithInv, LoadStep
  PROVE  FaithInv'
<1>1. ASSUME NEW e, Reject(e) PROVE phase' \notin {"load", "loaded"}
  BY <1>1 DEF Reject
<1>2. CASE \/ TreeUnclosed \/ TreeUnopened \/ TreeBadDef \/ TreeLostDef
           \/ LoadUnclosed \/ LoadMisplacedClose \/ LoadForeignBlock \/ LoadOpenList
           \/ LoadForeignDef \/ LoadUnknown
  <2>1. phase' \notin {"load", "loaded"}
    BY <1>1, <1>2 DEF TreeUnclosed, TreeUnopened, TreeBadDef, TreeLostDef, LoadUnclosed,
                      LoadMisplacedClose, LoadForeignBlock, LoadOpenList, LoadForeignDef,
                      LoadUnknown, Crash
  <2> QED
    BY <2>1, FaithStops
<1>3. CASE TreeOpen \/ TreeDef \/ TreeClose \/ TreeOther
  <2>1. phase' = "tree"
    BY <1>3 DEF TreeOpen, TreeDef, TreeClose, TreeOther, InTree, OpenBlock, MoveTo
  <2> QED
    BY <2>1, FaithStops
<1> QED
  BY <1>2, <1>3, TreeEndFaith, LoadEndFaith, LoadCloseFaith, LoadOpenFaith, LoadCalleeFaith,
     PlainWordsFaith, BlockValueFaith, LoadDefFaith, LoadVarsFaith
     DEF LoadStep

(* A step that leaves the loader alone keeps what it has compiled. *)
LEMMA SameFaith ==
  ASSUME FaithInv, toks' = toks, prior' = prior, infos' = infos, callStack' = callStack,
         p' = p, phase' = phase, blockTable' = blockTable
  PROVE  FaithInv'
<1>1. Readable' <=> Readable
  BY SameText DEF Readable
<1>2. ASSUME phase = "load", Readable
      PROVE  FaithAt(infos, blockTable, callStack, p)'
  <2>1. FaithAt(infos', blockTable', callStack', p')
    BY <1>2 DEF FaithInv
  <2> QED
    BY <2>1, FaithNext
<1>3. ASSUME phase = "loaded", Readable
      PROVE  (TreeDone(toks, infos) /\ AllFinished(infos, blockTable))'
  <2>1. TreeDone(toks, infos) /\ AllFinished(infos', blockTable')
    BY <1>3 DEF FaithInv
  <2> QED
    BY <2>1, FinishedNext
<1> QED
  BY <1>1, <1>2, <1>3 DEF FaithInv

(* The root begins at the first token too, so it is taken for the block that  *)
(* begins there, and no block is the scope of the root (assertScope).         *)
LEMMA NothingAfterBrace ==
  ASSUME LoaderInv, BraceFirst, LoadStep, phase = "load",
         toks # << >>, toks[1] = Opener
  PROVE  phase' \notin {"load", "loaded"}
<1>1. /\ p = 1 /\ toks \in Seq(STRING) /\ TreeDone(toks, infos) /\ 1 \in 1..Len(toks)
      /\ p # End /\ Tok = Opener
  BY InTheLoad DEF BraceFirst
<1>2. FindBlock(p) = 1
  BY <1>1, FindBlockIs
<1>3. infos[FindBlock(p)].loaded /\ infos[FindBlock(p)].scope # Cur
  <2>1. infos[1].loaded /\ infos[1].scope = 0 /\ Cur \in 1..Len(infos)
    BY InTheLoad DEF None
  <2>2. Cur # 0
    BY <2>1
  <2> QED
    BY <1>2, <2>1, <2>2
<1>4. Opener \in Structural /\ Opener \notin DOMAIN DefOf
  <2>1. {"{", "}", "[", "]", "#"} \intersect DOMAIN DefOf = {}
    BY Zenon, WordsAssumption
  <2>2. Opener \notin DOMAIN DefOf
    BY <2>1, Zenon DEF Opener
  <2> QED
    BY <2>2, Zenon DEF Structural, Opener
<1>5. ~ PlainWord /\ Tok \in Structural /\ Tok \notin DOMAIN DefOf
  BY <1>1, <1>4, Zenon DEF PlainWord
<1>6. Tok # "}" /\ Tok # "["
  BY <1>1, Zenon DEF Opener
<1>7. ~ \/ TreeEnd \/ TreeUnclosed \/ TreeClose \/ TreeUnopened \/ TreeOpen
        \/ TreeDef \/ TreeBadDef \/ TreeLostDef \/ TreeOther
  BY Zenon DEF TreeEnd, TreeUnclosed, TreeClose, TreeUnopened, TreeOpen, TreeDef, TreeBadDef,
               TreeLostDef, TreeOther, InTree
<1>8. ~ (LoadEnd \/ LoadUnclosed \/ LoadClose \/ LoadMisplacedClose)
  BY <1>1, <1>6, Zenon DEF LoadEnd, LoadUnclosed, LoadClose, LoadMisplacedClose
<1>9. ~ (LoadVars \/ LoadOpenList \/ LoadDef \/ LoadForeignDef)
  BY <1>5, <1>6, Zenon DEF LoadVars, LoadOpenList, LoadDef, LoadForeignDef
<1>10. ~ IsVar /\ ~ IsDef /\ ~ IsOther
  BY <1>5, Zenon DEF IsVar, IsDef, IsOther
<1>11. ~ \/ LoadApply \/ LoadVar \/ LoadCallee \/ LoadCallInst
         \/ LoadOpr \/ LoadImm \/ LoadUnknown
  BY <1>5, <1>10, Zenon
     DEF LoadApply, LoadVar, LoadCallee, LoadCallInst, LoadOpr, LoadImm, LoadUnknown
<1>12. ~ (LoadOpen \/ LoadBlockValue)
  BY <1>3, Zenon DEF LoadOpen, LoadBlockValue
<1>13. LoadForeignBlock
  BY <1>7, <1>8, <1>9, <1>11, <1>12, Zenon DEF LoadStep
<1>14. phase' = "assertScope"
  BY <1>13, Zenon DEF LoadForeignBlock, Crash
<1> QED
  BY <1>14

(* No step of the loader changes the text. *)
LEMMA StepKeepsText ==
  ASSUME LoadStep
  PROVE  toks' = toks
<1>1. ASSUME NEW k, MoveTo(k) PROVE toks' = toks
  BY <1>1 DEF MoveTo
<1>2. ASSUME NEW f, Crash(f) PROVE toks' = toks
  BY <1>2 DEF Crash
<1>3. ASSUME NEW e, Reject(e) PROVE toks' = toks
  BY <1>3 DEF Reject
<1>4. TreeEnd \/ TreeUnclosed \/ TreeUnopened \/ TreeBadDef \/ TreeLostDef => toks' = toks
  BY <1>2, <1>3, Zenon DEF TreeEnd, TreeUnclosed, TreeUnopened, TreeBadDef, TreeLostDef
<1>5. TreeClose \/ TreeOpen \/ TreeDef \/ TreeOther => toks' = toks
  BY <1>1, Zenon DEF TreeClose, TreeOpen, TreeDef, TreeOther, OpenBlock
<1>6. LoadEnd \/ LoadUnclosed \/ LoadMisplacedClose \/ LoadForeignBlock \/ LoadOpenList
        \/ LoadForeignDef \/ LoadUnknown => toks' = toks
  BY <1>2, <1>3, Zenon DEF LoadEnd, LoadUnclosed, LoadMisplacedClose, LoadForeignBlock,
                          LoadOpenList, LoadForeignDef, LoadUnknown
<1>7. LoadClose \/ LoadOpen \/ LoadCallee \/ LoadBlockValue => toks' = toks
  BY <1>1, Zenon DEF LoadClose, LoadOpen, LoadCallee, LoadBlockValue, Enter
<1>8. LoadVars => toks' = toks
  BY DEF LoadVars, MoveTo
<1>9. LoadDef \/ LoadApply \/ LoadVar \/ LoadCallInst \/ LoadOpr \/ LoadImm => toks' = toks
  BY <1>1, Zenon DEF LoadDef, LoadApply, LoadVar, LoadCallInst, LoadOpr, LoadImm
<1> QED
  BY <1>4, <1>5, <1>6, <1>7, <1>8, <1>9, Zenon DEF LoadStep

(* The first pass leads to the second where the text ends, and only there. *)
LEMMA StepsFromTree ==
  ASSUME LoadStep, phase = "tree"
  PROVE  phase' # "loaded" /\ (phase' = "load" => TreeEnd)
<1>1. \/ TreeEnd \/ TreeUnclosed \/ TreeClose \/ TreeUnopened \/ TreeOpen
      \/ TreeDef \/ TreeBadDef \/ TreeLostDef \/ TreeOther
  <2>1. ~ InLoad /\ ~ Word /\ phase # "load"
    BY DEF InLoad, Word
  <2>2. ~ \/ LoadEnd \/ LoadUnclosed \/ LoadClose \/ LoadMisplacedClose \/ LoadOpen
          \/ LoadBlockValue \/ LoadForeignBlock \/ LoadVars \/ LoadOpenList
    BY <2>1, Zenon DEF LoadEnd, LoadUnclosed, LoadClose, LoadMisplacedClose, LoadOpen,
                       LoadBlockValue, LoadForeignBlock, LoadVars, LoadOpenList
  <2>3. ~ \/ LoadDef \/ LoadForeignDef \/ LoadApply \/ LoadVar \/ LoadCallee \/ LoadCallInst
          \/ LoadOpr \/ LoadImm \/ LoadUnknown
    BY <2>1, Zenon DEF LoadDef, LoadForeignDef, LoadApply, LoadVar, LoadCallee, LoadCallInst,
                       LoadOpr, LoadImm, LoadUnknown
  <2> QED
    BY <2>2, <2>3, Zenon DEF LoadStep
<1>2. ASSUME NEW e, Reject(e) PROVE phase' \notin {"load", "loaded"}
  BY <1>2 DEF Reject
<1>3. ASSUME NEW k, MoveTo(k) PROVE phase' = "tree"
  BY <1>3 DEF MoveTo
<1>4. TreeEnd => phase' = "load"
  BY Zenon DEF TreeEnd
<1>5. TreeUnclosed \/ TreeUnopened \/ TreeBadDef => phase' \notin {"load", "loaded"}
  BY <1>2, Zenon DEF TreeUnclosed, TreeUnopened, TreeBadDef
<1>6. TreeLostDef => phase' = "noToken"
  BY Zenon DEF TreeLostDef, Crash
<1>7. TreeClose \/ TreeOpen \/ TreeDef \/ TreeOther => phase' = "tree"
  BY <1>3, Zenon DEF TreeClose, TreeOpen, TreeDef, TreeOther, OpenBlock
<1> QED
  BY <1>1, <1>4, <1>5, <1>6, <1>7

(* So a source that begins with a block is never compiled. *)
LEMMA StepBraceFirst ==
  ASSUME LoaderInv, BraceFirst, LoadStep
  PROVE  BraceFirst'
<1>1. toks' = toks
  BY StepKeepsText
<1>2. CASE phase = "load"
  BY <1>1, <1>2, NothingAfterBrace DEF BraceFirst
<1>3. CASE phase # "load"
  <2>1. phase = "tree"
    BY <1>3, StepLoads DEF Loading
  <2>2. CASE phase' = "load"
    <3>1. TreeEnd
      BY <2>1, <2>2, StepsFromTree
    <3>2. p' = 1
      BY <3>1, Zenon DEF TreeEnd
    <3> QED
      BY <2>2, <3>2 DEF BraceFirst
  <2>3. CASE phase' # "load"
    BY <2>1, <2>3, StepsFromTree DEF BraceFirst
  <2> QED
    BY <2>2, <2>3
<1> QED
  BY <1>2, <1>3

(* A step of a program keeps it too. *)
LEMMA ProgramBraceFirst ==
  ASSUME ProgramInv, BraceFirst, [ProgramNext]_programVars
  PROVE  BraceFirst'
<1>1. CASE Load
  <2>1. LoadStep
    BY <1>1 DEF Load
  <2>2. phase # "executed"
    BY <2>1, StepLoads DEF Loading
  <2> QED
    BY <2>1, <2>2, StepBraceFirst DEF ProgramInv
<1>2. CASE RunRoot
  BY <1>2 DEF RunRoot, BraceFirst
<1>3. CASE Execute \/ Finish \/ UNCHANGED programVars
  <2>1. UNCHANGED manaVars
    BY <1>3 DEF Execute, Finish, programVars
  <2> QED
    BY <2>1 DEF manaVars, loadVars, BraceFirst
<1> QED
  BY <1>1, <1>2, <1>3 DEF ProgramNext

(* A step of a program. *)
LEMMA ProgramFaith ==
  ASSUME ProgramInv, FaithInv, [ProgramNext]_programVars
  PROVE  FaithInv'
<1>1. CASE Load
  <2>1. LoadStep
    BY <1>1 DEF Load
  <2>2. phase # "executed"
    BY <2>1, StepLoads DEF Loading
  <2> QED
    BY <2>1, <2>2, StepFaith DEF ProgramInv
<1>2. CASE RunRoot
  BY <1>2, FaithStops DEF RunRoot
<1>3. CASE Execute \/ Finish \/ UNCHANGED programVars
  <2>1. UNCHANGED manaVars
    BY <1>3 DEF Execute, Finish, programVars
  <2> QED
    BY <2>1, SameFaith DEF manaVars, loadVars, blockVars
<1> QED
  BY <1>1, <1>2, <1>3 DEF ProgramNext

-------------------------------------------------------------------------------
(***************************************************************************)
(* A source that compiles is compiled faithfully, whatever the order in    *)
(* which its names made the loader visit the blocks: each block that was   *)
(* loaded has one instruction for each of its own words, in their order,   *)
(* and each says what the word means in the text (SR_manaLoadBlock).       *)
(***************************************************************************)
THEOREM SourcesFaithful == ProgramSpec => []Faithful
<1>1. ProgramInit => FaithInv /\ BraceFirst
  BY DEF ProgramInit, LoadInit, FaithInv, BraceFirst
<1>2. ProgramInv /\ FaithInv /\ BraceFirst /\ [ProgramNext]_programVars
        => (FaithInv /\ BraceFirst)'
  BY ProgramFaith, ProgramBraceFirst
<1>3. ProgramInv /\ FaithInv /\ BraceFirst => Faithful
  <2>1. CASE phase = "loaded"
    BY <2>1, FaithInvFaithful DEF ProgramInv
  <2>2. CASE phase # "loaded"
    BY <2>2 DEF Faithful
  <2> QED
    BY <2>1, <2>2
<1> QED
  BY <1>1, <1>2, <1>3, ProgramInvariance, PTL DEF ProgramSpec

(* The same of the compiler alone, in a context that holds other blocks. *)
THEOREM CompilesFaithfully == LoadSpec => []Faithful
<1> DEFINE AllInv == NamesInv /\ FaithInv /\ BraceFirst
<1>1. LoadInit => AllInv
  BY BeginsNamed DEF LoadInit, FaithInv, BraceFirst
<1>2. LoaderInv /\ AllInv /\ [LoadStep]_manaVars => AllInv'
  <2>1. ASSUME LoaderInv, AllInv, LoadStep PROVE AllInv'
    BY <2>1, StepNames, StepFaith, StepBraceFirst
  <2>2. ASSUME LoaderInv, AllInv, UNCHANGED manaVars PROVE AllInv'
    <3>1. NamesInv' /\ FaithInv'
      BY <2>2, SameNames, SameFaith DEF manaVars, loadVars, blockVars
    <3>2. BraceFirst'
      BY <2>2 DEF manaVars, loadVars, BraceFirst
    <3> QED
      BY <3>1, <3>2
  <2> QED
    BY <2>1, <2>2
<1>3. LoaderInv /\ AllInv => Faithful
  BY FaithInvFaithful
<1> QED
  BY <1>1, <1>2, <1>3, LoaderInvariance, PTL DEF LoadSpec
===============================================================================
