------------------------- MODULE SorcerVMMeaning_proofs -------------------------
(***************************************************************************)
(* Proof that SR_run on a linked image does what the blocks of the program *)
(* say: every step of SorcerVM is a step of SorcerSemantics, for every set *)
(* of images with their tail calls eliminated, every operator table and    *)
(* every bound, as long as no context is run again after a failed run.     *)
(***************************************************************************)
EXTENDS SorcerVMMeaning, SorcerVM_proofs

-------------------------------------------------------------------------------
(* Facts about an image and what it stands for: addresses against blocks and *)
(* places in them, a block against its source, cells against what they mean. *)
(* Nothing in this part speaks of a state of the machine.                    *)

-------------------------------------------------------------------------------
(* Addresses. *)

(* Address a lies in a block of image c.                                     *)
InBlock(c, a) == \E e \in Entries(c) : e <= a /\ Straight(c, e, a)

(* An entry is a positive address.                                           *)
LEMMA EntryIsAddress ==
  ASSUME NEW c \in Seq(Instruction), NEW e \in Entries(c)
  PROVE  e \in 1..Len(c) /\ e \in Nat /\ e >= 1 /\ (e = 1 \/ c[e - 1].op = "Ret")
  BY DEF Entries

(* The blocks before an address can be counted.                              *)
LEMMA EndsFinite ==
  ASSUME NEW c, NEW a \in Nat
  PROVE  /\ IsFiniteSet(EndsBefore(c, a)) /\ Cardinality(EndsBefore(c, a)) \in Nat
         /\ BlockAt(c, a) \in Nat \ {0}
<1>1. IsFiniteSet(1..(a - 1))
  BY FS_Interval
<1>2. IsFiniteSet(EndsBefore(c, a))
  BY <1>1, FS_Subset DEF EndsBefore
<1>3. Cardinality(EndsBefore(c, a)) \in Nat
  BY <1>2, FS_CardinalityType
<1> QED
  BY <1>2, <1>3 DEF BlockAt

(* An address lies in the block of the entry control comes from, as far into *)
(* it as it is away.                                                         *)
LEMMA AwayFromEntry ==
  ASSUME NEW c \in Seq(Instruction), NEW e \in Entries(c), NEW a \in Nat,
         e <= a, Straight(c, e, a)
  PROVE  BlockAt(c, a) = BlockAt(c, e) /\ PlaceAt(c, a) = a - e + 1
<1>1. e \in Nat /\ e >= 1 /\ (e = 1 \/ c[e - 1].op = "Ret")
  BY EntryIsAddress
<1>2. EndsBefore(c, a) = EndsBefore(c, e)
  BY <1>1 DEF EndsBefore, Straight
<1>3. { k \in 1..a : Straight(c, k, a) } = e..a
  <2>1. ASSUME NEW k \in 1..a, Straight(c, k, a)
        PROVE  k \in e..a
    BY <1>1, <2>1 DEF Straight
  <2>2. ASSUME NEW k \in e..a
        PROVE  k \in 1..a /\ Straight(c, k, a)
    BY <1>1 DEF Straight
  <2> QED
    BY <2>1, <2>2
<1>4. Cardinality(e..a) = a - e + 1
  BY <1>1, FS_Interval
<1> QED
  BY <1>2, <1>3, <1>4 DEF BlockAt, PlaceAt

(* Each entry starts a block of its own.                                     *)
LEMMA EntriesDiffer ==
  ASSUME NEW c \in Seq(Instruction), NEW d \in Entries(c), NEW e \in Entries(c),
         BlockAt(c, d) = BlockAt(c, e)
  PROVE  d = e
<1>1. ASSUME NEW x \in Entries(c), NEW y \in Entries(c), x < y
      PROVE  BlockAt(c, x) # BlockAt(c, y)
  <2>1. /\ x \in Nat /\ y \in Nat /\ x >= 1 /\ y >= 1
        /\ c[y - 1].op = "Ret"
    BY <1>1, EntryIsAddress
  <2>2. EndsBefore(c, x) \subseteq EndsBefore(c, y)
    BY <1>1, <2>1 DEF EndsBefore
  <2>3. y - 1 \in EndsBefore(c, y) /\ y - 1 \notin EndsBefore(c, x)
    BY <1>1, <2>1 DEF EndsBefore
  <2>4. IsFiniteSet(EndsBefore(c, y)) /\ Cardinality(EndsBefore(c, y)) \in Nat
        /\ Cardinality(EndsBefore(c, x)) \in Nat
    BY <2>1, EndsFinite
  <2>5. EndsBefore(c, x) # EndsBefore(c, y)
    BY <2>3
  <2>6. Cardinality(EndsBefore(c, x)) < Cardinality(EndsBefore(c, y))
    BY <2>2, <2>4, <2>5, FS_Subset
  <2> QED
    BY <2>4, <2>6 DEF BlockAt
<1>2. d \in Nat /\ e \in Nat
  BY EntryIsAddress
<1> QED
  BY <1>1, <1>2

(* The blocks of the source are those the entries start.                     *)
LEMMA BlockOfEntry ==
  ASSUME NEW c \in Seq(Instruction), NEW e \in Entries(c)
  PROVE  /\ BlockAt(c, e) \in DOMAIN SourceBlocks(c)
         /\ SourceBlocks(c)[BlockAt(c, e)] = SourceBlock(c, e)
<1>1. e \in Nat /\ e <= Len(c) /\ Len(c) \in Nat
  BY EntryIsAddress
<1>2. BlockAt(c, e) \in 1..BlockAt(c, Len(c))
  <2>1. EndsBefore(c, e) \subseteq EndsBefore(c, Len(c))
    BY <1>1 DEF EndsBefore
  <2>2. /\ IsFiniteSet(EndsBefore(c, Len(c)))
        /\ Cardinality(EndsBefore(c, Len(c))) \in Nat
        /\ Cardinality(EndsBefore(c, e)) \in Nat
    BY <1>1, EndsFinite
  <2>3. Cardinality(EndsBefore(c, e)) <= Cardinality(EndsBefore(c, Len(c)))
    BY <2>1, <2>2, FS_Subset
  <2> QED
    BY <2>2, <2>3 DEF BlockAt
<1>3. EntryOf(c, BlockAt(c, e)) = e
  <2>1. /\ EntryOf(c, BlockAt(c, e)) \in Entries(c)
        /\ BlockAt(c, EntryOf(c, BlockAt(c, e))) = BlockAt(c, e)
    BY DEF EntryOf
  <2> QED
    BY <2>1, EntriesDiffer
<1> QED
  BY <1>2, <1>3 DEF SourceBlocks

(* The block of the source that starts at e has an instruction for every     *)
(* address before its Ret.                                                   *)
LEMMA BodyReaches ==
  ASSUME NEW c \in Seq(Instruction), NEW e \in Entries(c), NEW a \in e..Len(c),
         Straight(c, e, a)
  PROVE  /\ Cardinality(Body(c, e)) \in Nat
         /\ c[a].op = "Ret" => Cardinality(Body(c, e)) = a - e
         /\ c[a].op # "Ret" => Cardinality(Body(c, e)) >= a - e + 1
<1>1. e \in Nat /\ e >= 1 /\ a \in Nat /\ e <= a /\ a <= Len(c) /\ Len(c) \in Nat
  BY EntryIsAddress
<1>2. IsFiniteSet(Body(c, e)) /\ Cardinality(Body(c, e)) \in Nat
  <2>1. IsFiniteSet(e..Len(c))
    BY <1>1, FS_Interval
  <2>2. IsFiniteSet(Body(c, e))
    BY <2>1, FS_Subset DEF Body
  <2> QED
    BY <2>2, FS_CardinalityType
<1>3. CASE c[a].op = "Ret"
  <2>1. Body(c, e) = e..(a - 1)
    <3>1. ASSUME NEW k \in Body(c, e)
          PROVE  k \in e..(a - 1)
      BY <1>1, <1>3 DEF Body, Straight
    <3>2. ASSUME NEW k \in e..(a - 1)
          PROVE  k \in Body(c, e)
      BY <1>1 DEF Body, Straight
    <3> QED
      BY <3>1, <3>2
  <2>2. Cardinality(e..(a - 1)) = a - e
    <3>1. CASE e = a
      <4>1. e..(a - 1) = {}
        BY <1>1, <3>1
      <4> QED
        BY <1>1, <3>1, <4>1, FS_EmptySet
    <3>2. CASE e < a
      <4> DEFINE n == a - 1
      <4>1. n \in Nat /\ e <= n /\ n - e + 1 = a - e
        BY <1>1, <3>2
      <4> HIDE DEF n
      <4>2. Cardinality(e..n) = n - e + 1
        BY <1>1, <4>1, FS_Interval
      <4> QED
        BY <4>1, <4>2 DEF n
    <3> QED
      BY <1>1, <3>1, <3>2
  <2> QED
    BY <1>2, <1>3, <2>1, <2>2
<1>4. CASE c[a].op # "Ret"
  <2>1. e..a \subseteq Body(c, e)
    BY <1>1, <1>4 DEF Body, Straight
  <2>2. Cardinality(e..a) = a - e + 1
    BY <1>1, FS_Interval
  <2>3. Cardinality(e..a) <= Cardinality(Body(c, e))
    BY <1>2, <2>1, FS_Subset
  <2> QED
    BY <1>1, <1>2, <1>4, <2>2, <2>3
<1> QED
  BY <1>3, <1>4

(* An entry is the first place of its block.                                 *)
LEMMA PlacedEntry ==
  ASSUME NEW c \in Seq(Instruction), NEW e \in Entries(c)
  PROVE  InBlock(c, e) /\ PlaceAt(c, e) = 1
<1>1. e \in Nat
  BY EntryIsAddress
<1>2. e <= e /\ Straight(c, e, e)
  BY <1>1 DEF Straight
<1>3. PlaceAt(c, e) = e - e + 1
  BY <1>1, <1>2, AwayFromEntry
<1> QED
  BY <1>1, <1>2, <1>3 DEF InBlock

(* What an address of an image stands for: an instruction of its block's     *)
(* source, or the end of the block.                                          *)
LEMMA Placed ==
  ASSUME NEW c \in Seq(Instruction), NEW a \in 1..Len(c), InBlock(c, a), c[Len(c)].op = "Ret"
  PROVE  LET b == BlockAt(c, a)
             k == PlaceAt(c, a)
             s == SourceBlocks(c)[b]
         IN  /\ b \in DOMAIN SourceBlocks(c) /\ b \in Nat \ {0}
             /\ k \in Nat \ {0} /\ Len(s) \in Nat
             /\ c[a].op = "Ret" => k = Len(s) + 1
             /\ c[a].op # "Ret" =>
                  /\ k <= Len(s) /\ s[k] = SourceInst(c, c[a])
                  /\ k = Len(s) <=> c[a + 1].op = "Ret"
                  /\ InBlock(c, a + 1)
                  /\ BlockAt(c, a + 1) = b /\ PlaceAt(c, a + 1) = k + 1
<1>1. PICK e \in Entries(c) : e <= a /\ Straight(c, e, a)
  BY DEF InBlock
<1>2. e \in Nat /\ e >= 1 /\ a \in Nat /\ a <= Len(c) /\ Len(c) \in Nat
  BY EntryIsAddress
<1>3. BlockAt(c, a) = BlockAt(c, e) /\ PlaceAt(c, a) = a - e + 1
  BY <1>1, <1>2, AwayFromEntry
<1> DEFINE s == SourceBlock(c, e)
           n == Cardinality(Body(c, e))
<1>4. /\ BlockAt(c, e) \in DOMAIN SourceBlocks(c) /\ BlockAt(c, e) \in Nat \ {0}
      /\ SourceBlocks(c)[BlockAt(c, e)] = s
  BY <1>2, BlockOfEntry, EndsFinite
<1>5. /\ n \in Nat
      /\ c[a].op = "Ret" => n = a - e
      /\ c[a].op # "Ret" => n >= a - e + 1
  BY <1>1, <1>2, BodyReaches
<1>6. Len(s) = n /\ \A i \in 1..n : s[i] = SourceInst(c, c[e + i - 1])
  BY <1>5 DEF SourceBlock
<1> HIDE DEF s, n
<1>7. CASE c[a].op = "Ret"
  BY <1>2, <1>3, <1>4, <1>5, <1>6, <1>1, <1>7
<1>8. CASE c[a].op # "Ret"
  <2>1. a + 1 \in e..Len(c) /\ a + 1 \in Nat
    BY <1>1, <1>2, <1>8
  <2>2. Straight(c, e, a + 1)
    BY <1>1, <1>2, <1>8 DEF Straight
  <2>3. BlockAt(c, a + 1) = BlockAt(c, e) /\ PlaceAt(c, a + 1) = a + 1 - e + 1
    BY <1>1, <1>2, <2>1, <2>2, AwayFromEntry
  <2>4. /\ c[a + 1].op = "Ret" => n = a + 1 - e
        /\ c[a + 1].op # "Ret" => n >= a + 1 - e + 1
    <3> DEFINE d == a + 1
    <3>1. d \in e..Len(c) /\ Straight(c, e, d)
      BY <2>1, <2>2
    <3>3. n = Cardinality(Body(c, e)) /\ d = a + 1
      BY DEF n
    <3> HIDE DEF d
    <3>2. /\ c[d].op = "Ret" => Cardinality(Body(c, e)) = d - e
          /\ c[d].op # "Ret" => Cardinality(Body(c, e)) >= d - e + 1
      BY <3>1, BodyReaches
    <3> QED
      BY <1>2, <1>5, <2>1, <3>1, <3>2, <3>3
  <2>5. InBlock(c, a + 1)
    BY <1>1, <1>2, <2>2 DEF InBlock
  <2>6. a - e + 1 \in 1..n /\ e + (a - e + 1) - 1 = a
    BY <1>1, <1>2, <1>5, <1>8
  <2>7. s[a - e + 1] = SourceInst(c, c[a])
    BY <1>6, <2>6
  <2>8. a - e + 1 = n <=> c[a + 1].op = "Ret"
    BY <1>2, <1>5, <2>4
  <2> QED
    BY <1>2, <1>3, <1>4, <1>5, <1>6, <1>8, <2>3, <2>5, <2>6, <2>7, <2>8
<1> QED
  BY <1>7, <1>8

-------------------------------------------------------------------------------
(* Cells and what they mean. *)

(* A cell keeps its type, and a number is what it means.                     *)
LEMMA MeaningIs ==
  ASSUME NEW c, NEW x \in Cell
  PROVE  /\ Meaning(c, x) \in Cell /\ Meaning(c, x).type = x.type
         /\ x.type = NUM => Meaning(c, x) = x
         /\ x.type = BLOCK => Meaning(c, x) = Blk(BlockAt(c, x.val))
<1>1. x.type \in {BLOCK, NUM} /\ x.val \in Nat /\ BLOCK # NUM
  BY DEF Cell, BLOCK, NUM
<1>2. BlockAt(c, x.val) \in Nat
  BY <1>1, EndsFinite
<1>3. CASE x.type = BLOCK
  <2>1. Meaning(c, x) = Blk(BlockAt(c, x.val))
    BY <1>3 DEF Meaning
  <2>2. Blk(BlockAt(c, x.val)) \in Cell /\ Blk(BlockAt(c, x.val)).type = BLOCK
    BY <1>2 DEF Blk, Cell
  <2> QED
    BY <1>1, <1>3, <2>1, <2>2
<1>4. CASE x.type = NUM
  <2>1. Meaning(c, x) = x
    BY <1>1, <1>4 DEF Meaning
  <2> QED
    BY <1>1, <1>4, <2>1
<1> QED
  BY <1>1, <1>3, <1>4

(* The meanings of a sequence, one by one.                                   *)
LEMMA MeaningsAt ==
  ASSUME NEW c, NEW s \in Seq(Cell)
  PROVE  /\ Meanings(c, s) \in Seq(Cell) /\ Len(Meanings(c, s)) = Len(s)
         /\ \A i \in 1..Len(s) :
              Meanings(c, s)[i] = Meaning(c, s[i]) /\ s[i] \in Cell
<1>1. Len(s) \in Nat /\ \A i \in 1..Len(s) : s[i] \in Cell
  BY ElementOfSeq
<1>2. \A i \in 1..Len(s) : Meaning(c, s[i]) \in Cell
  BY <1>1, MeaningIs
<1>3. Meanings(c, s) = [i \in 1..Len(s) |-> Meaning(c, s[i])]
  BY DEF Meanings
<1> QED
  BY <1>1, <1>2, <1>3

(* A cell on top of a sequence.                                              *)
LEMMA MeaningsAppend ==
  ASSUME NEW c, NEW s \in Seq(Cell), NEW x \in Cell
  PROVE  Meanings(c, Append(s, x)) = Append(Meanings(c, s), Meaning(c, x))
<1> DEFINE t == Append(s, x)
           m == Meanings(c, s)
           y == Meaning(c, x)
<1>1. /\ t \in Seq(Cell) /\ Len(t) = Len(s) + 1 /\ Len(s) \in Nat
      /\ \A i \in 1..Len(s) : t[i] = s[i]
      /\ t[Len(s) + 1] = x
  BY AppendProperties
<1>2. y \in Cell
  BY MeaningIs
<1>3. /\ m \in Seq(Cell) /\ Len(m) = Len(s)
      /\ \A i \in 1..Len(s) : m[i] = Meaning(c, s[i])
  BY MeaningsAt
<1>4. y = Meaning(c, x)
  OBVIOUS
<1>5. t = Append(s, x) /\ m = Meanings(c, s)
  OBVIOUS
<1> HIDE DEF t, m, y
<1>6. /\ Append(m, y) \in Seq(Cell) /\ Len(Append(m, y)) = Len(m) + 1
      /\ \A i \in 1..Len(m) : Append(m, y)[i] = m[i]
      /\ Append(m, y)[Len(m) + 1] = y
  BY <1>2, <1>3, AppendProperties
<1>7. /\ Meanings(c, t) \in Seq(Cell) /\ Len(Meanings(c, t)) = Len(t)
      /\ \A i \in 1..Len(t) : Meanings(c, t)[i] = Meaning(c, t[i])
  BY <1>1, MeaningsAt
<1>8. ASSUME NEW i \in 1..(Len(s) + 1)
      PROVE  Meanings(c, t)[i] = Append(m, y)[i]
  <2>1. CASE i \in 1..Len(s)
    BY <1>1, <1>3, <1>6, <1>7, <2>1
  <2>2. CASE i = Len(s) + 1
    BY <1>1, <1>3, <1>4, <1>6, <1>7, <2>2
  <2>3. i \in 1..Len(s) \/ i = Len(s) + 1
    BY <1>1
  <2> QED
    BY <2>1, <2>2, <2>3
<1>9. Meanings(c, t) = Append(m, y)
  BY <1>1, <1>3, <1>6, <1>7, <1>8, SeqEqual
<1> QED
  BY <1>9, <1>4, <1>5

(* A stretch of a sequence.                                                  *)
LEMMA MeaningsCut ==
  ASSUME NEW c, NEW s \in Seq(Cell), NEW m \in Nat, NEW n \in Nat, m >= 1, n <= Len(s)
  PROVE  Meanings(c, SubSeq(s, m, n)) = SubSeq(Meanings(c, s), m, n)
<1> DEFINE t == SubSeq(s, m, n)
           z == Meanings(c, s)
<1>1. /\ z \in Seq(Cell) /\ Len(z) = Len(s) /\ Len(s) \in Nat
      /\ \A i \in 1..Len(s) : z[i] = Meaning(c, s[i]) /\ s[i] \in Cell /\ z[i] \in Cell
  BY MeaningsAt, MeaningIs
<1> HIDE DEF z
<1>2. /\ t \in Seq(Cell) /\ Len(t) = IF m <= n THEN n - m + 1 ELSE 0
      /\ \A i \in 1..(n - m + 1) : t[i] = s[m + i - 1]
  BY <1>1, SubSeqProperties
<1>3. /\ SubSeq(z, m, n) \in Seq(Cell)
      /\ Len(SubSeq(z, m, n)) = IF m <= n THEN n - m + 1 ELSE 0
      /\ \A i \in 1..(n - m + 1) : SubSeq(z, m, n)[i] = z[m + i - 1]
  BY <1>1, SubSeqProperties
<1> HIDE DEF t
<1>4. /\ Meanings(c, t) \in Seq(Cell) /\ Len(Meanings(c, t)) = Len(t)
      /\ \A i \in 1..Len(t) : Meanings(c, t)[i] = Meaning(c, t[i])
  BY <1>2, MeaningsAt
<1>5. ASSUME NEW i \in 1..Len(t)
      PROVE  Meanings(c, t)[i] = SubSeq(z, m, n)[i]
  <2>1. i \in 1..(n - m + 1) /\ m + i - 1 \in 1..Len(s)
    BY <1>1, <1>2
  <2> QED
    BY <1>1, <1>2, <1>3, <1>4, <2>1
<1>6. Meanings(c, t) = SubSeq(z, m, n)
  BY <1>2, <1>3, <1>4, <1>5, SeqEqual
<1> QED
  BY <1>2, <1>6 DEF t, z

(* The top of a stack, and what is below it.                                 *)
LEMMA MeaningsFront ==
  ASSUME NEW c, NEW s \in Seq(Cell), s # << >>
  PROVE  /\ Meanings(c, s) # << >>
         /\ Meanings(c, Front(s)) = Front(Meanings(c, s))
         /\ Last(Meanings(c, s)) = Meaning(c, Last(s)) /\ Last(s) \in Cell
<1>1. Len(s) \in Nat \ {0} /\ Last(s) = s[Len(s)] /\ Last(s) \in Cell
  BY FrontLast
<1>2. /\ Meanings(c, s) \in Seq(Cell) /\ Len(Meanings(c, s)) = Len(s)
      /\ \A i \in 1..Len(s) : Meanings(c, s)[i] = Meaning(c, s[i])
  BY MeaningsAt
<1>3. Meanings(c, s) # << >>
  BY <1>1, <1>2
<1>4. Last(Meanings(c, s)) = Meaning(c, Last(s))
  BY <1>1, <1>2, <1>3 DEF Last
<1>5. Meanings(c, Front(s)) = Front(Meanings(c, s))
  <2> DEFINE n == Len(s) - 1
             k == 1
  <2>1. n \in Nat /\ n <= Len(s) /\ k \in Nat /\ k >= 1
    BY <1>1
  <2>2. Front(s) = SubSeq(s, k, n)
    BY DEF Front
  <2>3. Front(Meanings(c, s)) = SubSeq(Meanings(c, s), k, n)
    BY <1>2 DEF Front
  <2> HIDE DEF n, k
  <2>4. Meanings(c, SubSeq(s, k, n)) = SubSeq(Meanings(c, s), k, n)
    BY <2>1, MeaningsCut
  <2> QED
    BY <2>2, <2>3, <2>4
<1> QED
  BY <1>1, <1>3, <1>4, <1>5

(* What a sequence owns, its meanings own.                                   *)
LEMMA MeaningsOwn ==
  ASSUME NEW c, NEW s \in Seq(Cell)
  PROVE  Owned(Meanings(c, s)) = Owned(s)
<1>1. /\ Meanings(c, s) \in Seq(Cell) /\ Len(Meanings(c, s)) = Len(s)
      /\ \A i \in 1..Len(s) : Meanings(c, s)[i] = Meaning(c, s[i]) /\ s[i] \in Cell
  BY MeaningsAt
<1>2. \A i \in 1..Len(s) :
        /\ Meanings(c, s)[i].type = s[i].type
        /\ s[i].type = NUM => Meanings(c, s)[i].val = s[i].val
  BY <1>1, MeaningIs
<1>3. \A h : h \in Owned(s) <=> \E i \in 1..Len(s) : s[i].type = NUM /\ s[i].val = h
  BY OwnedAt
<1>4. \A h : h \in Owned(Meanings(c, s))
               <=> \E i \in 1..Len(s) : /\ Meanings(c, s)[i].type = NUM
                                        /\ Meanings(c, s)[i].val = h
  BY <1>1, OwnedAt
<1>5. ASSUME NEW h, h \in Owned(s)
      PROVE  h \in Owned(Meanings(c, s))
  <2>1. PICK i \in 1..Len(s) : s[i].type = NUM /\ s[i].val = h
    BY <1>3, <1>5
  <2>2. Meanings(c, s)[i].type = NUM /\ Meanings(c, s)[i].val = h
    BY <1>2, <2>1
  <2> QED
    BY <1>4, <2>2
<1>6. ASSUME NEW h, h \in Owned(Meanings(c, s))
      PROVE  h \in Owned(s)
  <2>1. PICK i \in 1..Len(s) : /\ Meanings(c, s)[i].type = NUM
                               /\ Meanings(c, s)[i].val = h
    BY <1>4, <1>6
  <2>2. s[i].type = NUM /\ s[i].val = h
    BY <1>2, <2>1
  <2> QED
    BY <1>3, <2>2
<1> QED
  BY <1>5, <1>6

-------------------------------------------------------------------------------
(* The variables of an activation in the table. *)

(* They depend on nothing after them.                                        *)
LEMMA SameVars ==
  ASSUME NEW v \in Seq(Cell), NEW w \in Seq(Cell), NEW from \in Nat, NEW to \in Nat,
         to <= Len(v), to <= Len(w), \A i \in 1..to : v[i] = w[i]
  PROVE  SubSeq(v, from + 1, to) = SubSeq(w, from + 1, to)
<1> DEFINE m == from + 1
<1>1. m \in Nat /\ m >= 1
  OBVIOUS
<1> HIDE DEF m
<1>2. /\ Len(v) \in Nat /\ Len(w) \in Nat
      /\ \A i \in m..to : v[i] \in Cell /\ w[i] \in Cell
  BY <1>1, ElementOfSeq
<1>3. /\ SubSeq(v, m, to) \in Seq(Cell)
      /\ Len(SubSeq(v, m, to)) = IF m <= to THEN to - m + 1 ELSE 0
      /\ \A i \in 1..(to - m + 1) : SubSeq(v, m, to)[i] = v[m + i - 1]
  BY <1>1, <1>2, SubSeqProperties
<1>4. /\ SubSeq(w, m, to) \in Seq(Cell)
      /\ Len(SubSeq(w, m, to)) = IF m <= to THEN to - m + 1 ELSE 0
      /\ \A i \in 1..(to - m + 1) : SubSeq(w, m, to)[i] = w[m + i - 1]
  BY <1>1, <1>2, SubSeqProperties
<1>5. \A i \in 1..Len(SubSeq(v, m, to)) : m + i - 1 \in 1..to /\ i \in 1..(to - m + 1)
  BY <1>1, <1>3
<1>6. SubSeq(v, m, to) = SubSeq(w, m, to)
  BY <1>1, <1>3, <1>4, <1>5, SeqEqual
<1> QED
  BY <1>6 DEF m

(* The one that runs gets the variable that is bound.                        *)
LEMMA VarBound ==
  ASSUME NEW v \in Seq(Cell), NEW x \in Cell, NEW from \in Nat, from <= Len(v)
  PROVE  SubSeq(Append(v, x), from + 1, Len(v) + 1)
           = Append(SubSeq(v, from + 1, Len(v)), x)
<1> DEFINE m == from + 1
           n == Len(v)
           w == Append(v, x)
           t == SubSeq(v, m, n)
<1>1. m \in Nat /\ m >= 1 /\ n \in Nat /\ m <= n + 1 /\ n = Len(v)
  OBVIOUS
<1>2. /\ w \in Seq(Cell) /\ Len(w) = n + 1
      /\ \A i \in 1..n : w[i] = v[i]
      /\ w[n + 1] = x
  BY AppendProperties
<1> HIDE DEF m, n, w
<1>3. /\ t \in Seq(Cell) /\ Len(t) = n - m + 1
      /\ \A i \in 1..(n - m + 1) : t[i] = v[m + i - 1]
  <2>1. \A i \in m..n : v[i] \in Cell
    BY <1>1, ElementOfSeq
  <2>2. /\ t \in Seq(Cell) /\ Len(t) = IF m <= n THEN n - m + 1 ELSE 0
        /\ \A i \in 1..(n - m + 1) : t[i] = v[m + i - 1]
    BY <1>1, <2>1, SubSeqProperties
  <2> QED
    BY <1>1, <2>2
<1>4. /\ SubSeq(w, m, n + 1) \in Seq(Cell) /\ Len(SubSeq(w, m, n + 1)) = n - m + 2
      /\ \A i \in 1..(n - m + 2) : SubSeq(w, m, n + 1)[i] = w[m + i - 1]
  <2> DEFINE k == n + 1
  <2>1. k \in Nat /\ k = Len(w) /\ k - m + 1 = n - m + 2 /\ m <= k
    BY <1>1, <1>2
  <2> HIDE DEF k
  <2>2. \A i \in m..k : w[i] \in Cell
    BY <1>1, <1>2, <2>1, ElementOfSeq
  <2>3. /\ SubSeq(w, m, k) \in Seq(Cell)
        /\ Len(SubSeq(w, m, k)) = IF m <= k THEN k - m + 1 ELSE 0
        /\ \A i \in 1..(k - m + 1) : SubSeq(w, m, k)[i] = w[m + i - 1]
    BY <1>1, <2>1, <2>2, SubSeqProperties
  <2>4. /\ SubSeq(w, m, k) \in Seq(Cell) /\ Len(SubSeq(w, m, k)) = n - m + 2
        /\ \A i \in 1..(n - m + 2) : SubSeq(w, m, k)[i] = w[m + i - 1]
    BY <2>1, <2>3
  <2> QED
    BY <2>4 DEF k
<1> HIDE DEF t
<1>5. /\ Append(t, x) \in Seq(Cell) /\ Len(Append(t, x)) = Len(t) + 1
      /\ \A i \in 1..Len(t) : Append(t, x)[i] = t[i]
      /\ Append(t, x)[Len(t) + 1] = x
  <2>1. t \in Seq(Cell)
    BY <1>3
  <2> QED
    BY <2>1, AppendProperties
<1>6. ASSUME NEW i \in 1..(n - m + 2)
      PROVE  SubSeq(w, m, n + 1)[i] = Append(t, x)[i]
  <2>1. CASE i \in 1..(n - m + 1)
    <3>1. m + i - 1 \in 1..n
      BY <1>1, <2>1
    <3> QED
      BY <1>1, <1>2, <1>3, <1>4, <1>5, <2>1, <3>1
  <2>2. CASE i = n - m + 2
    <3>1. m + i - 1 = n + 1 /\ i = Len(t) + 1
      BY <1>1, <1>3, <2>2
    <3> QED
      BY <1>2, <1>4, <1>5, <3>1
  <2>3. i \in 1..(n - m + 1) \/ i = n - m + 2
    BY <1>1
  <2> QED
    BY <2>1, <2>2, <2>3
<1>7. SubSeq(w, m, n + 1) = Append(t, x)
  BY <1>1, <1>3, <1>4, <1>5, <1>6, SeqEqual
<1> QED
  BY <1>7 DEF m, n, w, t

-------------------------------------------------------------------------------
(* The invariant, and the machine as SorcerSemantics sees it. *)

(* Every frame resumes inside a block. *)
Resumes(c, r) == \A k \in 1..Len(r) : InBlock(c, r[k].address)

(* The frames' variables start one after the other. *)
Nested(r) == \A j, k \in 1..Len(r) : j <= k => r[j].varBase <= r[k].varBase

MInv ==
  /\ IInv /\ OwnInv
  /\ mode = "running" => InBlock(code, p) /\ Resumes(code, rs) /\ Nested(rs)

(* What runs, as SorcerSemantics sees it. *)
Now == IF InRun THEN Running ELSE Nobody
Waiting == IF InRun THEN Suspended ELSE << >>

-------------------------------------------------------------------------------
(* What is being executed. *)

(* The running activation, and what is next in its block. *)
LEMMA Fetched ==
  ASSUME MInv, mode = "running"
  PROVE  LET b == BlockAt(code, p)
             k == PlaceAt(code, p)
             s == SourceBlocks(code)[b]
         IN  /\ InRun /\ Status = "running"
             /\ Now.block = b /\ Now.at = k
             /\ b \in DOMAIN SourceBlocks(code) /\ k \in Nat /\ Len(s) \in Nat
             /\ Semantics!Code = s
             /\ code[p].op = "Ret" => k = Len(s) + 1
             /\ code[p].op # "Ret" =>
                  /\ k <= Len(s) /\ s[k] = SourceInst(code, code[p])
                  /\ k = Len(s) <=> code[p + 1].op = "Ret"
                  /\ InBlock(code, p + 1)
                  /\ BlockAt(code, p + 1) = b /\ PlaceAt(code, p + 1) = k + 1
<1>1. /\ p \in 1..Len(code) /\ code \in Seq(Instruction) /\ InBlock(code, p)
      /\ code[Len(code)].op = "Ret"
  BY Current, ImagesAssumption DEF MInv, IInv, Machine, Linkage, LinkageFrom
<1>2. InRun /\ Status = "running"
  BY DEF InRun, Status, Faults
<1>3. Now.block = BlockAt(code, p) /\ Now.at = PlaceAt(code, p)
  BY <1>2 DEF Now, Running, ActivationAt
<1>4. Semantics!Code = SourceBlocks(code)[BlockAt(code, p)]
  BY <1>3 DEF Semantics!Code, Now
<1> QED
  BY <1>1, <1>2, <1>3, <1>4, Placed

(* An instruction other than Ret is executed as the one it was linked from. *)
LEMMA Executed ==
  ASSUME MInv, mode = "running", code[p].op # "Ret"
  PROVE  /\ \A op : SourceInst(code, code[p]).op = op => Semantics!Executing(op)
         /\ Semantics!Arg = SourceInst(code, code[p]).arg
<1> DEFINE k == PlaceAt(code, p)
<1>1. /\ Status = "running" /\ Now.at = k
      /\ k <= Len(Semantics!Code) /\ Semantics!Code[k] = SourceInst(code, code[p])
  BY Fetched
<1> HIDE DEF k
<1> QED
  BY <1>1 DEF Semantics!Executing, Semantics!Arg, Now

-------------------------------------------------------------------------------
(* The activations that wait. *)

Activations == [block : Nat, at : Nat, vars : Seq(Cell)]

(* The activations whose frames are r, with their variables in v. *)
WaitingIn(c, v, r) ==
  [k \in 1..Len(r) |-> ActivationAt(c, v, r[k].address, BaseOf(r, k - 1), r[k].varBase)]

(* They are the activations that wait, by another name.                      *)
LEMMA SuspendedIs ==
  Suspended = WaitingIn(code, vt, rs)
BY DEF Suspended, WaitingIn, Base, BaseOf

(* The variables of an activation are cells of the table.                    *)
LEMMA VarsCount ==
  ASSUME NEW v \in Seq(Cell), NEW from \in Nat, NEW to \in Nat, to <= Len(v)
  PROVE  /\ SubSeq(v, from + 1, to) \in Seq(Cell)
         /\ Len(SubSeq(v, from + 1, to)) = IF from <= to THEN to - from ELSE 0
         /\ \A i \in 1..(to - from) : SubSeq(v, from + 1, to)[i] = v[from + i]
<1> DEFINE m == from + 1
<1>1. m \in Nat /\ Len(v) \in Nat /\ to <= Len(v) /\ m >= 1
  OBVIOUS
<1>2. \A i \in m..to : v[i] \in Cell
  BY <1>1, ElementOfSeq
<1>3. /\ to - m + 1 = to - from /\ (m <= to <=> to - from >= 1)
      /\ \A i \in 1..(to - from) : m + i - 1 = from + i
  OBVIOUS
<1> HIDE DEF m
<1>4. /\ SubSeq(v, m, to) \in Seq(Cell)
      /\ Len(SubSeq(v, m, to)) = IF m <= to THEN to - m + 1 ELSE 0
      /\ \A i \in 1..(to - m + 1) : SubSeq(v, m, to)[i] = v[m + i - 1]
  BY <1>1, <1>2, SubSeqProperties
<1>5. /\ SubSeq(v, m, to) \in Seq(Cell)
      /\ Len(SubSeq(v, m, to)) = IF from <= to THEN to - from ELSE 0
      /\ \A i \in 1..(to - from) : SubSeq(v, m, to)[i] = v[from + i]
  BY <1>3, <1>4
<1> QED
  BY <1>5 DEF m

(* An activation is one.                                                     *)
LEMMA ActivationType ==
  ASSUME NEW c, NEW v \in Seq(Cell), NEW a \in Nat, NEW from \in Nat, NEW to \in Nat,
         to <= Len(v)
  PROVE  ActivationAt(c, v, a, from, to) \in Activations
<1>1. BlockAt(c, a) \in Nat
  BY EndsFinite
<1>2. PlaceAt(c, a) \in Nat
  <2>1. IsFiniteSet(1..a)
    BY FS_Interval
  <2>2. IsFiniteSet({ k \in 1..a : Straight(c, k, a) })
    BY <2>1, FS_Subset
  <2> QED
    BY <2>2, FS_CardinalityType DEF PlaceAt
<1>3. Meanings(c, SubSeq(v, from + 1, to)) \in Seq(Cell)
  BY VarsCount, MeaningsAt
<1> QED
  BY <1>1, <1>2, <1>3 DEF ActivationAt, Activations

(* The variables of no activation start after those of a later one.          *)
LEMMA FramesNested ==
  ASSUME NEW r \in Seq(Frame), Nested(r)
  PROVE  /\ Len(r) \in Nat
         /\ \A k \in 1..Len(r) :
              /\ r[k].address \in Nat /\ r[k].varBase \in Nat
              /\ BaseOf(r, k - 1) \in Nat
              /\ r[k].varBase <= BaseOf(r, Len(r))
<1>1. Len(r) \in Nat /\ \A k \in 1..Len(r) : r[k] \in Frame
  BY ElementOfSeq
<1>2. \A k \in 1..Len(r) : r[k].address \in Nat /\ r[k].varBase \in Nat
  BY <1>1 DEF Frame
<1>3. \A k \in 1..Len(r) : BaseOf(r, k - 1) \in Nat
  BY <1>1, <1>2 DEF BaseOf
<1>4. \A k \in 1..Len(r) : r[k].varBase <= BaseOf(r, Len(r))
  BY <1>1 DEF BaseOf, Nested
<1> QED
  BY <1>1, <1>2, <1>3, <1>4

(* So are those that wait, each of them.                                     *)
LEMMA WaitingType ==
  ASSUME NEW c, NEW v \in Seq(Cell), NEW r \in Seq(Frame), Nested(r),
         BaseOf(r, Len(r)) <= Len(v)
  PROVE  /\ WaitingIn(c, v, r) \in Seq(Activations)
         /\ Len(WaitingIn(c, v, r)) = Len(r)
         /\ \A k \in 1..Len(r) :
              WaitingIn(c, v, r)[k]
                = ActivationAt(c, v, r[k].address, BaseOf(r, k - 1), r[k].varBase)
<1>1. /\ Len(r) \in Nat
      /\ \A k \in 1..Len(r) :
           /\ r[k].address \in Nat /\ r[k].varBase \in Nat
           /\ BaseOf(r, k - 1) \in Nat
           /\ r[k].varBase <= BaseOf(r, Len(r))
  BY FramesNested
<1>2. \A k \in 1..Len(r) : r[k].varBase <= Len(v)
  <2>1. PICK z : z = BaseOf(r, Len(r))
    OBVIOUS
  <2>2. z \in Nat /\ Len(v) \in Nat /\ z <= Len(v)
    BY <2>1, BaseIsLast
  <2>3. \A k \in 1..Len(r) : r[k].varBase \in Nat /\ r[k].varBase <= z
    BY <1>1, <2>1, Zenon
  <2>4. \A y \in Nat : y <= z => y <= Len(v)
    BY <2>2
  <2> QED
    BY <2>3, <2>4, Zenon
<1>3. \A k \in 1..Len(r) :
        ActivationAt(c, v, r[k].address, BaseOf(r, k - 1), r[k].varBase) \in Activations
  BY <1>1, <1>2, ActivationType
<1> QED
  BY <1>1, <1>3 DEF WaitingIn

(* They depend on no variable after their own.                               *)
LEMMA WaitingSame ==
  ASSUME NEW c, NEW v \in Seq(Cell), NEW w \in Seq(Cell), NEW r \in Seq(Frame),
         Nested(r), BaseOf(r, Len(r)) <= Len(v), BaseOf(r, Len(r)) <= Len(w),
         \A i \in 1..BaseOf(r, Len(r)) : v[i] = w[i]
  PROVE  WaitingIn(c, v, r) = WaitingIn(c, w, r)
<1>1. BaseOf(r, Len(r)) \in Nat /\ Len(v) \in Nat /\ Len(w) \in Nat
  BY BaseIsLast
<1>2. /\ Len(r) \in Nat
      /\ \A k \in 1..Len(r) :
           /\ r[k].varBase \in Nat /\ BaseOf(r, k - 1) \in Nat
           /\ r[k].varBase <= BaseOf(r, Len(r))
  BY FramesNested
<1>3. ASSUME NEW k \in 1..Len(r)
      PROVE  SubSeq(v, BaseOf(r, k - 1) + 1, r[k].varBase)
               = SubSeq(w, BaseOf(r, k - 1) + 1, r[k].varBase)
  <2> DEFINE from == BaseOf(r, k - 1)
             to == r[k].varBase
             b == BaseOf(r, Len(r))
  <2>1. /\ from \in Nat /\ to \in Nat /\ to <= b /\ b \in Nat
        /\ b <= Len(v) /\ b <= Len(w)
        /\ \A i \in 1..b : v[i] = w[i]
    BY <1>1, <1>2
  <2> HIDE DEF from, to, b
  <2>2. to <= Len(v) /\ to <= Len(w) /\ \A i \in 1..to : v[i] = w[i]
    BY <1>1, <2>1
  <2>3. SubSeq(v, from + 1, to) = SubSeq(w, from + 1, to)
    BY <2>1, <2>2, SameVars
  <2> QED
    BY <2>3 DEF from, to
<1> QED
  BY <1>3 DEF WaitingIn, ActivationAt

(* A frame on top is one more that waits.                                    *)
LEMMA WaitingPushed ==
  ASSUME NEW c, NEW v \in Seq(Cell), NEW r \in Seq(Frame), Nested(r),
         NEW f \in Frame, BaseOf(r, Len(r)) <= f.varBase, f.varBase <= Len(v)
  PROVE  /\ Append(r, f) \in Seq(Frame) /\ Nested(Append(r, f))
         /\ WaitingIn(c, v, Append(r, f))
              = Append(WaitingIn(c, v, r),
                       ActivationAt(c, v, f.address, BaseOf(r, Len(r)), f.varBase))
<1> DEFINE q == Append(r, f)
           n == Len(r)
           x == ActivationAt(c, v, f.address, BaseOf(r, n), f.varBase)
<1>1. /\ n \in Nat /\ q \in Seq(Frame) /\ Len(q) = n + 1
      /\ \A k \in 1..n : q[k] = r[k]
      /\ q[n + 1] = f
  BY AppendProperties
<1>2. BaseOf(r, n) \in Nat /\ f.varBase \in Nat /\ f.address \in Nat /\ Len(v) \in Nat
  BY BaseIsLast DEF Frame
<1>3. BaseOf(r, n) <= Len(v)
  BY <1>2
<1>4. /\ (\A k \in 1..n : r[k].varBase \in Nat /\ r[k].varBase <= BaseOf(r, n))
      /\ WaitingIn(c, v, r) \in Seq(Activations) /\ Len(WaitingIn(c, v, r)) = n
      /\ \A k \in 1..n :
           WaitingIn(c, v, r)[k]
             = ActivationAt(c, v, r[k].address, BaseOf(r, k - 1), r[k].varBase)
  BY <1>3, WaitingType, FramesNested
<1> HIDE DEF q
<1>5. Nested(q)
  <2>1. ASSUME NEW j \in 1..(n + 1), NEW k \in 1..(n + 1), j <= k
        PROVE  q[j].varBase <= q[k].varBase
    <3>1. CASE k \in 1..n
      <4>1. j \in 1..n
        BY <2>1, <3>1
      <4> QED
        BY <1>1, <2>1, <3>1, <4>1 DEF Nested
    <3>2. CASE k = n + 1 /\ j \in 1..n
      <4>1. q[j] = r[j] /\ q[k] = f
        BY <1>1, <3>2
      <4>2. r[j].varBase \in Nat /\ r[j].varBase <= BaseOf(r, n)
        BY <1>4, <3>2
      <4>3. BaseOf(r, n) <= f.varBase
        OBVIOUS
      <4> QED
        BY <1>2, <4>1, <4>2, <4>3
    <3>3. CASE k = n + 1 /\ j = n + 1
      BY <1>1, <1>2, <3>3
    <3>4. k \in 1..n \/ (k = n + 1 /\ j \in 1..n) \/ (k = n + 1 /\ j = n + 1)
      BY <1>1, <2>1
    <3> QED
      BY <3>1, <3>2, <3>3, <3>4
  <2> QED
    BY <1>1, <2>1 DEF Nested
<1>6. /\ WaitingIn(c, v, q) \in Seq(Activations) /\ Len(WaitingIn(c, v, q)) = n + 1
      /\ \A k \in 1..(n + 1) :
           WaitingIn(c, v, q)[k]
             = ActivationAt(c, v, q[k].address, BaseOf(q, k - 1), q[k].varBase)
  <2>1. BaseOf(q, Len(q)) <= Len(v)
    BY <1>1, <1>2 DEF BaseOf
  <2>2. /\ WaitingIn(c, v, q) \in Seq(Activations) /\ Len(WaitingIn(c, v, q)) = Len(q)
        /\ \A k \in 1..Len(q) :
             WaitingIn(c, v, q)[k]
               = ActivationAt(c, v, q[k].address, BaseOf(q, k - 1), q[k].varBase)
    BY <1>1, <1>5, <2>1, WaitingType
  <2> QED
    BY <1>1, <2>2
<1>7. \A k \in 1..(n + 1) : BaseOf(q, k - 1) = BaseOf(r, k - 1)
  BY <1>1 DEF BaseOf
<1>8. x \in Activations
  BY <1>2, ActivationType
<1>9. /\ WaitingIn(c, v, q)[n + 1] = x
      /\ \A k \in 1..n : WaitingIn(c, v, q)[k] = WaitingIn(c, v, r)[k]
  <2>1. n + 1 \in 1..(n + 1) /\ n + 1 - 1 = n /\ \A k \in 1..n : k \in 1..(n + 1)
    BY <1>1
  <2>2. WaitingIn(c, v, q)[n + 1] = x
    BY <1>1, <1>6, <1>7, <2>1
  <2>3. \A k \in 1..n : WaitingIn(c, v, q)[k] = WaitingIn(c, v, r)[k]
    BY <1>1, <1>4, <1>6, <1>7, <2>1
  <2> QED
    BY <2>2, <2>3
<1> HIDE DEF x
<1>10. WaitingIn(c, v, q) = Append(WaitingIn(c, v, r), x)
  <2> DEFINE y == WaitingIn(c, v, q)
             z == WaitingIn(c, v, r)
  <2>1. /\ y \in Seq(Activations) /\ z \in Seq(Activations)
        /\ Len(y) = n + 1 /\ Len(z) = n /\ y[n + 1] = x
        /\ \A k \in 1..n : y[k] = z[k]
    BY <1>4, <1>6, <1>9
  <2> HIDE DEF y, z
  <2>2. /\ Append(z, x) \in Seq(Activations) /\ Len(Append(z, x)) = Len(z) + 1
        /\ \A k \in 1..Len(z) : Append(z, x)[k] = z[k]
        /\ Append(z, x)[Len(z) + 1] = x
    BY <1>8, <2>1, AppendProperties
  <2>3. ASSUME NEW k \in 1..(n + 1)
        PROVE  y[k] = Append(z, x)[k]
    <3>1. k \in 1..n \/ k = n + 1
      BY <1>1
    <3> QED
      BY <2>1, <2>2, <3>1
  <2>4. y = Append(z, x)
    BY <1>1, <2>1, <2>2, <2>3, SeqEqual
  <2> QED
    BY <2>4 DEF y, z
<1> QED
  BY <1>1, <1>5, <1>10 DEF q, n, x

(* Without its last frame, all but the last wait.                            *)
LEMMA WaitingPopped ==
  ASSUME NEW c, NEW v \in Seq(Cell), NEW r \in Seq(Frame), Nested(r),
         BaseOf(r, Len(r)) <= Len(v), r # << >>
  PROVE  /\ Nested(Front(r)) /\ WaitingIn(c, v, r) # << >>
         /\ WaitingIn(c, v, Front(r)) = Front(WaitingIn(c, v, r))
         /\ Last(WaitingIn(c, v, r))
              = ActivationAt(c, v, Last(r).address, BaseOf(Front(r), Len(Front(r))),
                             Last(r).varBase)
         /\ BaseOf(Front(r), Len(Front(r))) <= Last(r).varBase
<1> DEFINE n == Len(r)
           q == Front(r)
           z == WaitingIn(c, v, r)
<1>1. /\ n \in Nat \ {0} /\ Last(r) = r[n] /\ Last(r) \in Frame
      /\ q \in Seq(Frame) /\ Len(q) = n - 1
      /\ \A k \in 1..(n - 1) : q[k] = r[k]
  BY FrontLast
<1>2. /\ z \in Seq(Activations) /\ Len(z) = n
      /\ \A k \in 1..n :
           /\ r[k].varBase \in Nat /\ BaseOf(r, k - 1) \in Nat
           /\ r[k].varBase <= BaseOf(r, n)
           /\ z[k] = ActivationAt(c, v, r[k].address, BaseOf(r, k - 1), r[k].varBase)
  BY WaitingType, FramesNested
<1> HIDE DEF q
<1>3. Nested(q)
  <2>1. \A k \in 1..(n - 1) : k \in 1..n
    BY <1>1
  <2> QED
    BY <1>1, <2>1 DEF Nested
<1>4. \A k \in 1..n : BaseOf(q, k - 1) = BaseOf(r, k - 1)
  BY <1>1 DEF BaseOf
<1>5. BaseOf(q, n - 1) = BaseOf(r, n - 1) /\ BaseOf(r, n - 1) <= r[n].varBase
  <2>1. n \in 1..n
    BY <1>1
  <2>2. BaseOf(r, n - 1) <= r[n].varBase
    <3>1. CASE n = 1
      BY <1>2, <2>1, <3>1 DEF BaseOf
    <3>2. CASE n # 1
      <4>1. n - 1 \in 1..n /\ n - 1 # 0 /\ n - 1 <= n
        BY <1>1, <3>2
      <4>2. r[n - 1].varBase <= r[n].varBase
        BY <2>1, <4>1 DEF Nested
      <4> QED
        BY <4>1, <4>2 DEF BaseOf
    <3> QED
      BY <3>1, <3>2
  <2> QED
    BY <1>4, <2>1, <2>2
<1> HIDE DEF z
<1>6. z # << >> /\ Front(z) \in Seq(Activations) /\ Len(Front(z)) = n - 1
      /\ (\A k \in 1..(n - 1) : Front(z)[k] = z[k]) /\ Last(z) = z[n]
  <2>1. z # << >>
    BY <1>1, <1>2
  <2>2. /\ Front(z) \in Seq(Activations) /\ Len(Front(z)) = Len(z) - 1
        /\ \A k \in 1..(Len(z) - 1) : Front(z)[k] = z[k]
        /\ Last(z) = z[Len(z)]
    BY <1>2, <2>1, FrontLast
  <2> QED
    BY <1>2, <2>1, <2>2
<1>7. /\ WaitingIn(c, v, q) \in Seq(Activations) /\ Len(WaitingIn(c, v, q)) = n - 1
      /\ \A k \in 1..(n - 1) :
           WaitingIn(c, v, q)[k]
             = ActivationAt(c, v, q[k].address, BaseOf(q, k - 1), q[k].varBase)
  <2>1. BaseOf(q, Len(q)) <= Len(v)
    <3>1. BaseOf(r, n) = r[n].varBase
      BY <1>1 DEF BaseOf
    <3>2. /\ BaseOf(r, n) \in Nat /\ BaseOf(q, Len(q)) \in Nat /\ Len(v) \in Nat
      <4>1. BaseOf(r, Len(r)) \in Nat
        BY BaseIsLast
      <4>2. BaseOf(q, Len(q)) \in Nat
        BY <1>1, BaseIsLast
      <4> QED
        BY <4>1, <4>2
    <3>3. BaseOf(q, Len(q)) <= BaseOf(r, n)
      BY <1>1, <1>5, <3>1
    <3>4. BaseOf(r, n) <= Len(v)
      OBVIOUS
    <3> QED
      BY <3>2, <3>3, <3>4
  <2>2. /\ WaitingIn(c, v, q) \in Seq(Activations) /\ Len(WaitingIn(c, v, q)) = Len(q)
        /\ \A k \in 1..Len(q) :
             WaitingIn(c, v, q)[k]
               = ActivationAt(c, v, q[k].address, BaseOf(q, k - 1), q[k].varBase)
    BY <1>1, <1>3, <2>1, WaitingType
  <2> QED
    BY <1>1, <2>2
<1>8. \A k \in 1..(n - 1) : WaitingIn(c, v, q)[k] = Front(z)[k]
  <2>1. \A k \in 1..(n - 1) : k \in 1..n
    BY <1>1
  <2> QED
    BY <1>1, <1>2, <1>4, <1>6, <1>7, <2>1
<1>9. WaitingIn(c, v, q) = Front(z)
  BY <1>6, <1>7, <1>8, SeqEqual
<1>10. Last(z) = ActivationAt(c, v, Last(r).address, BaseOf(q, Len(q)), Last(r).varBase)
  <2>1. n \in 1..n
    BY <1>1
  <2> QED
    BY <1>1, <1>2, <1>5, <1>6, <2>1
<1> QED
  BY <1>1, <1>3, <1>5, <1>6, <1>9, <1>10 DEF q, n, z

-------------------------------------------------------------------------------
(* What SorcerSemantics sees. *)

(* Of a state in which the machine runs. *)
LEMMA Seen ==
  ASSUME MInv, mode = "running"
  PROVE  /\ Now = ActivationAt(code, vt, p, BaseOf(rs, Len(rs)), Len(vt))
         /\ Waiting = WaitingIn(code, vt, rs) /\ Status = "running"
         /\ rs \in Seq(Frame) /\ vt \in Seq(Cell) /\ ds \in Seq(Cell) /\ p \in 1..Len(code)
         /\ Nested(rs) /\ BaseOf(rs, Len(rs)) \in Nat /\ BaseOf(rs, Len(rs)) <= Len(vt)
         /\ VarBase = BaseOf(rs, Len(rs)) /\ code \in Seq(Instruction)
<1>1. InRun /\ Status = "running"
  BY Fetched
<1>2. /\ VarBase = BaseOf(rs, Len(rs)) /\ VarBase \in Nat /\ VarBase <= Len(vt)
      /\ p \in 1..Len(code) /\ code \in Seq(Instruction)
  BY Current DEF MInv
<1>3. rs \in Seq(Frame) /\ vt \in Seq(Cell) /\ ds \in Seq(Cell) /\ Nested(rs)
  BY DEF MInv, OwnInv
<1>4. Now = ActivationAt(code, vt, p, BaseOf(rs, Len(rs)), Len(vt))
  BY <1>1, <1>2 DEF Now, Running
<1>5. Waiting = WaitingIn(code, vt, rs)
  BY <1>1, SuspendedIs DEF Waiting
<1> QED
  BY <1>1, <1>2, <1>3, <1>4, <1>5

(* Of the state a step leads to. *)
LEMMA SeenNext ==
  ASSUME IInv', mode' = "running"
  PROVE  /\ Now' = ActivationAt(code', vt', p', BaseOf(rs', Len(rs')), Len(vt'))
         /\ Waiting' = WaitingIn(code', vt', rs') /\ Status' = "running"
         /\ rs' \in Seq(Frame) /\ vt' \in Seq(Cell)
<1>1. InRun' /\ Status' = "running"
  BY DEF InRun, Status, Faults
<1>2. rs' \in Seq(Frame) /\ vt' \in Seq(Cell)
  BY DEF IInv, Machine, TypeOK
<1>3. VarBase' = BaseOf(rs', Len(rs'))
  BY <1>2, BaseIsLast DEF VarBase
<1>4. Now' = ActivationAt(code', vt', p', BaseOf(rs', Len(rs')), Len(vt'))
  BY <1>1, <1>3 DEF Now, Running
<1>5. Waiting' = WaitingIn(code', vt', rs')
  BY <1>1 DEF Waiting, Suspended, WaitingIn, Base, BaseOf
<1> QED
  BY <1>1, <1>2, <1>4, <1>5

(* While nothing runs, nobody does and nobody waits.                         *)
LEMMA SeenIdle ==
  ASSUME mode \in {"idle", "freed"}
  PROVE  /\ Now = Nobody /\ Waiting = << >>
         /\ mode = "idle" => Status \in {"idle", "failed"}
  BY DEF Now, Waiting, InRun, Status, Faults

(* Of a state without a run that a step leads to.                            *)
LEMMA SeenIdleNext ==
  ASSUME mode' \in {"idle", "freed"}
  PROVE  /\ Now' = Nobody /\ Waiting' = << >>
         /\ mode' = "freed" => Status' = "freed"
         /\ mode' = "idle" => Status' = IF err' # "NONE" THEN "failed" ELSE "idle"
  BY DEF Now, Waiting, InRun, Status, Faults, Nobody

-------------------------------------------------------------------------------
(* Numbers nobody else holds. *)

(* What the variables of an activation own is in the table.                  *)
LEMMA ActivationOwns ==
  ASSUME NEW c, NEW v \in Seq(Cell), NEW a, NEW from \in Nat, NEW to \in Nat,
         to <= Len(v)
  PROVE  Owned(ActivationAt(c, v, a, from, to).vars) \subseteq Owned(v)
<1> DEFINE t == SubSeq(v, from + 1, to)
<1>1. /\ t \in Seq(Cell) /\ Len(t) = IF from <= to THEN to - from ELSE 0
      /\ \A i \in 1..(to - from) : t[i] = v[from + i]
  BY VarsCount
<1>2. ActivationAt(c, v, a, from, to).vars = Meanings(c, t)
  BY DEF ActivationAt
<1> HIDE DEF t
<1>3. Owned(Meanings(c, t)) = Owned(t)
  BY <1>1, MeaningsOwn
<1>4. ASSUME NEW h \in Owned(t)
      PROVE  h \in Owned(v)
  <2>1. PICK i \in 1..Len(t) : t[i].type = NUM /\ t[i].val = h
    BY <1>1, <1>4, OwnedAt
  <2>2. from + i \in 1..Len(v) /\ v[from + i] = t[i]
    BY <1>1, <2>1
  <2> QED
    BY <2>1, <2>2, OwnedAt
<1> QED
  BY <1>2, <1>3, <1>4

(* The activations hold no number that is not in the table.                  *)
LEMMA HeldInTable ==
  ASSUME MInv, mode \in {"running", "idle"}
  PROVE  /\ Owned(Now.vars) \subseteq Owned(vt)
         /\ \A k \in DOMAIN Waiting : Owned(Waiting[k].vars) \subseteq Owned(vt)
<1>1. CASE mode = "running"
  <2>1. /\ Now = ActivationAt(code, vt, p, BaseOf(rs, Len(rs)), Len(vt))
        /\ Waiting = WaitingIn(code, vt, rs)
        /\ rs \in Seq(Frame) /\ vt \in Seq(Cell)
        /\ Nested(rs) /\ BaseOf(rs, Len(rs)) \in Nat /\ BaseOf(rs, Len(rs)) <= Len(vt)
    BY <1>1, Seen
  <2>2. Owned(Now.vars) \subseteq Owned(vt)
    BY <2>1, ActivationOwns
  <2>3. ASSUME NEW k \in DOMAIN Waiting
        PROVE  Owned(Waiting[k].vars) \subseteq Owned(vt)
    <3> DEFINE from == BaseOf(rs, k - 1)
               to == rs[k].varBase
    <3>1. k \in 1..Len(rs) /\ Waiting[k] = ActivationAt(code, vt, rs[k].address, from, to)
      BY <2>1, <2>3 DEF WaitingIn
    <3>2. from \in Nat /\ to \in Nat /\ to <= BaseOf(rs, Len(rs)) /\ Len(vt) \in Nat
      BY <2>1, <3>1, FramesNested
    <3> HIDE DEF from, to
    <3>3. to <= Len(vt)
      BY <2>1, <3>2
    <3> QED
      BY <2>1, <3>1, <3>2, <3>3, ActivationOwns
  <2> QED
    BY <2>2, <2>3
<1>2. CASE mode = "idle"
  <2>1. Now = Nobody /\ Waiting = << >>
    BY <1>2, SeenIdle
  <2>2. Owned(Now.vars) = {}
    BY <2>1 DEF Nobody, Owned
  <2> QED
    BY <2>1, <2>2
<1> QED
  BY <1>1, <1>2

(* A number no cell holds is put on the lowest n cells of the data stack.    *)
LEMMA Puts ==
  ASSUME MInv, mode \in {"running", "idle"}, NEW n \in Nat, n <= Len(ds),
         NEW x \in Cell, x.type = NUM,
         x.val \notin Owned(SubSeq(ds, 1, n)), x.val \notin Owned(vt),
         ds' = Append(SubSeq(ds, 1, n), x), code' = code
  PROVE  Semantics!PutNumber(SubSeq(Meanings(code, ds), 1, n))
<1> DEFINE low == SubSeq(ds, 1, n)
           rest == SubSeq(Meanings(code, ds), 1, n)
           top == Meanings(code, ds)'
<1>1. ds \in Seq(Cell) /\ low \in Seq(Cell)
  BY Cut DEF MInv, OwnInv
<1>2. rest = Meanings(code, low)
  <2> DEFINE k == 1
  <2>1. k \in Nat /\ k >= 1
    OBVIOUS
  <2> HIDE DEF k
  <2>2. Meanings(code, SubSeq(ds, k, n)) = SubSeq(Meanings(code, ds), k, n)
    BY <1>1, <2>1, MeaningsCut
  <2> QED
    BY <2>2 DEF k
<1>3. rest \in Seq(Cell) /\ Owned(rest) = Owned(low)
  <2> HIDE DEF low, rest
  <2> QED
    BY <1>1, <1>2, MeaningsAt, MeaningsOwn
<1>4. top = Append(rest, x)
  <2>1. top = Meanings(code, Append(low, x))
    OBVIOUS
  <2>2. Meanings(code, Append(low, x)) = Append(Meanings(code, low), Meaning(code, x))
    BY <1>1, MeaningsAppend
  <2>3. Meaning(code, x) = x
    BY MeaningIs
  <2> QED
    BY <1>2, <2>1, <2>2, <2>3
<1>5. x.val \notin Owned(rest)
  BY <1>3
<1>6. /\ Owned(Now.vars) \subseteq Owned(vt)
      /\ \A k \in DOMAIN Waiting : Owned(Waiting[k].vars) \subseteq Owned(vt)
  BY HeldInTable
<1> HIDE DEF rest, top
<1>7. /\ Len(top) = Len(rest) + 1 /\ Front(top) = rest /\ Last(top) = x
  <2>1. /\ Append(rest, x) \in Seq(Cell) /\ Len(Append(rest, x)) = Len(rest) + 1
        /\ Len(rest) \in Nat
        /\ \A k \in 1..Len(rest) : Append(rest, x)[k] = rest[k]
        /\ Append(rest, x)[Len(rest) + 1] = x
        /\ Append(rest, x) # << >>
    BY <1>3, AppendProperties
  <2> DEFINE t == Append(rest, x)
  <2>2. t \in Seq(Cell) /\ t # << >> /\ Len(t) = Len(rest) + 1
        /\ (\A k \in 1..Len(rest) : t[k] = rest[k]) /\ t[Len(rest) + 1] = x
    BY <2>1
  <2> HIDE DEF t
  <2>3. /\ Front(t) \in Seq(Cell) /\ Len(Front(t)) = Len(t) - 1
        /\ \A k \in 1..(Len(t) - 1) : Front(t)[k] = t[k]
        /\ Last(t) = t[Len(t)]
    BY <2>2, FrontLast
  <2>4. /\ Len(Front(t)) = Len(rest)
        /\ \A k \in 1..Len(rest) : Front(t)[k] = rest[k]
    BY <2>1, <2>2, <2>3
  <2>5. Front(t) = rest
    BY <1>3, <2>3, <2>4, SeqEqual
  <2>6. Last(t) = x
    BY <2>2, <2>3
  <2> QED
    BY <1>4, <2>2, <2>5, <2>6 DEF t
<1>8. x.val \notin Semantics!Held(rest)
  <2>1. Semantics!Held(rest) = Owned(rest) \union Owned(Now.vars)
          \union UNION { Owned(Waiting[k].vars) : k \in DOMAIN Waiting }
    BY DEF Semantics!Held, Semantics!Owned, Owned, Semantics!NUM, NUM, Now, Waiting
  <2> QED
    BY <1>5, <1>6, <2>1
<1>9. Semantics!PutNumber(rest)
  BY <1>7, <1>8 DEF Semantics!PutNumber, Semantics!Front, Semantics!Last, Front, Last,
                    Semantics!NUM, NUM, top
<1> QED
  BY <1>9 DEF rest

-------------------------------------------------------------------------------
(* The ways a step moves control, as SorcerSemantics sees them. *)

(* The running activation as a record, and with one instruction done.        *)
LEMMA FurtherIs ==
  ASSUME MInv, mode = "running", code[p].op # "Ret"
  PROVE  Semantics!Further = [block |-> BlockAt(code, p + 1), at |-> PlaceAt(code, p + 1),
                              vars |-> Now.vars]
<1>1. /\ BlockAt(code, p + 1) = BlockAt(code, p)
      /\ PlaceAt(code, p + 1) = PlaceAt(code, p) + 1
  BY Fetched
<1>2. Now = [block |-> BlockAt(code, p), at |-> PlaceAt(code, p), vars |-> Now.vars]
  BY Seen DEF ActivationAt
<1>3. Semantics!Further = [Now EXCEPT !.at = @ + 1]
  BY DEF Semantics!Further, Now
<1> DEFINE w == Now.vars
           b == BlockAt(code, p)
           k == PlaceAt(code, p)
<1>4. Now = [block |-> b, at |-> k, vars |-> w]
  BY <1>2
<1>5. /\ b = BlockAt(code, p + 1) /\ k + 1 = PlaceAt(code, p + 1) /\ w = Now.vars
  BY <1>1
<1> HIDE DEF w, b, k
<1>6. [Now EXCEPT !.at = @ + 1] = [block |-> b, at |-> k + 1, vars |-> w]
  BY <1>4
<1> QED
  BY <1>3, <1>5, <1>6

(* An instruction that falls through and binds nothing.                      *)
LEMMA Proceeds ==
  ASSUME MInv, IInv', mode = "running", code[p].op # "Ret",
         Jump(p + 1), code' = code, rs' = rs, vt' = vt
  PROVE  Semantics!Proceed
<1>1. mode' = "running" /\ p' = p + 1
  BY DEF Jump
<1>2. /\ Now = ActivationAt(code, vt, p, BaseOf(rs, Len(rs)), Len(vt))
      /\ Waiting = WaitingIn(code, vt, rs) /\ Status = "running"
  BY Seen
<1>3. /\ Now' = ActivationAt(code, vt, p + 1, BaseOf(rs, Len(rs)), Len(vt))
      /\ Waiting' = WaitingIn(code, vt, rs) /\ Status' = "running"
  BY <1>1, SeenNext
<1>4. Now' = Semantics!Further
  BY <1>2, <1>3, FurtherIs DEF ActivationAt
<1> QED
  BY <1>2, <1>3, <1>4 DEF Semantics!Proceed, Now, Waiting

(* An activation that starts has bound nothing and is at its first place.    *)
LEMMA Started ==
  ASSUME NEW c \in Seq(Instruction), NEW e \in Entries(c), NEW v \in Seq(Cell),
         NEW n \in Nat, n <= Len(v)
  PROVE  ActivationAt(c, v, e, n, n) = Semantics!Activation(BlockAt(c, e))
<1>1. PlaceAt(c, e) = 1
  BY PlacedEntry
<1>2. Meanings(c, SubSeq(v, n + 1, n)) = << >>
  <2>1. /\ SubSeq(v, n + 1, n) \in Seq(Cell)
        /\ Len(SubSeq(v, n + 1, n)) = IF n <= n THEN n - n ELSE 0
    BY VarsCount
  <2>2. Len(SubSeq(v, n + 1, n)) = 0
    BY <2>1
  <2> DEFINE t == SubSeq(v, n + 1, n)
  <2>3. t \in Seq(Cell) /\ Len(t) = 0
    BY <2>1, <2>2
  <2> HIDE DEF t
  <2>4. Meanings(c, t) \in Seq(Cell) /\ Len(Meanings(c, t)) = 0
    BY <2>3, MeaningsAt
  <2>5. Meanings(c, t) = << >>
    BY <2>4, EmptySeq
  <2> QED
    BY <2>5 DEF t
<1> QED
  BY <1>1, <1>2 DEF ActivationAt, Semantics!Activation

(* A call that the caller has something left to do after.                    *)
LEMMA Enters ==
  ASSUME MInv, IInv', mode = "running", code[p].op \in {"Call", "Apply"},
         TailCallsEliminated(code),
         NEW e \in Entries(code), PushFrame, Jump(e), code' = code, vt' = vt
  PROVE  Semantics!Enter(BlockAt(code, e)) /\ Nested(rs')
<1> DEFINE n == Len(vt)
           f == [address |-> p + 1, varBase |-> n]
<1>1. mode' = "running" /\ p' = e /\ rs' = Append(rs, f)
  BY DEF Jump, PushFrame
<1>2. /\ Now = ActivationAt(code, vt, p, BaseOf(rs, Len(rs)), n)
      /\ Waiting = WaitingIn(code, vt, rs) /\ Status = "running"
      /\ rs \in Seq(Frame) /\ vt \in Seq(Cell) /\ n \in Nat
      /\ Nested(rs) /\ BaseOf(rs, Len(rs)) <= n /\ n = Len(vt)
      /\ p \in 1..Len(code) /\ p \in Nat /\ code \in Seq(Instruction)
  BY Seen
<1>3. f \in Frame /\ f.varBase = n /\ f.address = p + 1
  BY <1>2 DEF Frame
<1>4. Semantics!Further = ActivationAt(code, vt, p + 1, BaseOf(rs, Len(rs)), n)
  BY <1>2, FurtherIs DEF ActivationAt
<1> HIDE DEF f, n
<1>5. /\ Nested(Append(rs, f))
      /\ WaitingIn(code, vt, Append(rs, f)) = Append(Waiting, Semantics!Further)
      /\ rs' \in Seq(Frame)
  <2>1. BaseOf(rs, Len(rs)) <= f.varBase /\ f.varBase <= Len(vt)
    BY <1>2, <1>3
  <2>2. /\ Append(rs, f) \in Seq(Frame) /\ Nested(Append(rs, f))
        /\ WaitingIn(code, vt, Append(rs, f))
             = Append(WaitingIn(code, vt, rs),
                      ActivationAt(code, vt, f.address, BaseOf(rs, Len(rs)), f.varBase))
    BY <1>2, <1>3, <2>1, WaitingPushed
  <2> QED
    BY <1>1, <1>2, <1>3, <1>4, <2>2
<1>6. BaseOf(rs', Len(rs')) = n
  <2>1. Len(rs') = Len(rs) + 1 /\ rs'[Len(rs) + 1] = f /\ Len(rs) \in Nat
    BY <1>1, <1>2, <1>3, AppendProperties
  <2> QED
    BY <1>3, <2>1 DEF BaseOf
<1>7. Now' = Semantics!Activation(BlockAt(code, e))
  <2>1. Now' = ActivationAt(code, vt, e, n, n)
    BY <1>1, <1>2, <1>6, SeenNext
  <2>2. ActivationAt(code, vt, e, n, n) = Semantics!Activation(BlockAt(code, e))
    BY <1>2, Started
  <2> QED
    BY <2>1, <2>2
<1>8. Waiting' = Append(Waiting, Semantics!Further) /\ Status' = "running"
  BY <1>1, <1>5, SeenNext
<1>9. Now.at # Len(Semantics!Code)
  <2>1. p + 1 \in 1..Len(code) /\ p \in 1..(Len(code) - 1) /\ code[p].op # "Ret"
    BY <1>2, Current DEF MInv
  <2>2. code[p + 1].op # "Ret"
    BY <2>1 DEF TailCallsEliminated
  <2> QED
    BY <2>1, <2>2, Fetched
<1> QED
  BY <1>1, <1>2, <1>5, <1>7, <1>8, <1>9 DEF Semantics!Enter, Now, Waiting

(* A call that ends its block.                                               *)
LEMMA EntersForGood ==
  ASSUME MInv, IInv', mode = "running", code[p].op \in {"TailCall", "TailApply"},
         TailCallsEliminated(code),
         NEW e \in Entries(code), CutVars(VarBase), Jump(e), code' = code, rs' = rs
  PROVE  Semantics!Enter(BlockAt(code, e))
<1> DEFINE n == BaseOf(rs, Len(rs))
<1>1. mode' = "running" /\ p' = e
  BY DEF Jump
<1>2. /\ Waiting = WaitingIn(code, vt, rs) /\ Status = "running"
      /\ rs \in Seq(Frame) /\ vt \in Seq(Cell) /\ n \in Nat
      /\ Nested(rs) /\ n <= Len(vt) /\ VarBase = n
      /\ p \in 1..Len(code) /\ code \in Seq(Instruction)
  BY Seen
<1>3. /\ vt' = SubSeq(vt, 1, n)
      /\ vt' \in Seq(Cell) /\ Len(vt') = n /\ \A i \in 1..n : vt[i] = vt'[i]
  <2>1. vt' = SubSeq(vt, 1, n)
    BY <1>2 DEF CutVars
  <2> HIDE DEF n
  <2> QED
    BY <1>2, <2>1, Cut
<1>4. WaitingIn(code, vt', rs) = WaitingIn(code, vt, rs)
  <2> DEFINE w == vt'
  <2>1. /\ w \in Seq(Cell) /\ BaseOf(rs, Len(rs)) <= Len(w)
        /\ \A i \in 1..BaseOf(rs, Len(rs)) : vt[i] = w[i]
    BY <1>2, <1>3
  <2> HIDE DEF w
  <2>2. WaitingIn(code, vt, rs) = WaitingIn(code, w, rs)
    BY <1>2, <2>1, WaitingSame
  <2> QED
    BY <2>2 DEF w
<1>5. Now' = Semantics!Activation(BlockAt(code, e))
  <2> DEFINE w == vt'
  <2>1. Now' = ActivationAt(code, w, e, n, n)
    BY <1>1, <1>3, SeenNext
  <2>2. w \in Seq(Cell) /\ n \in Nat /\ n <= Len(w)
    BY <1>2, <1>3
  <2> HIDE DEF n, w
  <2>3. ActivationAt(code, w, e, n, n) = Semantics!Activation(BlockAt(code, e))
    BY <1>2, <2>2, Started
  <2> QED
    BY <2>1, <2>3
<1>6. Waiting' = Waiting /\ Status' = "running"
  BY <1>1, <1>2, <1>4, SeenNext
<1>7. Now.at = Len(Semantics!Code)
  <2>1. p + 1 \in 1..Len(code) /\ p \in 1..(Len(code) - 1) /\ code[p].op # "Ret"
    BY <1>2, Current DEF MInv
  <2>2. code[p + 1].op = "Ret"
    BY <2>1 DEF TailCallsEliminated
  <2> QED
    BY <2>1, <2>2, Fetched
<1> QED
  BY <1>2, <1>5, <1>6, <1>7 DEF Semantics!Enter, Now, Waiting

(* A run that is over, with an error or without.                             *)
LEMMA RunEnds ==
  ASSUME NEW e \in {"NONE", "OprArgs"}, Halt(e), ds' = ds, code' = code
  PROVE  Semantics!Ends(IF e = "NONE" THEN "idle" ELSE "failed")
<1>1. mode' = "idle" /\ err' = e
  BY DEF Halt
<1>2. /\ Now' = Nobody /\ Waiting' = << >>
      /\ Status' = IF e # "NONE" THEN "failed" ELSE "idle"
  BY <1>1, SeenIdleNext
<1>3. Nobody = Semantics!Nobody
  BY DEF Nobody, Semantics!Nobody, Semantics!Activation
<1>4. Meanings(code, ds)' = Meanings(code, ds)
  OBVIOUS
<1> QED
  BY <1>2, <1>3, <1>4 DEF Semantics!Ends, Now, Waiting

(* A run that is stopped where the language says nothing.                    *)
LEMMA RunStops ==
  ASSUME NEW f \in Faults, Fault(f), mode = "running", code' = code, Semantics!Undefined
  PROVE  Semantics!Stop
<1>1. mode' = f /\ rs' = rs /\ vt' = vt /\ ds' = ds /\ p' = p /\ err' = err
  BY DEF Fault
<1>2. InRun' /\ InRun /\ Status' = "stopped"
  BY <1>1 DEF InRun, Status, Faults
<1>3. Now' = Now /\ Waiting' = Waiting
  BY <1>1, <1>2 DEF Now, Waiting, Running, Suspended, VarBase, Base
<1>4. Meanings(code, ds)' = Meanings(code, ds)
  BY <1>1
<1> QED
  BY <1>2, <1>3, <1>4 DEF Semantics!Stop, Now, Waiting

(* The end of a block that was called.                                       *)
LEMMA Returns ==
  ASSUME MInv, IInv', Ret, code' = code
  PROVE  Semantics!Return /\ Nested(rs') /\ InBlock(code, p') /\ Resumes(code, rs')
<1> DEFINE n == Last(rs).varBase
           b == BaseOf(Front(rs), Len(Front(rs)))
           a == Last(rs).address
<1>1. /\ mode = "running" /\ code[p].op = "Ret" /\ rs # << >>
      /\ rs' = Front(rs) /\ p' = a /\ mode' = "running" /\ ds' = ds
      /\ CutVars(VarBase) /\ VarBase = n
  BY DEF Ret, Executing, ExecutingOneOf, Jump, VarBase
<1>2. /\ Waiting = WaitingIn(code, vt, rs) /\ Status = "running"
      /\ rs \in Seq(Frame) /\ vt \in Seq(Cell)
      /\ Nested(rs) /\ BaseOf(rs, Len(rs)) \in Nat /\ BaseOf(rs, Len(rs)) <= Len(vt)
      /\ VarBase = BaseOf(rs, Len(rs)) /\ code \in Seq(Instruction)
  BY <1>1, Seen
<1>3. /\ Nested(Front(rs)) /\ Waiting # << >>
      /\ WaitingIn(code, vt, Front(rs)) = Front(Waiting)
      /\ Last(Waiting) = ActivationAt(code, vt, a, b, n)
      /\ b <= n
  BY <1>1, <1>2, WaitingPopped
<1>4. /\ Len(rs) \in Nat \ {0} /\ Front(rs) \in Seq(Frame) /\ Last(rs) = rs[Len(rs)]
      /\ Len(Front(rs)) = Len(rs) - 1
      /\ \A k \in 1..(Len(rs) - 1) : Front(rs)[k] = rs[k]
  BY <1>1, <1>2, FrontLast
<1>5. b \in Nat /\ n \in Nat /\ n <= Len(vt)
  <2>1. b \in Nat
    BY <1>4, BaseIsLast
  <2> QED
    BY <1>1, <1>2, <2>1
<1> HIDE DEF n
<1>6. vt' \in Seq(Cell) /\ Len(vt') = n /\ \A i \in 1..n : vt[i] = vt'[i]
  <2>1. vt' = SubSeq(vt, 1, n)
    BY <1>1 DEF CutVars
  <2> QED
    BY <1>2, <1>5, <2>1, Cut
<1>7. Now' = Last(Waiting)
  <2> DEFINE w == vt'
  <2>1. Now' = ActivationAt(code, w, a, b, n)
    BY <1>1, <1>6, SeenNext
  <2>2. w \in Seq(Cell) /\ n <= Len(w) /\ \A i \in 1..n : vt[i] = w[i]
    BY <1>5, <1>6
  <2> HIDE DEF w, b, a
  <2>3. SubSeq(vt, b + 1, n) = SubSeq(w, b + 1, n)
    BY <1>2, <1>5, <2>2, SameVars
  <2> QED
    BY <1>3, <2>1, <2>3 DEF ActivationAt
<1>8. Waiting' = Front(Waiting) /\ Status' = "running"
  <2> DEFINE w == vt'
             q == Front(rs)
  <2>1. Waiting' = WaitingIn(code, w, q) /\ Status' = "running"
    BY <1>1, SeenNext
  <2>2. /\ w \in Seq(Cell) /\ q \in Seq(Frame) /\ Nested(q)
        /\ BaseOf(q, Len(q)) = b /\ WaitingIn(code, vt, q) = Front(Waiting)
    BY <1>3, <1>4, <1>6
  <2>3. /\ b <= Len(vt) /\ b <= Len(w)
        /\ \A i \in 1..b : vt[i] = w[i]
    <3> HIDE DEF b
    <3> QED
      BY <1>2, <1>3, <1>5, <1>6
  <2> HIDE DEF w, q, b
  <2>4. WaitingIn(code, vt, q) = WaitingIn(code, w, q)
    BY <1>2, <2>2, <2>3, WaitingSame
  <2> QED
    BY <2>1, <2>2, <2>4
<1>9. Semantics!Return
  <2>1. Now.at = Len(Semantics!Code) + 1
    BY <1>1, Fetched
  <2>2. Meanings(code, ds)' = Meanings(code, ds)
    BY <1>1
  <2> QED
    BY <1>1, <1>2, <1>3, <1>7, <1>8, <2>1, <2>2
       DEF Semantics!Return, Semantics!Last, Semantics!Front, Last, Front, Now, Waiting
<1>10. InBlock(code, p') /\ Resumes(code, rs')
  <2>1. Resumes(code, rs)
    BY <1>1 DEF MInv
  <2>2. Len(rs) \in 1..Len(rs) /\ \A k \in 1..(Len(rs) - 1) : k \in 1..Len(rs)
    BY <1>4
  <2>3. InBlock(code, Last(rs).address)
    BY <1>4, <2>1, <2>2 DEF Resumes
  <2>4. Resumes(code, Front(rs))
    BY <1>4, <2>1, <2>2 DEF Resumes
  <2> QED
    BY <1>1, <2>3, <2>4
<1> QED
  BY <1>1, <1>3, <1>9, <1>10

-------------------------------------------------------------------------------
(* Where control is stays a place in a block. *)

(* The frame of a call resumes in the block of the call.                     *)
LEMMA CallResumes ==
  ASSUME MInv, mode = "running", code[p].op \in {"Call", "Apply"}, PushFrame
  PROVE  Resumes(code, rs')
<1> DEFINE f == [address |-> p + 1, varBase |-> Len(vt)]
<1>1. rs' = Append(rs, f) /\ f.address = p + 1
  BY DEF PushFrame
<1>2. rs \in Seq(Frame) /\ vt \in Seq(Cell) /\ p \in 1..Len(code) /\ Resumes(code, rs)
  BY Seen DEF MInv
<1>3. f \in Frame
  BY <1>2 DEF Frame
<1>4. InBlock(code, f.address)
  BY <1>1, Fetched
<1> HIDE DEF f
<1>5. /\ Len(rs') = Len(rs) + 1 /\ Len(rs) \in Nat
      /\ \A k \in 1..Len(rs) : rs'[k] = rs[k]
      /\ rs'[Len(rs) + 1] = f
  BY <1>1, <1>2, <1>3, AppendProperties
<1>6. ASSUME NEW k \in 1..Len(rs')
      PROVE  InBlock(code, rs'[k].address)
  <2>1. k \in 1..Len(rs) \/ k = Len(rs) + 1
    BY <1>5
  <2> QED
    BY <1>2, <1>4, <1>5, <2>1 DEF Resumes
<1> QED
  BY <1>6 DEF Resumes

(* The address control goes to, the frames left.                             *)
Control == mode = "running" => InBlock(code, p) /\ Resumes(code, rs) /\ Nested(rs)

(* Every instruction leaves it at a place in a block.                        *)
LEMMA StepControl ==
  ASSUME MInv, IInv', Step, code' = code, TailCallsEliminated(code)
  PROVE  Control'
<1> USE DEF Executing, ExecutingOneOf
<1>1. mode = "running"
  BY DEF Step, PopNull, PopVar, PopNothing, PushImm, PushBadImm, PushVar,
         PushRemains, ReadsUnbound, PushNothing, PushBlock, Call, Apply, ApplyFail, OprRun,
         OprFail, Ret, RetEnd, BadFrame, TailCall, TailApply, TailApplyFail,
         FetchNothing
<1>2. /\ InBlock(code, p) /\ Resumes(code, rs) /\ Nested(rs)
      /\ code \in Seq(Instruction)
  BY <1>1, Seen DEF MInv
<1>3. CASE PopNull \/ PopVar \/ PushImm \/ PushVar \/ PushRemains \/ PushBlock \/ OprRun
  <2>1. code[p].op # "Ret" /\ p' = p + 1 /\ rs' = rs
    BY <1>3 DEF PopNull, PopVar, PushImm, PushVar, PushRemains, ReadsUnbound, PushBlock,
                OprRun, Jump
  <2>2. InBlock(code, p + 1)
    BY <1>1, <2>1, Fetched
  <2> QED
    BY <1>2, <2>1, <2>2 DEF Control
<1>4. ASSUME NEW e \in Entries(code), code[p].op \in {"Call", "Apply"}, PushFrame,
             Jump(e), vt' = vt
      PROVE  Control'
  <2>1. Nested(rs') /\ Resumes(code, rs')
    BY <1>1, <1>4, Enters, CallResumes
  <2>2. InBlock(code, e)
    BY <1>2, PlacedEntry
  <2> QED
    BY <1>4, <2>1, <2>2 DEF Control, Jump
<1>5. ASSUME NEW e \in Entries(code), Jump(e), rs' = rs
      PROVE  Control'
  <2>1. InBlock(code, e)
    BY <1>2, PlacedEntry
  <2> QED
    BY <1>2, <1>5, <2>1 DEF Control, Jump
<1>6. /\ code[p].op \in {"Call", "TailCall"} => Arg \in Entries(code)
      /\ TopIsBlock => Last(ds).val \in Entries(code)
  <2>1. code[p].op \in {"Call", "TailCall"} => Arg \in Entries(code)
    BY <1>1, Current DEF MInv
  <2>2. TopIsBlock => Last(ds).val \in Entries(code)
    BY BlockCellsFront DEF TopIsBlock, MInv, IInv, Machine, OwnInv
  <2> QED
    BY <2>1, <2>2
<1>7. CASE Call
  BY <1>4, <1>6, <1>7 DEF Call
<1>8. CASE Apply
  BY <1>4, <1>6, <1>8 DEF Apply
<1>9. CASE TailCall
  BY <1>5, <1>6, <1>9 DEF TailCall
<1>10. CASE TailApply
  BY <1>5, <1>6, <1>10 DEF TailApply
<1>11. CASE Ret
  <2>1. Nested(rs') /\ InBlock(code, p') /\ Resumes(code, rs')
    BY <1>11, Returns
  <2> QED
    BY <2>1 DEF Control
<1>12. CASE ApplyFail \/ OprFail \/ RetEnd \/ TailApplyFail
  BY <1>12 DEF ApplyFail, OprFail, RetEnd, TailApplyFail, Fail, Halt, Control
<1>13. CASE PopNothing \/ PushBadImm \/ PushNothing \/ BadFrame \/ FetchNothing
  BY <1>13 DEF PopNothing, PushBadImm, PushNothing, ReadsUnbound, BadFrame, FetchNothing,
               Fault, Control
<1> QED
  BY <1>3, <1>7, <1>8, <1>9, <1>10, <1>11, <1>12, <1>13 DEF Step

(* The invariant is inductive.                                               *)
LEMMA NextMInv ==
  ASSUME ~ ReuseAfterFailure, \A c \in Images : TailCallsEliminated(c),
         MInv, [Next]_vars
  PROVE  MInv'
<1>1. IInv' /\ OwnInv'
  BY NextIInv, NextOwnInv DEF MInv
<1>2. code \in Images /\ code \in Seq(Instruction) /\ TailCallsEliminated(code)
  BY ImagesAssumption DEF MInv, IInv, Machine
<1>3. CASE Step /\ code' = code
  BY <1>1, <1>2, <1>3, StepControl DEF MInv, Control
<1>4. CASE Host /\ code' = code
  <2>1. mode' # "running"
    BY <1>4 DEF Host, HostPush, HostPop, CtxFree
  <2> QED
    BY <1>1, <2>1 DEF MInv
<1>5. ASSUME NEW a \in Entries(code), Run(a), code' = code
      PROVE  MInv'
  <2>1. rs' = << >> /\ p' = a
    BY <1>5 DEF Run, MInv, IInv, Machine, TypeOK
  <2>2. InBlock(code, a)
    BY <1>2, PlacedEntry
  <2>3. Resumes(code, << >>) /\ Nested(<< >>)
    BY DEF Resumes, Nested
  <2> QED
    BY <1>1, <1>5, <2>1, <2>2, <2>3 DEF MInv
<1>6. CASE UNCHANGED vars
  BY <1>1, <1>6 DEF vars, MInv
<1> QED
  BY <1>3, <1>4, <1>5, <1>6 DEF Next

-------------------------------------------------------------------------------
(* The instructions. *)

(* SorcerSemantics means by its names what they mean here.                   *)
LEMMA SameNames ==
  /\ \A x : Semantics!Front(x) = Front(x) /\ Semantics!Last(x) = Last(x)
  /\ \A b : Semantics!Blk(b) = Blk(b)
  /\ Semantics!NUM = NUM /\ Semantics!BLOCK = BLOCK /\ NUM # BLOCK
BY DEF Semantics!Front, Front, Semantics!Last, Last, Semantics!Blk, Blk,
       Semantics!NUM, NUM, Semantics!BLOCK, BLOCK

(* The instruction something was linked from.                                *)
LEMMA SourceInstIs ==
  ASSUME NEW c, NEW inst
  PROVE  /\ inst.op \in {"PopNull", "PopVar", "PushImm", "PushVar", "Opr", "Apply"}
              => SourceInst(c, inst) = inst
         /\ inst.op \in {"Call", "TailCall"}
              => SourceInst(c, inst) = Inst("Call", BlockAt(c, inst.arg))
         /\ inst.op = "TailApply" => SourceInst(c, inst) = Inst("Apply", inst.arg)
         /\ inst.op = "PushBlock"
              => SourceInst(c, inst) = Inst("PushBlock", BlockAt(c, inst.arg))
BY DEF SourceInst

(* The instruction executed, and its argument, as the block's source has it. *)
LEMMA Runs ==
  ASSUME MInv, mode = "running"
  PROVE  /\ \A op \in {"PopNull", "PopVar", "PushImm", "PushVar", "Opr", "Apply"} :
              code[p].op = op => Semantics!Executing(op) /\ Semantics!Arg = Arg
         /\ code[p].op \in {"Call", "TailCall"} =>
              Semantics!Executing("Call") /\ Semantics!Arg = BlockAt(code, Arg)
         /\ code[p].op = "TailApply" => Semantics!Executing("Apply")
         /\ code[p].op = "PushBlock" =>
              Semantics!Executing("PushBlock") /\ Semantics!Arg = BlockAt(code, Arg)
<1> DEFINE x == SourceInst(code, code[p])
<1>1. code[p].op # "Ret" =>
        (\A op : x.op = op => Semantics!Executing(op)) /\ Semantics!Arg = x.arg
  BY Executed
<1>2. Arg = code[p].arg
  BY DEF Arg
<1>3. /\ code[p].op \in {"PopNull", "PopVar", "PushImm", "PushVar", "Opr", "Apply"}
           => x = code[p]
      /\ code[p].op \in {"Call", "TailCall"} => x = Inst("Call", BlockAt(code, Arg))
      /\ code[p].op = "TailApply" => x = Inst("Apply", Arg)
      /\ code[p].op = "PushBlock" => x = Inst("PushBlock", BlockAt(code, Arg))
  BY <1>2, SourceInstIs
<1> HIDE DEF x
<1>4. ASSUME NEW op \in {"PopNull", "PopVar", "PushImm", "PushVar", "Opr", "Apply"},
             code[p].op = op
      PROVE  Semantics!Executing(op) /\ Semantics!Arg = Arg
  BY <1>1, <1>2, <1>3, <1>4
<1>5. code[p].op \in {"Call", "TailCall"} =>
        Semantics!Executing("Call") /\ Semantics!Arg = BlockAt(code, Arg)
  BY <1>1, <1>3 DEF Inst
<1>6. code[p].op = "TailApply" => Semantics!Executing("Apply")
  BY <1>1, <1>3 DEF Inst
<1>7. code[p].op = "PushBlock" =>
        Semantics!Executing("PushBlock") /\ Semantics!Arg = BlockAt(code, Arg)
  BY <1>1, <1>3 DEF Inst
<1> QED
  BY <1>4, <1>5, <1>6, <1>7

(* The top of the data stack is taken.                                       *)
LEMMA Takes ==
  ASSUME MInv, ds # << >>, code' = code, ds' = Front(ds)
  PROVE  /\ Meanings(code, ds) # << >>
         /\ Meanings(code, ds)' = Semantics!Front(Meanings(code, ds))
         /\ Semantics!Top = Meaning(code, Last(ds)) /\ Last(ds) \in Cell
<1>1. ds \in Seq(Cell)
  BY DEF MInv, OwnInv
<1>2. /\ Meanings(code, ds) # << >>
      /\ Meanings(code, Front(ds)) = Front(Meanings(code, ds))
      /\ Last(Meanings(code, ds)) = Meaning(code, Last(ds)) /\ Last(ds) \in Cell
  BY <1>1, MeaningsFront
<1>3. Meanings(code, ds)' = Meanings(code, Front(ds))
  OBVIOUS
<1> QED
  BY <1>2, <1>3, SameNames DEF Semantics!Top

(* PopNull is PopNull.                                                       *)
LEMMA PopNullRefines ==
  ASSUME MInv, IInv', PopNull, code' = code
  PROVE  Semantics!PopNull
<1>1. /\ mode = "running" /\ code[p].op = "PopNull" /\ ds # << >>
      /\ ds' = Front(ds) /\ Jump(p + 1) /\ rs' = rs /\ vt' = vt
  BY DEF PopNull, Executing, ExecutingOneOf
<1>2. Semantics!Executing("PopNull")
  BY <1>1, Runs
<1>3. /\ Meanings(code, ds) # << >>
      /\ Meanings(code, ds)' = Semantics!Front(Meanings(code, ds))
  BY <1>1, Takes
<1>4. Semantics!Proceed
  BY <1>1, Proceeds
<1> QED
  BY <1>2, <1>3, <1>4 DEF Semantics!PopNull

(* PopVar binds the value in the activation that runs.                       *)
LEMMA PopVarRefines ==
  ASSUME MInv, IInv', PopVar, code' = code
  PROVE  Semantics!PopVar
<1> DEFINE x == Last(ds)
           b == BaseOf(rs, Len(rs))
           n == Len(vt)
<1>1. /\ mode = "running" /\ code[p].op = "PopVar" /\ ds # << >>
      /\ ds' = Front(ds) /\ p' = p + 1 /\ mode' = "running" /\ rs' = rs
      /\ vt' = Append(vt, x)
  BY DEF PopVar, Executing, ExecutingOneOf, Jump
<1>2. Semantics!Executing("PopVar")
  BY <1>1, Runs
<1>3. /\ Meanings(code, ds) # << >>
      /\ Meanings(code, ds)' = Semantics!Front(Meanings(code, ds))
      /\ Semantics!Top = Meaning(code, x) /\ x \in Cell
  BY <1>1, Takes
<1>4. /\ Now = ActivationAt(code, vt, p, b, n)
      /\ Waiting = WaitingIn(code, vt, rs) /\ Status = "running"
      /\ rs \in Seq(Frame) /\ vt \in Seq(Cell) /\ n \in Nat
      /\ Nested(rs) /\ b \in Nat /\ b <= n
  BY <1>1, Seen
<1> HIDE DEF x, b
<1>5. /\ Append(vt, x) \in Seq(Cell) /\ Len(Append(vt, x)) = n + 1
      /\ \A i \in 1..n : Append(vt, x)[i] = vt[i]
  BY <1>3, <1>4, AppendProperties
<1>6. /\ Now' = ActivationAt(code, Append(vt, x), p + 1, b, n + 1)
      /\ Waiting' = WaitingIn(code, Append(vt, x), rs) /\ Status' = "running"
  BY <1>1, <1>5, SeenNext DEF b
<1>7. Waiting' = Waiting
  <2> DEFINE w == Append(vt, x)
  <2>1. /\ w \in Seq(Cell) /\ BaseOf(rs, Len(rs)) <= Len(vt)
        /\ BaseOf(rs, Len(rs)) <= Len(w)
        /\ \A i \in 1..BaseOf(rs, Len(rs)) : vt[i] = w[i]
    <3>1. b <= Len(w) /\ \A i \in 1..b : vt[i] = w[i]
      BY <1>4, <1>5
    <3> QED
      BY <1>4, <1>5, <3>1 DEF b
  <2>2. Waiting' = WaitingIn(code, w, rs)
    BY <1>6
  <2> HIDE DEF w
  <2>3. WaitingIn(code, vt, rs) = WaitingIn(code, w, rs)
    BY <1>4, <2>1, WaitingSame
  <2> QED
    BY <1>4, <2>2, <2>3
<1>8. Meanings(code, SubSeq(Append(vt, x), b + 1, n + 1)) = Append(Now.vars, Meaning(code, x))
  <2>1. SubSeq(Append(vt, x), b + 1, n + 1) = Append(SubSeq(vt, b + 1, n), x)
    BY <1>3, <1>4, VarBound
  <2>2. SubSeq(vt, b + 1, n) \in Seq(Cell)
    BY <1>4, VarsCount
  <2>3. Meanings(code, Append(SubSeq(vt, b + 1, n), x))
          = Append(Meanings(code, SubSeq(vt, b + 1, n)), Meaning(code, x))
    BY <1>3, <2>2, MeaningsAppend
  <2> QED
    BY <1>4, <2>1, <2>3 DEF ActivationAt
<1>9. Now' = [Semantics!Further EXCEPT !.vars = Append(@, Semantics!Top)]
  <2> DEFINE k == BlockAt(code, p + 1)
             j == PlaceAt(code, p + 1)
             v == Now.vars
             y == Meaning(code, x)
  <2>1. Semantics!Further = [block |-> k, at |-> j, vars |-> v]
    BY <1>1, FurtherIs
  <2>2. Now' = [block |-> k, at |-> j, vars |-> Append(v, y)]
    BY <1>6, <1>8 DEF ActivationAt
  <2>3. Semantics!Top = y
    BY <1>3
  <2> HIDE DEF k, j, v, y
  <2> DEFINE f == Semantics!Further
             z == Append(v, y)
  <2>4. f = [block |-> k, at |-> j, vars |-> v]
    BY <2>1
  <2>5. Append(f.vars, Semantics!Top) = z
    BY <2>3, <2>4
  <2>6. Now' = [block |-> k, at |-> j, vars |-> z]
    BY <2>2
  <2> HIDE DEF f, z
  <2>7. Now' = [f EXCEPT !.vars = z]
    BY <2>4, <2>6
  <2> QED
    BY <2>5, <2>7 DEF f
<1> QED
  BY <1>2, <1>3, <1>4, <1>6, <1>7, <1>9 DEF Semantics!PopVar, Now, Waiting

(* A number of its own is pushed on the data stack.                          *)
LEMMA PutsOnTop ==
  ASSUME MInv, mode \in {"running", "idle"}, NEW x \in Cell, x.type = NUM,
         x.val \notin pool, ds' = Append(ds, x), code' = code
  PROVE  Semantics!PutNumber(Meanings(code, ds))
<1>1. ds \in Seq(Cell) /\ Len(ds) \in Nat /\ pool = Owned(ds) \union Owned(vt)
  BY DEF MInv, OwnInv, Owners
<1>2. SubSeq(ds, 1, Len(ds)) = ds
  <2> DEFINE n == Len(ds)
  <2>1. n \in Nat /\ n <= Len(ds)
    BY <1>1
  <2>2. n = Len(ds)
    OBVIOUS
  <2> HIDE DEF n
  <2>3. /\ SubSeq(ds, 1, n) \in Seq(Cell) /\ Len(SubSeq(ds, 1, n)) = n
        /\ \A i \in 1..n : SubSeq(ds, 1, n)[i] = ds[i]
    BY <1>1, <2>1, Cut
  <2>4. SubSeq(ds, 1, n) = ds
    BY <1>1, <2>2, <2>3, SeqEqual
  <2> QED
    BY <2>4 DEF n
<1>3. SubSeq(Meanings(code, ds), 1, Len(ds)) = Meanings(code, ds)
  <2> DEFINE k == 1
             n == Len(ds)
  <2>1. k \in Nat /\ k >= 1 /\ n \in Nat /\ n <= Len(ds)
    BY <1>1
  <2>2. SubSeq(ds, k, n) = ds
    BY <1>2
  <2> HIDE DEF k, n
  <2>3. Meanings(code, SubSeq(ds, k, n)) = SubSeq(Meanings(code, ds), k, n)
    BY <1>1, <2>1, MeaningsCut
  <2> QED
    BY <2>2, <2>3 DEF k, n
<1> DEFINE n == Len(ds)
<1>4. /\ n \in Nat /\ n <= Len(ds) /\ SubSeq(ds, 1, n) = ds
      /\ SubSeq(Meanings(code, ds), 1, n) = Meanings(code, ds)
  BY <1>1, <1>2, <1>3
<1> HIDE DEF n
<1>5. x.val \notin Owned(SubSeq(ds, 1, n)) /\ x.val \notin Owned(vt)
      /\ ds' = Append(SubSeq(ds, 1, n), x)
  BY <1>1, <1>4
<1>6. Semantics!PutNumber(SubSeq(Meanings(code, ds), 1, n))
  BY <1>4, <1>5, Puts
<1> QED
  BY <1>4, <1>6

(* So is the number in the fresh handle.                                     *)
LEMMA PutsFresh ==
  ASSUME MInv, mode \in {"running", "idle"}, PushCell(Num(Fresh)), code' = code
  PROVE  Semantics!PutNumber(Meanings(code, ds))
<1>1. Free # {} /\ ds' = Append(ds, Num(Fresh))
  BY DEF PushCell
<1>2. Fresh \notin pool /\ Num(Fresh) \in Cell
  BY <1>1, FreshHandle
<1>3. Num(Fresh).type = NUM /\ Num(Fresh).val = Fresh
  BY DEF Num
<1> QED
  BY <1>1, <1>2, <1>3, PutsOnTop

(* A block value pushed is what it means.                                    *)
LEMMA PutsBlock ==
  ASSUME MInv, NEW a \in Nat, PushCell(Blk(a)), code' = code
  PROVE  Meanings(code, ds)' = Append(Meanings(code, ds), Blk(BlockAt(code, a)))
<1>1. ds' = Append(ds, Blk(a)) /\ ds \in Seq(Cell)
  BY DEF PushCell, MInv, OwnInv
<1>2. Blk(a) \in Cell /\ Blk(a).type = BLOCK /\ Blk(a).val = a
  BY DEF Blk, Cell
<1> DEFINE x == Blk(a)
<1>3. x \in Cell /\ Meaning(code, x) = Blk(BlockAt(code, a))
  BY <1>2, MeaningIs
<1>4. Meanings(code, ds)' = Meanings(code, Append(ds, x))
  BY <1>1
<1> HIDE DEF x
<1>5. Meanings(code, Append(ds, x)) = Append(Meanings(code, ds), Meaning(code, x))
  BY <1>1, <1>3, MeaningsAppend
<1> QED
  BY <1>3, <1>4, <1>5

(* PushImm puts a number nobody else holds.                                  *)
LEMMA PushImmRefines ==
  ASSUME MInv, IInv', PushImm, code' = code
  PROVE  Semantics!PushImm
<1>1. /\ mode = "running" /\ code[p].op = "PushImm" /\ Arg \in Numerals
      /\ PushCell(Num(Fresh)) /\ Jump(p + 1) /\ rs' = rs /\ vt' = vt
  BY DEF PushImm, Executing, ExecutingOneOf
<1>2. Semantics!Executing("PushImm") /\ Semantics!Arg = Arg
  BY <1>1, Runs
<1>3. Semantics!PutNumber(Meanings(code, ds))
  BY <1>1, PutsFresh
<1>4. Semantics!Proceed
  BY <1>1, Proceeds
<1> QED
  BY <1>1, <1>2, <1>3, <1>4 DEF Semantics!PushImm

(* PushBlock pushes the block the linker resolved.                           *)
LEMMA PushBlockRefines ==
  ASSUME MInv, IInv', PushBlock, code' = code
  PROVE  Semantics!PushBlock
<1>1. /\ mode = "running" /\ code[p].op = "PushBlock"
      /\ PushCell(Blk(Arg)) /\ Jump(p + 1) /\ rs' = rs /\ vt' = vt
  BY DEF PushBlock, Executing, ExecutingOneOf
<1>2. Semantics!Executing("PushBlock") /\ Semantics!Arg = BlockAt(code, Arg)
  BY <1>1, Runs
<1>3. Arg \in Nat
  BY <1>1, Current DEF MInv
<1>4. Meanings(code, ds)' = Append(Meanings(code, ds), Blk(BlockAt(code, Arg)))
  BY <1>1, <1>3, PutsBlock
<1>5. Semantics!Proceed
  BY <1>1, Proceeds
<1> QED
  BY <1>2, <1>4, <1>5, SameNames DEF Semantics!PushBlock

(* A slot of the block that runs is a variable its activation bound.         *)
LEMMA SlotIsVariable ==
  ASSUME MInv, mode = "running"
  PROVE  /\ Slot(Arg) <= Len(vt) <=> Arg < Len(Now.vars)
         /\ Len(Now.vars) \in Nat /\ Arg \in Nat
         /\ Slot(Arg) <= Len(vt) =>
              /\ Slot(Arg) \in 1..Len(vt)
              /\ Now.vars[Arg + 1] = Meaning(code, vt[Slot(Arg)])
<1> DEFINE b == BaseOf(rs, Len(rs))
           n == Len(vt)
           t == SubSeq(vt, b + 1, n)
<1>1. /\ Now = ActivationAt(code, vt, p, b, n) /\ vt \in Seq(Cell) /\ n \in Nat
      /\ b \in Nat /\ b <= n /\ VarBase = b /\ n = Len(vt)
  BY Seen
<1>2. Arg \in Nat
  BY Current DEF MInv
<1> HIDE DEF b, n
<1>3. /\ t \in Seq(Cell) /\ Len(t) = n - b
      /\ \A i \in 1..(n - b) : t[i] = vt[b + i]
  <2>1. /\ t \in Seq(Cell) /\ Len(t) = IF b <= n THEN n - b ELSE 0
        /\ \A i \in 1..(n - b) : t[i] = vt[b + i]
    BY <1>1, VarsCount
  <2> QED
    BY <1>1, <2>1
<1>4. Now.vars = Meanings(code, t)
  BY <1>1 DEF ActivationAt
<1> HIDE DEF t
<1>5. /\ Len(Now.vars) = n - b
      /\ \A i \in 1..(n - b) : Now.vars[i] = Meaning(code, t[i])
  BY <1>3, <1>4, MeaningsAt
<1>6. Slot(Arg) = b + Arg + 1
  BY <1>1 DEF Slot
<1>7. Slot(Arg) <= Len(vt) <=> Arg < Len(Now.vars)
  BY <1>1, <1>2, <1>5, <1>6
<1>8. ASSUME Slot(Arg) <= Len(vt)
      PROVE  /\ Slot(Arg) \in 1..Len(vt)
             /\ Now.vars[Arg + 1] = Meaning(code, vt[Slot(Arg)])
  <2>1. Arg + 1 \in 1..(n - b) /\ b + (Arg + 1) = Slot(Arg)
    BY <1>1, <1>2, <1>6, <1>8
  <2>2. Now.vars[Arg + 1] = Meaning(code, t[Arg + 1]) /\ t[Arg + 1] = vt[b + (Arg + 1)]
    BY <1>3, <1>5, <2>1
  <2>3. Slot(Arg) \in 1..Len(vt)
    BY <1>1, <1>2, <1>6, <1>8
  <2> QED
    BY <2>1, <2>2, <2>3
<1>9. Len(Now.vars) \in Nat
  BY <1>1, <1>5
<1> QED
  BY <1>2, <1>7, <1>8, <1>9

(* PushVar copies the variable the activation bound, and no other.           *)
LEMMA PushVarRefines ==
  ASSUME MInv, IInv', PushVar, code' = code
  PROVE  Semantics!PushVar
<1> DEFINE x == vt[Slot(Arg)]
           y == Now.vars[Arg + 1]
<1>1. /\ mode = "running" /\ code[p].op = "PushVar" /\ Slot(Arg) <= Len(vt)
      /\ PushCell(CellDup(x, Fresh)) /\ Jump(p + 1) /\ rs' = rs /\ vt' = vt
  BY DEF PushVar, Executing, ExecutingOneOf
<1>2. Semantics!Executing("PushVar") /\ Semantics!Arg = Arg
  BY <1>1, Runs
<1>3. /\ Arg < Len(Now.vars) /\ Slot(Arg) \in 1..Len(vt)
      /\ y = Meaning(code, x)
  BY <1>1, SlotIsVariable
<1>4. x \in Cell /\ (x.type = NUM \/ x.type = BLOCK) /\ NUM # BLOCK /\ x.val \in Nat
  <2>1. vt \in Seq(Cell)
    BY DEF MInv, OwnInv
  <2>2. x \in Cell
    BY <1>3, <2>1, ElementOfSeq
  <2> QED
    BY <2>2 DEF Cell, NUM, BLOCK
<1>5. Semantics!Proceed
  BY <1>1, Proceeds
<1> HIDE DEF x, y
<1>6. y.type = x.type
  BY <1>3, <1>4, MeaningIs
<1>7. IF y.type = NUM THEN Semantics!PutNumber(Meanings(code, ds))
                      ELSE Meanings(code, ds)' = Append(Meanings(code, ds), y)
  <2>1. CASE x.type = NUM
    <3>1. CellDup(x, Fresh) = Num(Fresh)
      BY <2>1 DEF CellDup
    <3>2. Semantics!PutNumber(Meanings(code, ds))
      BY <1>1, <3>1, PutsFresh
    <3> QED
      BY <1>6, <2>1, <3>2
  <2>2. CASE x.type = BLOCK
    <3>1. CellDup(x, Fresh) = x /\ x = Blk(x.val)
      BY <1>4, <2>2 DEF CellDup, Blk, Cell
    <3>2. y = Blk(BlockAt(code, x.val))
      BY <1>3, <1>4, <2>2, MeaningIs
    <3> DEFINE a == x.val
    <3>3. a \in Nat /\ PushCell(Blk(a)) /\ y = Blk(BlockAt(code, a))
      BY <1>1, <1>4, <3>1, <3>2
    <3> HIDE DEF a
    <3>4. Meanings(code, ds)' = Append(Meanings(code, ds), y)
      BY <3>3, PutsBlock
    <3> QED
      BY <1>4, <1>6, <2>2, <3>4
  <2> QED
    BY <1>4, <2>1, <2>2
<1>8. LET c == Now.vars[Semantics!Arg + 1]
      IN  IF c.type = Semantics!NUM
            THEN Semantics!PutNumber(Meanings(code, ds))
            ELSE Meanings(code, ds)' = Append(Meanings(code, ds), c)
  BY <1>2, <1>7, SameNames DEF y
<1> QED
  BY <1>2, <1>3, <1>5, <1>8 DEF Semantics!PushVar, Now

(* PushVar past the table reads what no activation has bound.                *)
LEMMA PushRemainsRefines ==
  ASSUME MInv, IInv', PushRemains, code' = code
  PROVE  Semantics!PushUnbound
<1>1. /\ mode = "running" /\ code[p].op = "PushVar" /\ Slot(Arg) > Len(vt)
      /\ \E c \in {Blk(a) : a \in Entries(code)} \union {Num(Fresh)} : PushCell(c)
      /\ Jump(p + 1) /\ rs' = rs /\ vt' = vt
  BY DEF PushRemains, ReadsUnbound, Executing, ExecutingOneOf
<1>2. Semantics!Executing("PushVar") /\ Semantics!Arg = Arg
  BY <1>1, Runs
<1>3. Arg >= Len(Now.vars)
  <2>1. Len(vt) \in Nat /\ Slot(Arg) \in Nat
    BY <1>1, Current DEF MInv, OwnInv, Slot
  <2> QED
    BY <1>1, <2>1, SlotIsVariable
<1>4. Semantics!Proceed
  BY <1>1, Proceeds
<1>5. \/ Semantics!PutNumber(Meanings(code, ds))
      \/ \E b \in DOMAIN SourceBlocks(code) :
           Meanings(code, ds)' = Append(Meanings(code, ds), Semantics!Blk(b))
  <2>1. CASE PushCell(Num(Fresh))
    BY <1>1, <2>1, PutsFresh
  <2>2. ASSUME NEW a \in Entries(code), PushCell(Blk(a))
        PROVE  \E b \in DOMAIN SourceBlocks(code) :
                 Meanings(code, ds)' = Append(Meanings(code, ds), Semantics!Blk(b))
    <3>1. code \in Seq(Instruction)
      BY <1>1, Seen
    <3>2. a \in Nat /\ BlockAt(code, a) \in DOMAIN SourceBlocks(code)
      BY <3>1, BlockOfEntry, EntryIsAddress
    <3>3. Meanings(code, ds)' = Append(Meanings(code, ds), Blk(BlockAt(code, a)))
      BY <2>2, <3>2, PutsBlock
    <3> QED
      BY <3>2, <3>3, SameNames
  <2> QED
    BY <1>1, <2>1, <2>2
<1> QED
  BY <1>2, <1>3, <1>4, <1>5 DEF Semantics!PushUnbound, Now

(* A call, eliminated or not, is a call.                                     *)
LEMMA CallRefines ==
  ASSUME MInv, IInv', TailCallsEliminated(code), Call \/ TailCall, code' = code
  PROVE  Semantics!Call
<1>1. /\ mode = "running" /\ code[p].op \in {"Call", "TailCall"} /\ ds' = ds
      /\ Jump(Arg)
  BY DEF Call, TailCall, Executing, ExecutingOneOf
<1>2. Semantics!Executing("Call") /\ Semantics!Arg = BlockAt(code, Arg)
  BY <1>1, Runs
<1>3. Arg \in Entries(code)
  BY <1>1, Current DEF MInv
<1>4. Semantics!Enter(BlockAt(code, Arg))
  <2>1. CASE Call
    BY <1>1, <1>3, <2>1, Enters DEF Call, Executing, ExecutingOneOf
  <2>2. CASE TailCall
    BY <1>1, <1>3, <2>2, EntersForGood DEF TailCall, Executing, ExecutingOneOf
  <2> QED
    BY <2>1, <2>2
<1>5. Meanings(code, ds)' = Meanings(code, ds)
  BY <1>1
<1> QED
  BY <1>2, <1>4, <1>5 DEF Semantics!Call

(* The top of the data stack is a block where its meaning is.                *)
LEMMA TopMeansBlock ==
  ASSUME MInv
  PROVE  /\ TopIsBlock <=> Meanings(code, ds) # << >> /\ Semantics!Top.type = Semantics!BLOCK
         /\ TopIsBlock => /\ Last(ds).val \in Entries(code)
                          /\ Semantics!Top.val = BlockAt(code, Last(ds).val)
<1>1. ds \in Seq(Cell) /\ BlockCells(code, 1, ds)
  BY DEF MInv, OwnInv, IInv, Machine
<1>2. CASE ds = << >>
  <2>1. Meanings(code, ds) \in Seq(Cell) /\ Len(Meanings(code, ds)) = 0
    BY <1>1, <1>2, MeaningsAt
  <2>2. Meanings(code, ds) = << >>
    BY <2>1, EmptySeq
  <2> QED
    BY <1>2, <2>2 DEF TopIsBlock
<1>3. CASE ds # << >>
  <2>1. /\ Meanings(code, ds) # << >>
        /\ Last(Meanings(code, ds)) = Meaning(code, Last(ds)) /\ Last(ds) \in Cell
    BY <1>1, <1>3, MeaningsFront
  <2>2. Semantics!Top = Meaning(code, Last(ds))
    BY <2>1, SameNames DEF Semantics!Top
  <2>3. /\ Meaning(code, Last(ds)).type = Last(ds).type
        /\ Last(ds).type = BLOCK => Meaning(code, Last(ds)) = Blk(BlockAt(code, Last(ds).val))
    BY <2>1, MeaningIs
  <2>4. Last(ds).type = BLOCK => Last(ds).val \in Entries(code)
    BY <1>1, <1>3, BlockCellsFront
  <2>5. \A b : Blk(b).val = b
    BY DEF Blk
  <2> QED
    BY <1>3, <2>1, <2>2, <2>3, <2>4, <2>5, SameNames DEF TopIsBlock
<1> QED
  BY <1>2, <1>3

(* So is an applied block.                                                   *)
LEMMA ApplyRefines ==
  ASSUME MInv, IInv', TailCallsEliminated(code), Apply \/ TailApply, code' = code
  PROVE  Semantics!Apply
<1>1. /\ mode = "running" /\ code[p].op \in {"Apply", "TailApply"} /\ ds' = Front(ds)
      /\ Jump(Last(ds).val) /\ TopIsBlock
  BY DEF Apply, TailApply, Executing, ExecutingOneOf
<1>2. Semantics!Executing("Apply")
  BY <1>1, Runs
<1>3. /\ Last(ds).val \in Entries(code) /\ Semantics!Top.val = BlockAt(code, Last(ds).val)
      /\ Meanings(code, ds) # << >> /\ Semantics!Top.type = Semantics!BLOCK
  BY <1>1, TopMeansBlock
<1>4. Semantics!Enter(Semantics!Top.val)
  <2> DEFINE e == Last(ds).val
  <2>1. e \in Entries(code) /\ Jump(e) /\ Semantics!Top.val = BlockAt(code, e)
    BY <1>1, <1>3
  <2> HIDE DEF e
  <2>2. CASE Apply
    <3>1. PushFrame /\ vt' = vt /\ code[p].op \in {"Call", "Apply"}
      BY <2>2 DEF Apply, Executing, ExecutingOneOf
    <3>2. Semantics!Enter(BlockAt(code, e))
      BY <1>1, <2>1, <3>1, Enters
    <3> QED
      BY <2>1, <3>2
  <2>3. CASE TailApply
    <3>1. CutVars(VarBase) /\ rs' = rs /\ code[p].op \in {"TailCall", "TailApply"}
      BY <2>3 DEF TailApply, Executing, ExecutingOneOf
    <3>2. Semantics!Enter(BlockAt(code, e))
      BY <1>1, <2>1, <3>1, EntersForGood
    <3> QED
      BY <2>1, <3>2
  <2> QED
    BY <2>2, <2>3
<1>5. Meanings(code, ds)' = Semantics!Front(Meanings(code, ds))
  BY <1>1, Takes DEF TopIsBlock
<1> QED
  BY <1>2, <1>3, <1>4, <1>5 DEF Semantics!Apply

(* What is applied and no block fails the run.                               *)
LEMMA ApplyFailRefines ==
  ASSUME MInv, ApplyFail \/ TailApplyFail, code' = code
  PROVE  Semantics!ApplyFail
<1>1. /\ mode = "running" /\ code[p].op \in {"Apply", "TailApply"} /\ ~ TopIsBlock /\ Fail
  BY DEF ApplyFail, TailApplyFail, Executing, ExecutingOneOf
<1>2. Semantics!Executing("Apply")
  BY <1>1, Runs
<1>3. Meanings(code, ds) = << >> \/ Semantics!Top.type # Semantics!BLOCK
  BY <1>1, TopMeansBlock
<1>4. Semantics!Ends("failed")
  <2>1. Semantics!Ends(IF "OprArgs" = "NONE" THEN "idle" ELSE "failed")
    BY <1>1, RunEnds DEF Fail
  <2> QED
    BY <2>1
<1> QED
  BY <1>2, <1>3, <1>4 DEF Semantics!ApplyFail

(* An operator finds its arguments where their meanings are.                 *)
LEMMA FitsTakes ==
  ASSUME MInv, NEW o \in Opr
  PROVE  /\ OprFits(o) <=> Semantics!Takes(o)
         /\ Len(Meanings(code, ds)) = Len(ds)
<1>1. /\ ds \in Seq(Cell) /\ Len(ds) \in Nat /\ o.numIns \in {1, 2}
  BY DEF MInv, OwnInv, Opr
<1>2. /\ Len(Meanings(code, ds)) = Len(ds)
      /\ \A i \in 1..Len(ds) : Meanings(code, ds)[i].type = ds[i].type
  BY <1>1, MeaningsAt, MeaningIs
<1>3. Len(ds) >= o.numIns =>
        \A i \in (Len(ds) - o.numIns + 1)..Len(ds) : i \in 1..Len(ds)
  BY <1>1
<1> QED
  BY <1>2, <1>3, SameNames DEF OprFits, Semantics!Takes

(* Arguments an operator cannot take fail the run.                           *)
LEMMA OprFailRefines ==
  ASSUME MInv, OprFail, code' = code
  PROVE  Semantics!OprFail
<1>1. /\ mode = "running" /\ code[p].op = "Opr" /\ Arg \in DOMAIN OprTable
      /\ ~ OprFits(OprTable[Arg]) /\ Fail
  BY DEF OprFail, Executing, ExecutingOneOf
<1>2. Semantics!Executing("Opr") /\ Semantics!Arg = Arg
  BY <1>1, Runs
<1>3. OprTable[Arg] \in Opr
  BY <1>1, OprAssumption, ElementOfSeq
<1>4. ~ Semantics!Takes(OprTable[Arg])
  BY <1>1, <1>3, FitsTakes
<1>5. Semantics!Ends("failed")
  <2>1. Semantics!Ends(IF "OprArgs" = "NONE" THEN "idle" ELSE "failed")
    BY <1>1, RunEnds DEF Fail
  <2> QED
    BY <2>1
<1> QED
  BY <1>2, <1>4, <1>5 DEF Semantics!OprFail

(* An operator replaces its arguments by a number nobody else holds.         *)
LEMMA OprRunRefines ==
  ASSUME MInv, IInv', OprRun, code' = code
  PROVE  Semantics!OprRun
<1> DEFINE o    == OprTable[Arg]
           rest == Len(ds) - o.numIns
           args == SubSeq(ds, rest + 1, Len(ds))
           y    == OprResult(o, args, Fresh)
<1>1. /\ mode = "running" /\ code[p].op = "Opr" /\ Arg \in DOMAIN OprTable
      /\ OprFits(o) /\ Free # {}
      /\ ds' = Append(SubSeq(ds, 1, rest), y)
      /\ Jump(p + 1) /\ rs' = rs /\ vt' = vt
  BY DEF OprRun, Executing, ExecutingOneOf
<1>2. Semantics!Executing("Opr") /\ Semantics!Arg = Arg
  BY <1>1, Runs
<1>3. o \in Opr
  BY <1>1, OprAssumption, ElementOfSeq
<1>4. Semantics!Takes(o) /\ Len(Meanings(code, ds)) = Len(ds)
  BY <1>1, <1>3, FitsTakes
<1>5. Semantics!Proceed
  BY <1>1, Proceeds
<1>6. /\ ds \in Seq(Cell) /\ vt \in Seq(Cell) /\ Len(ds) \in Nat
      /\ Owners(ds, vt, pool)
  BY DEF MInv, OwnInv
<1>7. /\ rest \in Nat /\ rest <= Len(ds) /\ rest + 1 \in 1..Len(ds)
      /\ o.inPlace => rest + 1 = Len(ds)
      /\ ds[rest + 1].type = NUM
  BY <1>1, <1>3, <1>6 DEF OprFits, Opr
<1>8. Fresh \notin pool /\ Num(Fresh) \in Cell
  BY <1>1, FreshHandle
<1>9. /\ y \in Cell /\ y.type = NUM
      /\ y.val \notin Owned(SubSeq(ds, 1, rest)) /\ y.val \notin Owned(vt)
  <2> DEFINE low == SubSeq(ds, 1, rest)
  <2>1. low \in Seq(Cell) /\ Len(low) = rest /\ \A i \in 1..rest : low[i] = ds[i]
    <3> HIDE DEF rest
    <3> QED
      BY <1>6, <1>7, Cut
  <2>2. \A h \in Owned(low) : \E i \in 1..rest : ds[i].type = NUM /\ ds[i].val = h
    <3> HIDE DEF low, rest
    <3> QED
      BY <2>1, OwnedAt
  <2>3. CASE o.inPlace
    <3>1. args = << ds[Len(ds)] >> /\ ds[Len(ds)] \in Cell
      <4>1. rest + 1 = Len(ds) /\ Len(ds) >= 1
        BY <1>6, <1>7, <2>3
      <4>2. args = SubSeq(ds, Len(ds), Len(ds))
        BY <4>1
      <4>3. SubSeq(ds, Len(ds), Len(ds)) = << ds[Len(ds)] >>
        BY <1>6, <4>1, LastAlone
      <4>4. ds[Len(ds)] \in Cell
        BY <1>6, <4>1, ElementOfSeq
      <4> QED
        BY <4>2, <4>3, <4>4
    <3>2. y = ds[Len(ds)]
      <4>1. y = args[1]
        BY <2>3 DEF OprResult
      <4> HIDE DEF y, args
      <4> QED
        BY <3>1, <4>1
    <3>3. y.type = NUM
      BY <1>7, <2>3, <3>2
    <3>4. y.val \in Owned(ds)
      <4>1. Len(ds) \in 1..Len(ds)
        BY <1>6, <1>7
      <4> HIDE DEF y
      <4> QED
        BY <1>6, <3>2, <3>3, <4>1, OwnedAt
    <3>5. y.val \notin Owned(low)
      <4>1. ASSUME NEW i \in 1..rest, ds[i].type = NUM, ds[i].val = ds[Len(ds)].val
            PROVE  FALSE
        <5>1. i \in 1..Len(ds) /\ Len(ds) \in 1..Len(ds) /\ i # Len(ds)
          BY <1>6, <1>7, <2>3
        <5>2. ds[Len(ds)].type = NUM
          BY <1>7, <2>3
        <5> QED
          BY <1>6, <4>1, <5>1, <5>2 DEF Owners, SoleOwner
      <4> HIDE DEF low, y, rest
      <4> QED
        BY <2>2, <3>2, <4>1
    <3>6. y.val \notin Owned(vt)
      BY <1>6, <3>4 DEF Owners
    <3> HIDE DEF y, low
    <3> QED
      BY <3>1, <3>2, <3>3, <3>5, <3>6 DEF low
  <2>4. CASE ~ o.inPlace
    <3>1. y = Num(Fresh)
      BY <2>4 DEF OprResult
    <3>2. y.type = NUM /\ y.val = Fresh
      BY <3>1 DEF Num
    <3>3. Fresh \notin Owned(ds) /\ Fresh \notin Owned(vt)
      BY <1>6, <1>8 DEF Owners
    <3>4. Fresh \notin Owned(low)
      <4>1. \A i \in 1..rest : i \in 1..Len(ds)
        BY <1>6, <1>7
      <4> HIDE DEF low, rest
      <4> QED
        BY <1>6, <2>2, <3>3, <4>1, OwnedAt
    <3> HIDE DEF y, low
    <3> QED
      BY <1>8, <3>1, <3>2, <3>3, <3>4 DEF low
  <2> QED
    BY <2>3, <2>4
<1>10. Semantics!PutNumber(SubSeq(Meanings(code, ds), 1, rest))
  <2> HIDE DEF rest, y
  <2> QED
    BY <1>1, <1>7, <1>9, Puts
<1> QED
  BY <1>2, <1>4, <1>5, <1>10 DEF Semantics!OprRun

(* The end of the block the run started with ends the run.                   *)
LEMMA RetEndRefines ==
  ASSUME MInv, RetEnd, code' = code
  PROVE  Semantics!Finish
<1>1. /\ mode = "running" /\ code[p].op = "Ret" /\ rs = << >> /\ Halt("NONE") /\ ds' = ds
  BY DEF RetEnd, Executing, ExecutingOneOf
<1>2. Now.at = Len(Semantics!Code) + 1 /\ Status = "running"
  BY <1>1, Fetched
<1>3. Waiting = << >>
  BY <1>1 DEF Waiting, Suspended
<1>4. Semantics!Ends("idle")
  <2>1. Semantics!Ends(IF "NONE" = "NONE" THEN "idle" ELSE "failed")
    BY <1>1, RunEnds
  <2> QED
    BY <2>1
<1> QED
  BY <1>2, <1>3, <1>4 DEF Semantics!Finish, Now, Waiting

(* What stops the machine is what the language leaves open.                  *)
LEMMA FaultRefines ==
  ASSUME MInv, PopNothing \/ PushBadImm \/ PushNothing \/ BadFrame \/ FetchNothing,
         code' = code
  PROVE  Semantics!Stop
<1> USE DEF Executing, ExecutingOneOf
<1>1. mode = "running"
  BY DEF PopNothing, PushBadImm, PushNothing, ReadsUnbound, BadFrame, FetchNothing
<1>2. /\ p \in 1..Len(code) /\ VarBase \in Nat /\ VarBase <= Len(vt) /\ Arg \in Nat
      /\ Len(vt) \in Nat
  BY <1>1, Current DEF MInv, OwnInv
<1>3. CASE PopNothing
  <2>1. code[p].op \in {"PopNull", "PopVar", "Apply", "TailApply"} /\ ds = << >>
        /\ Fault("noCell")
    BY <1>3 DEF PopNothing
  <2>2. \/ Semantics!Executing("PopNull") \/ Semantics!Executing("PopVar")
        \/ Semantics!Executing("Apply")
    BY <1>1, <2>1, Runs
  <2>3. Meanings(code, ds) = << >>
    BY <2>1 DEF Meanings
  <2>4. Semantics!Undefined
    BY <2>2, <2>3 DEF Semantics!Undefined
  <2> QED
    BY <1>1, <2>1, <2>4, RunStops DEF Faults
<1>4. CASE PushBadImm
  <2>1. code[p].op = "PushImm" /\ Arg \notin Numerals /\ Fault("assertImm")
    BY <1>4 DEF PushBadImm
  <2>2. Semantics!Executing("PushImm") /\ Semantics!Arg = Arg
    BY <1>1, <2>1, Runs
  <2>3. Semantics!Undefined
    BY <2>1, <2>2 DEF Semantics!Undefined
  <2> QED
    BY <1>1, <2>1, <2>3, RunStops DEF Faults
<1>5. CASE PushNothing
  <2>1. code[p].op = "PushVar" /\ Slot(Arg) > Len(vt) /\ Fault("noSlot")
    BY <1>5 DEF PushNothing, ReadsUnbound
  <2>2. Semantics!Executing("PushVar") /\ Semantics!Arg = Arg
    BY <1>1, <2>1, Runs
  <2>3. Arg >= Len(Now.vars)
    <3>1. Slot(Arg) \in Nat
      BY <1>2 DEF Slot
    <3> QED
      BY <1>1, <1>2, <2>1, <3>1, SlotIsVariable
  <2>4. Semantics!Undefined
    BY <2>2, <2>3 DEF Semantics!Undefined, Now
  <2> QED
    BY <1>1, <2>1, <2>4, RunStops DEF Faults
<1>6. CASE BadFrame
  BY <1>2, <1>6 DEF BadFrame
<1>7. CASE FetchNothing
  BY <1>2, <1>7 DEF FetchNothing
<1> QED
  BY <1>3, <1>4, <1>5, <1>6, <1>7

-------------------------------------------------------------------------------
(* The host. *)

(* What the host does between runs.                                          *)
LEMMA HostRefines ==
  ASSUME MInv, Host, code' = code
  PROVE  Semantics!HostPush \/ Semantics!HostPop \/ Semantics!Free
<1>1. mode = "idle" /\ Status \in {"idle", "failed"} /\ Now = Nobody /\ Waiting = << >>
  BY SeenIdle DEF Host, HostPush, HostPop, CtxFree
<1>2. CASE HostPush
  <2>1. PushCell(Num(Fresh)) /\ mode' = "idle" /\ err' = err
    BY <1>1, <1>2 DEF HostPush
  <2>2. Semantics!PutNumber(Meanings(code, ds))
    BY <1>1, <2>1, PutsFresh
  <2>3. Now' = Now /\ Waiting' = Waiting /\ Status' = Status
    BY <1>1, <2>1, SeenIdleNext DEF Status, Faults
  <2> QED
    BY <1>1, <2>2, <2>3 DEF Semantics!HostPush, Now, Waiting
<1>3. ASSUME NEW n \in 1..Len(ds), HostPop(n)
      PROVE  Semantics!HostPop
  <2> DEFINE m == Len(ds) - n
             k == 1
  <2>1. /\ ds \in Seq(Cell) /\ Len(ds) \in Nat /\ m \in Nat /\ m <= Len(ds)
        /\ k \in Nat /\ k >= 1 /\ m = Len(ds) - n
    BY DEF MInv, OwnInv
  <2>2. ds' = SubSeq(ds, k, m) /\ mode' = "idle" /\ err' = err
    BY <1>1, <1>3 DEF HostPop
  <2>3. Meanings(code, ds)' = SubSeq(Meanings(code, ds), 1, m)
    <3>1. Meanings(code, ds)' = Meanings(code, SubSeq(ds, k, m))
      BY <2>2
    <3> HIDE DEF m, k
    <3>2. Meanings(code, SubSeq(ds, k, m)) = SubSeq(Meanings(code, ds), k, m)
      BY <2>1, MeaningsCut
    <3> QED
      BY <3>1, <3>2 DEF k
  <2>4. Len(Meanings(code, ds)) = Len(ds)
    BY <2>1, MeaningsAt
  <2>5. Now' = Now /\ Waiting' = Waiting /\ Status' = Status
    BY <1>1, <2>2, SeenIdleNext DEF Status, Faults
  <2>6. \E j \in 1..Len(Meanings(code, ds)) :
          Meanings(code, ds)' = SubSeq(Meanings(code, ds), 1, Len(Meanings(code, ds)) - j)
    BY <2>3, <2>4
  <2> QED
    BY <1>1, <2>5, <2>6 DEF Semantics!HostPop, Now, Waiting
<1>4. CASE CtxFree
  <2>1. mode' = "freed" /\ ds' = << >>
    BY <1>4 DEF CtxFree
  <2>2. Now' = Now /\ Waiting' = Waiting /\ Status' = "freed"
    BY <1>1, <2>1, SeenIdleNext
  <2>3. Meanings(code, ds)' = << >>
    BY <2>1 DEF Meanings
  <2> QED
    BY <1>1, <2>2, <2>3 DEF Semantics!Free, Now, Waiting
<1> QED
  BY <1>2, <1>3, <1>4 DEF Host

(* A run starts one activation, with nobody waiting.                         *)
LEMMA RunRefines ==
  ASSUME ~ ReuseAfterFailure, MInv, IInv', NEW a \in Entries(code), Run(a), code' = code
  PROVE  \E b \in DOMAIN SourceBlocks(code) : Semantics!Start(b)
<1>1. /\ mode = "idle" /\ err = "NONE" /\ mode' = "running" /\ p' = a
      /\ ds' = ds /\ rs' = rs /\ vt' = vt
  BY DEF Run
<1>2. /\ rs = << >> /\ vt = << >> /\ code \in Seq(Instruction)
  BY <1>1 DEF MInv, IInv, Machine, TypeOK
<1>3. Status = "idle" /\ Waiting = << >>
  BY <1>1 DEF Status, Faults, Waiting, InRun
<1>4. /\ Now' = ActivationAt(code, << >>, a, 0, 0) /\ Status' = "running"
      /\ Waiting' = WaitingIn(code, << >>, << >>)
  <2>1. BaseOf(rs', Len(rs')) = 0 /\ Len(vt') = 0
    BY <1>1, <1>2 DEF BaseOf
  <2> QED
    BY <1>1, <1>2, <2>1, SeenNext
<1>5. ActivationAt(code, << >>, a, 0, 0) = Semantics!Activation(BlockAt(code, a))
  <2> DEFINE v == << >>
             n == 0
  <2>1. v \in Seq(Cell) /\ n \in Nat /\ n <= Len(v)
    OBVIOUS
  <2> HIDE DEF v, n
  <2>2. ActivationAt(code, v, a, n, n) = Semantics!Activation(BlockAt(code, a))
    BY <1>2, <2>1, Started
  <2> QED
    BY <2>2 DEF v, n
<1>6. WaitingIn(code, << >>, << >>) = << >>
  BY DEF WaitingIn
<1>7. BlockAt(code, a) \in DOMAIN SourceBlocks(code)
  BY <1>2, BlockOfEntry
<1>8. Meanings(code, ds)' = Meanings(code, ds)
  BY <1>1
<1>9. Semantics!Start(BlockAt(code, a))
  BY <1>3, <1>4, <1>5, <1>6, <1>8 DEF Semantics!Start, Now, Waiting
<1> QED
  BY <1>7, <1>9

-------------------------------------------------------------------------------
(* The theorem. *)

(* Every instruction is one of the language.                                 *)
LEMMA StepRefines ==
  ASSUME MInv, IInv', TailCallsEliminated(code), Step, code' = code
  PROVE  Semantics!Next
<1>1. SourceBlocks(code)' = SourceBlocks(code)
  OBVIOUS
<1>2. CASE PopNull
  BY <1>1, <1>2, PopNullRefines DEF Semantics!Next
<1>3. CASE PopVar
  BY <1>1, <1>3, PopVarRefines DEF Semantics!Next
<1>4. CASE PushImm
  BY <1>1, <1>4, PushImmRefines DEF Semantics!Next
<1>5. CASE PushVar
  BY <1>1, <1>5, PushVarRefines DEF Semantics!Next
<1>6. CASE PushRemains
  BY <1>1, <1>6, PushRemainsRefines DEF Semantics!Next
<1>7. CASE PushBlock
  BY <1>1, <1>7, PushBlockRefines DEF Semantics!Next
<1>8. CASE Call \/ TailCall
  BY <1>1, <1>8, CallRefines DEF Semantics!Next
<1>9. CASE Apply \/ TailApply
  BY <1>1, <1>9, ApplyRefines DEF Semantics!Next
<1>10. CASE ApplyFail \/ TailApplyFail
  BY <1>1, <1>10, ApplyFailRefines DEF Semantics!Next
<1>11. CASE OprRun
  BY <1>1, <1>11, OprRunRefines DEF Semantics!Next
<1>12. CASE OprFail
  BY <1>1, <1>12, OprFailRefines DEF Semantics!Next
<1>13. CASE Ret
  BY <1>1, <1>13, Returns DEF Semantics!Next
<1>14. CASE RetEnd
  BY <1>1, <1>14, RetEndRefines DEF Semantics!Next
<1>15. CASE PopNothing \/ PushBadImm \/ PushNothing \/ BadFrame \/ FetchNothing
  BY <1>1, <1>15, FaultRefines DEF Semantics!Next
<1> QED
  BY <1>2, <1>3, <1>4, <1>5, <1>6, <1>7, <1>8, <1>9, <1>10, <1>11, <1>12, <1>13,
     <1>14, <1>15 DEF Step

(* So is every step.                                                         *)
LEMMA NextRefines ==
  ASSUME ~ ReuseAfterFailure, \A c \in Images : TailCallsEliminated(c),
         MInv, [Next]_vars
  PROVE  [Semantics!Next]_(Semantics!semVars)
<1>1. IInv'
  BY NextIInv DEF MInv
<1>2. TailCallsEliminated(code)
  BY DEF MInv, IInv, Machine
<1>3. CASE Step /\ code' = code
  BY <1>1, <1>2, <1>3, StepRefines
<1>4. CASE Host /\ code' = code
  <2>1. SourceBlocks(code)' = SourceBlocks(code)
    BY <1>4
  <2> QED
    BY <1>4, <2>1, HostRefines DEF Semantics!Next
<1>5. ASSUME NEW a \in Entries(code), Run(a), code' = code
      PROVE  Semantics!Next
  <2>1. SourceBlocks(code)' = SourceBlocks(code)
    BY <1>5
  <2> QED
    BY <1>1, <1>5, <2>1, RunRefines DEF Semantics!Next
<1>6. CASE UNCHANGED vars
  BY <1>6 DEF vars, Semantics!semVars, InRun, Running, Suspended, Status, VarBase, Base
<1> QED
  BY <1>3, <1>4, <1>5, <1>6 DEF Next

(* The machine starts where the language does.                               *)
LEMMA InitRefines ==
  ASSUME Init
  PROVE  MInv /\ Semantics!Init
<1>1. IInv /\ OwnInv
  BY InitIInv, InitOwnInv
<1>2. mode = "idle" /\ err = "NONE" /\ ds = << >>
  BY DEF Init
<1>3. Now = Nobody /\ Waiting = << >> /\ Status = "idle"
  BY <1>2 DEF Now, Waiting, InRun, Status, Faults
<1>4. Meanings(code, ds) = << >>
  BY <1>2 DEF Meanings
<1> QED
  BY <1>1, <1>2, <1>3, <1>4
     DEF MInv, Semantics!Init, Now, Waiting, Nobody, Semantics!Nobody, Semantics!Activation

(* SR_run means what the blocks of the program say: with the tail calls of   *)
(* the image eliminated, and no context run again after a failure, every step*)
(* of the machine is a step of the language.                                 *)
THEOREM MachineMeansBlocks ==
  ASSUME ~ ReuseAfterFailure, \A c \in Images : TailCallsEliminated(c)
  PROVE  Spec => ImplementsSemantics
<1>1. Init => MInv /\ Semantics!Init
  BY InitRefines
<1>2. MInv /\ [Next]_vars => MInv'
  BY NextMInv
<1>3. MInv /\ [Next]_vars => [Semantics!Next]_(Semantics!semVars)
  BY NextRefines
<1> QED
  BY <1>1, <1>2, <1>3, PTL DEF Spec, ImplementsSemantics, Semantics!Spec
===============================================================================
