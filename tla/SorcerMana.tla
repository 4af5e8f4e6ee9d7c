------------------------------ MODULE SorcerMana ------------------------------
(***************************************************************************)
(* The compiler of mana text (sorcer_mana.c): from the tokens of a source  *)
(* to blocks of a context.  A first pass (phase "tree",                    *)
(* SR_manaLoadBlockDefTree) finds the blocks and the definitions; a second *)
(* one (phase "load", SR_manaLoadBlock) emits instructions, and follows a  *)
(* name to its block, which it loads before the word that named it.        *)
(*                                                                         *)
(* Positions count from 1, so position k is token k - 1 in C; block i of   *)
(* infos is block prior + i of the context, prior being ctx->blockBaseId.  *)
(* A token is the string it spells.                                        *)
(***************************************************************************)
EXTENDS SorcerBlocks

CONSTANTS
  Loads,      \* the token sequences to compile, each with the number of blocks
              \* the context holds before
  DefOf,      \* the name each token ending in ':' defines
  OprOf,      \* the operator of each token that names one
  LiteralOf,  \* the literal of each token some type's constructor accepts
  Quoted      \* the quoted tokens: no type has SR_TypeFlag_String

ASSUME LoadsAssumption ==
  \A l \in Loads : l.toks \in Seq(STRING) /\ l.prior \in 0..MaxBlocks

(* The null scope, position and name of the C (-1 there). *)
None == 0
NoName == ""

(* Two tokens that end in ':' define two names, and no bracket ends in one. *)
ASSUME WordsAssumption ==
  /\ NoName \in STRING
  /\ \A t \in DOMAIN DefOf : DefOf[t] \in STRING \ {NoName}
  /\ \A t, u \in DOMAIN DefOf : DefOf[t] = DefOf[u] => t = u
  /\ {"{", "}", "[", "]", "#"} \intersect DOMAIN DefOf = {}
  /\ \A t \in DOMAIN OprOf : OprOf[t] \in Oprs
  /\ \A t \in DOMAIN LiteralOf : LiteralOf[t] \in Literals

VARIABLES toks, prior, infos, callStack, p, phase, error

loadVars == << toks, prior, infos, callStack, p, phase, error >>

manaVars == << blockVars, loadVars >>

LoadBlockInfo ==
  [scope : Nat, begin : Nat, end : Nat, loaded : BOOLEAN,
   defs : Seq([name : STRING, block : Nat]), vars : Seq([name : STRING, var : Nat])]

LoadCall == [block : Nat, def : STRING, retP : Nat]

(***************************************************************************)
(* "rejected" is a failed load that rolled back, "abandoned" one that      *)
(* returned without.  The rest are assertions that fail, a read past the   *)
(* last token, and a rollback that frees block infos nobody filled in.     *)
(***************************************************************************)
Crashes == { "assertEnd", "assertScope", "assertDef", "noToken", "badFree" }

Phases == { "tree", "load", "loaded", "rejected", "abandoned", "executed" } \union Crashes

LoaderTypeOK ==
  /\ TypeOK
  /\ infos \in Seq(LoadBlockInfo)
  /\ callStack \in Seq(LoadCall)
  /\ p \in 1..(Len(toks) + 1)
  /\ phase \in Phases
  /\ error \in { "NONE", "Syntax", "UnkWord" }

-------------------------------------------------------------------------------
(* The loader's helpers. *)

End == Len(toks) + 1

Tok == toks[p]

Cur == Last(callStack).block

Global(i) == prior + i

NewInfo(scope, begin) ==
  [scope |-> scope, begin |-> begin, end |-> None, loaded |-> FALSE,
   defs |-> << >>, vars |-> << >>]

EmptyBlock == [varCount |-> 0, code |-> << >>, calleeCount |-> 0, base |-> 1]

(* A block and the blocks around it, whose numbers are smaller. *)
Scopes(i) ==
  LET chain[s \in 0..Len(infos)] ==
        IF s = None THEN {} ELSE {s} \union chain[infos[s].scope]
  IN chain[i]

Knows(table, name) == \E k \in DOMAIN table : table[k].name = name

(* The entry a table lookup returns: the first of that name. *)
First(table, name) ==
  table[CHOOSE k \in DOMAIN table :
          /\ table[k].name = name
          /\ \A j \in 1..(k - 1) : table[j].name # name]

(* SR_manaLoadFindVar and SR_manaLoadFindDef: the innermost scope that      *)
(* knows the name answers.                                                  *)
VarScopes(name) == { s \in Scopes(Cur) : Knows(infos[s].vars, name) }
DefScopes(name) == { s \in Scopes(Cur) : Knows(infos[s].defs, name) }

(* Faulty: slots are counted from one. *)
FindVarNext(name) == [First(infos[Max(VarScopes(name))].vars, name) EXCEPT !.var = @ + 1]

FindVar(name) == First(infos[Max(VarScopes(name))].vars, name)
FindDef(name) == First(infos[Max(DefScopes(name))].defs, name)

(* SR_manaLoadFindBlock: the first block that begins at k. *)
FindBlock(k) == Min({ i \in DOMAIN infos : infos[i].begin = k })

Crash(f) == phase' = f /\ UNCHANGED << blockVars, toks, prior, infos, callStack, p, error >>

(* SR_manaLoadBlocksRollback hands one number to two tables: the blocks of  *)
(* the context, where it is right, and infos, whose indices are local.      *)
Reject(e) ==
  /\ BlocksRollback(prior)
  /\ infos' = SubSeq(infos, 1, Min({prior, Len(infos)}))
  /\ error' = e
  /\ phase' \in IF prior <= Len(infos) THEN {"rejected"} ELSE {"rejected", "badFree"}
  /\ UNCHANGED << toks, prior, callStack, p >>

-------------------------------------------------------------------------------
(* The first pass. *)

MoveTo(k) == p' = k /\ UNCHANGED << toks, prior, phase, error >>

LoadInit ==
  /\ \E l \in Loads : toks = l.toks /\ prior = l.prior
  /\ blockTable = [b \in 1..(prior + 1) |-> EmptyBlock]
  /\ code = << >> /\ codeUpdated = FALSE /\ linked = {} /\ unlinked = {}
  /\ infos = << NewInfo(None, 1) >>
  /\ callStack = << [block |-> 1, def |-> NoName, retP |-> None] >>
  /\ p = 1 /\ phase = "tree" /\ error = "NONE"

(* SR_manaLoadBlockDefTreeCallback: the block ends at p, and its scope       *)
(* learns its name.                                                          *)
Closed ==
  LET ended == [infos EXCEPT ![Cur].end = p]
      name  == Last(callStack).def
  IN IF name = NoName THEN ended
     ELSE [ended EXCEPT ![infos[Cur].scope].defs =
                          Append(@, [name |-> name, block |-> Cur])]

(* Faulty: the token after the brace is skipped as well. *)
OpenBlockPast(k, name) ==
  /\ BlockNew
  /\ infos' = Append(infos, NewInfo(Cur, k))
  /\ callStack' = Append(callStack, [block |-> Len(infos) + 1, def |-> name, retP |-> None])
  /\ MoveTo(k + 2)

(* SR_manaLoadBlockNew for the block that begins at k. *)
OpenBlock(k, name) ==
  /\ BlockNew
  /\ infos' = Append(infos, NewInfo(Cur, k))
  /\ callStack' = Append(callStack, [block |-> Len(infos) + 1, def |-> name, retP |-> None])
  /\ MoveTo(k + 1)

InTree == phase = "tree"

TreeEnd ==
  /\ InTree /\ p = End
  /\ Len(callStack) = 1
  /\ infos' = [Closed EXCEPT ![1].loaded = TRUE]
  /\ p' = 1 /\ phase' = "load"
  /\ UNCHANGED << blockVars, toks, prior, callStack, error >>

TreeUnclosed ==
  /\ InTree /\ p = End
  /\ Len(callStack) > 1
  /\ Reject("Syntax")

TreeClose ==
  /\ InTree /\ p # End /\ Tok = "}"
  /\ Len(callStack) > 1
  /\ infos' = Closed
  /\ callStack' = Front(callStack)
  /\ MoveTo(p + 1)
  /\ UNCHANGED blockVars

TreeUnopened ==
  /\ InTree /\ p # End /\ Tok = "}"
  /\ Len(callStack) = 1
  /\ Reject("Syntax")

TreeOpen ==
  /\ InTree /\ p # End /\ Tok = "{"
  /\ OpenBlock(p, NoName)

TreeDef ==
  /\ InTree /\ p # End /\ Tok \in DOMAIN DefOf
  /\ p + 1 # End /\ toks[p + 1] = "{"
  /\ OpenBlock(p + 1, DefOf[Tok])

(* A name without a block.  After the last token the lookup reads past the   *)
(* token table, and finds no brace there or crashes.                         *)
TreeBadDef ==
  /\ InTree /\ p # End /\ Tok \in DOMAIN DefOf
  /\ p + 1 # End => toks[p + 1] # "{"
  /\ Reject("Syntax")

TreeLostDef ==
  /\ InTree /\ p # End /\ Tok \in DOMAIN DefOf
  /\ p + 1 = End
  /\ Crash("noToken")

TreeOther ==
  /\ InTree /\ p # End /\ Tok \notin {"{", "}"} \union DOMAIN DefOf
  /\ MoveTo(p + 1)
  /\ UNCHANGED << blockVars, infos, callStack >>

-------------------------------------------------------------------------------
(* The second pass. *)

InLoad == phase = "load" /\ p # End

LoadEnd ==
  /\ phase = "load" /\ p = End
  /\ Len(callStack) = 1
  /\ callStack' = << >>
  /\ phase' = "loaded"
  /\ UNCHANGED << blockVars, toks, prior, infos, p, error >>

(* The source ends inside a block: an error, but nothing is rolled back. *)
LoadUnclosed ==
  /\ phase = "load" /\ p = End
  /\ Len(callStack) > 1
  /\ phase' = "abandoned" /\ error' = "Syntax"
  /\ UNCHANGED << blockVars, toks, prior, infos, callStack, p >>

(***************************************************************************)
(* The end of a block: back to the token that asked for it.  The root ends *)
(* at End, so the Syntax error the C has for a brace at the root lies      *)
(* behind the assertion that fails there.                                  *)
(***************************************************************************)
LoadClose ==
  /\ InLoad /\ Tok = "}"
  /\ infos[Cur].end = p
  /\ callStack' = Front(callStack)
  /\ MoveTo(Last(callStack).retP)
  /\ UNCHANGED << blockVars, infos >>

(* assert(curBlkInfo->end == p) *)
LoadMisplacedClose ==
  /\ InLoad /\ Tok = "}"
  /\ infos[Cur].end # p
  /\ Crash("assertEnd")

(* Faulty: the word that asked for the block is not looked at again. *)
EnterAndSkip(i) ==
  /\ infos' = [infos EXCEPT ![i].loaded = TRUE]
  /\ callStack' = Append(callStack, [block |-> i, def |-> NoName, retP |-> p + 1])
  /\ MoveTo(infos[i].begin + 1)
  /\ UNCHANGED blockVars

(* Load block i first, then come back to this token. *)
Enter(i) ==
  /\ infos' = [infos EXCEPT ![i].loaded = TRUE]
  /\ callStack' = Append(callStack, [block |-> i, def |-> NoName, retP |-> p])
  /\ MoveTo(infos[i].begin + 1)
  /\ UNCHANGED blockVars

Word == InLoad /\ UNCHANGED << infos, callStack >>

(* FindBlock finds a block: the first pass made one for every brace. *)
LoadOpen ==
  /\ InLoad /\ Tok = "{"
  /\ ~ infos[FindBlock(p)].loaded
  /\ Enter(FindBlock(p))

(* Faulty: after the block's value is pushed, its text is read once more. *)
ReadBlockAgain ==
  /\ Word /\ Tok = "{"
  /\ infos[FindBlock(p)].loaded
  /\ infos[FindBlock(p)].scope = Cur
  /\ AddInstPushBlock(Global(Cur), Global(FindBlock(p)))
  /\ MoveTo(p)

LoadBlockValue ==
  /\ Word /\ Tok = "{"
  /\ infos[FindBlock(p)].loaded
  /\ infos[FindBlock(p)].scope = Cur
  /\ AddInstPushBlock(Global(Cur), Global(FindBlock(p)))
  /\ MoveTo(infos[FindBlock(p)].end + 1)

(* assert(curBlk.id == blkInfo->scope.id) *)
LoadForeignBlock ==
  /\ InLoad /\ Tok = "{"
  /\ infos[FindBlock(p)].loaded
  /\ infos[FindBlock(p)].scope # Cur
  /\ Crash("assertScope")

(* Where the list of variables that begins at p ends. *)
ListEnds == { k \in (p + 1)..Len(toks) : toks[k] = "]" }

(* Faulty: the first name of the list is bound first. *)
BoundInOrder(names) == names

(* The last name is on top of the stack, so it is bound first. *)
BoundFirst(names) == Reverse(names)

(* SR_blockAddInstPopVar for each name of the list. *)
LoadVars ==
  /\ InLoad /\ Tok = "["
  /\ ListEnds # {}
  /\ LET close == Min(ListEnds)
         names == BoundFirst(SubSeq(toks, p + 1, close - 1))
         b     == Global(Cur)
         n     == blockTable[b].varCount
     IN /\ infos' = [infos EXCEPT ![Cur].vars =
                       @ \o [k \in 1..Len(names) |-> [name |-> names[k], var |-> n + k - 1]]]
        /\ TotalInsts + Len(names) <= MaxInsts
        /\ blockTable' =
             [blockTable EXCEPT
                ![b].code = @ \o [k \in 1..Len(names) |-> Inst("PopVar", n + k - 1)],
                ![b].varCount = @ + Len(names)]
        /\ Outdate
        /\ MoveTo(close + 1)
  /\ UNCHANGED callStack

(* A list that is never closed: the loop reads past the last token. *)
LoadOpenList ==
  /\ InLoad /\ Tok = "["
  /\ ListEnds = {}
  /\ Crash("noToken")

(* The definition at p is the one its name finds. *)
DefHere ==
  /\ DefScopes(DefOf[Tok]) # {}
  /\ infos[FindDef(DefOf[Tok]).block].begin = p + 1

(* A definition is skipped; its block ends with a brace. *)
LoadDef ==
  /\ Word /\ Tok \in DOMAIN DefOf
  /\ DefHere
  /\ MoveTo(infos[FindDef(DefOf[Tok]).block].end + 1)
  /\ UNCHANGED blockVars

(* assert(defInfo) and assert(defBlkInfo->begin == p + 1) *)
LoadForeignDef ==
  /\ InLoad /\ Tok \in DOMAIN DefOf
  /\ ~ DefHere
  /\ Crash("assertDef")

(***************************************************************************)
(* The other words: in the order of the code, "#", then a variable, a      *)
(* definition, an operator, a literal; a quoted token is a literal only.   *)
(***************************************************************************)
Structural == {"{", "}", "["} \union DOMAIN DefOf
PlainWord == Tok \notin Structural \union Quoted
IsVar == PlainWord /\ Tok # "#" /\ VarScopes(Tok) # {}
IsDef == PlainWord /\ Tok # "#" /\ ~ IsVar /\ DefScopes(Tok) # {}
IsOther == PlainWord /\ Tok # "#" /\ ~ IsVar /\ ~ IsDef

LoadApply ==
  /\ Word /\ Tok = "#" /\ PlainWord
  /\ AddInstApply(Global(Cur))
  /\ MoveTo(p + 1)

LoadVar ==
  /\ Word /\ IsVar
  /\ AddInstPushVar(Global(Cur), FindVar(Tok).var)
  /\ MoveTo(p + 1)

LoadCallee ==
  /\ InLoad /\ IsDef
  /\ ~ infos[FindDef(Tok).block].loaded
  /\ Enter(FindDef(Tok).block)

LoadCallInst ==
  /\ Word /\ IsDef
  /\ infos[FindDef(Tok).block].loaded
  /\ AddInstCall(Global(Cur), Global(FindDef(Tok).block))
  /\ MoveTo(p + 1)

LoadOpr ==
  /\ Word /\ IsOther /\ Tok \in DOMAIN OprOf
  /\ AddInstOpr(Global(Cur), OprOf[Tok])
  /\ MoveTo(p + 1)

LoadImm ==
  /\ Word /\ IsOther /\ Tok \notin DOMAIN OprOf /\ Tok \in DOMAIN LiteralOf
  /\ AddInstPushImm(Global(Cur), LiteralOf[Tok])
  /\ MoveTo(p + 1)

LoadUnknown ==
  /\ InLoad /\ Tok \notin Structural
  /\ PlainWord => IsOther /\ Tok \notin DOMAIN OprOf \union DOMAIN LiteralOf
  /\ Reject("UnkWord")

LoadStep ==
  \/ TreeEnd \/ TreeUnclosed \/ TreeClose \/ TreeUnopened \/ TreeOpen
  \/ TreeDef \/ TreeBadDef \/ TreeLostDef \/ TreeOther
  \/ LoadEnd \/ LoadUnclosed \/ LoadClose \/ LoadMisplacedClose
  \/ LoadOpen \/ LoadBlockValue \/ LoadForeignBlock
  \/ LoadVars \/ LoadOpenList \/ LoadDef \/ LoadForeignDef
  \/ LoadApply \/ LoadVar \/ LoadCallee \/ LoadCallInst
  \/ LoadOpr \/ LoadImm \/ LoadUnknown

LoadSpec == LoadInit /\ [][LoadStep]_manaVars

-------------------------------------------------------------------------------
(* The source read without the loader's tables. *)

(* How many more braces open than close from j to k. *)
Opening(j, k) ==
  Cardinality({ i \in j..k : toks[i] = "{" }) - Cardinality({ i \in j..k : toks[i] = "}" })

(* The braces position k lies inside; Nowhere is outside all of them. *)
Nowhere == 0

Around(k) ==
  { j \in 1..(k - 1) : toks[j] = "{" /\ \A m \in j..(k - 1) : Opening(j, m) > 0 }

Owner(k) == Max(Around(k) \union {Nowhere})

(* Position k is a name in a list of variables. *)
Listed(k) ==
  \E l \in 1..(k - 1) :
    toks[l] = "[" /\ \A m \in (l + 1)..k : toks[m] \notin {"[", "]"}

Defines(k) == toks[k] \in DOMAIN DefOf

(* Every list of variables is closed and holds names only. *)
ListsHoldNames ==
  \A l \in 1..Len(toks) : toks[l] = "[" =>
    \E r \in (l + 1)..Len(toks) :
      /\ toks[r] = "]"
      /\ \A k \in (l + 1)..(r - 1) : toks[k] \notin Structural

(***************************************************************************)
(* What the assertions of the loader take for granted and nothing checks:  *)
(* the source does not begin with a block, every list is closed and holds  *)
(* names only, no scope defines a name twice, no name comes last; and the  *)
(* context is new, or almost.                                              *)
(***************************************************************************)
WellFormed ==
  /\ toks # << >> => toks[1] # "{"
  /\ ListsHoldNames
  /\ \A i, j \in 1..Len(toks) :
       i # j /\ toks[i] = toks[j] /\ Defines(i) => Owner(i) # Owner(j)
  /\ toks # << >> => ~ Defines(Len(toks))
  /\ prior <= 1

(* The positions of the source that owe block i an instruction, in order. *)
OwnedBy(i) == { k \in 1..Len(toks) : Owner(k) = IF i = 1 THEN Nowhere ELSE infos[i].begin }

(* Position k closes a list of variables. *)
Closes(k) == toks[k] = "]" /\ k > 1 /\ (toks[k - 1] = "[" \/ Listed(k - 1))

Emits(k) ==
  /\ toks[k] \notin {"}", "["}
  /\ ~ Closes(k)
  /\ ~ Defines(k)
  /\ toks[k] = "{" /\ k > 1 => ~ Defines(k - 1)

(***************************************************************************)
(* Instruction inst is what position k means: a block's value, a binding,  *)
(* a variable bound in a scope around k (in its own block if it was bound  *)
(* there before), a call of the innermost definition, ...                  *)
(***************************************************************************)
LoadedAt(a, k) ==
  a > prior /\ infos[a - prior].begin = k /\ infos[a - prior].loaded

SlotOf(l) == Cardinality({ k \in 1..Len(toks) :
  /\ Listed(k) /\ Owner(k) = Owner(l)
  /\ \/ k < l /\ \E m \in k..l : toks[m] = "]"
     \/ k > l /\ \A m \in l..k : toks[m] # "]" })

Bindings(k) == { l \in 1..Len(toks) :
  Listed(l) /\ toks[l] = toks[k] /\ Owner(l) \in Around(k) \union {Nowhere} }

OwnBindings(k) == { l \in Bindings(k) : Owner(l) = Owner(k) /\ l < k }

Definitions(k) == { d \in 1..Len(toks) :
  Defines(d) /\ DefOf[toks[d]] = toks[k] /\ Owner(d) \in Around(k) \union {Nowhere} }

Means(k, inst) ==
  \/ inst.op = "PushBlock" /\ toks[k] = "{" /\ LoadedAt(inst.arg, k)
  \/ inst.op = "PopVar" /\ Listed(k)
  \/ /\ inst.op = "PushVar"
     /\ \E l \in IF OwnBindings(k) # {} THEN OwnBindings(k) ELSE Bindings(k) :
          inst.arg = SlotOf(l)
  \/ /\ inst.op = "Call"
     /\ OwnBindings(k) = {}
     /\ \E d \in Definitions(k) :
          /\ \A e \in Definitions(k) : Owner(e) <= Owner(d)
          /\ LoadedAt(inst.arg, d + 1)
  \/ inst.op = "Apply" /\ toks[k] = "#"
  \/ inst.op = "Opr" /\ toks[k] \in DOMAIN OprOf /\ inst.arg = OprOf[toks[k]]
  \/ inst.op = "PushImm" /\ toks[k] \in DOMAIN LiteralOf /\ inst.arg = LiteralOf[toks[k]]

-------------------------------------------------------------------------------
(* The properties. *)

(***************************************************************************)
(* A source that compiles and has nothing but names in its lists is        *)
(* compiled faithfully, in whatever order its words made the loader visit  *)
(* the blocks and whatever the context held before: each block that was    *)
(* loaded has one instruction for each of its own words, in their order,   *)
(* and each says what the word means; the blocks it names are loaded too.  *)
(***************************************************************************)
Faithful ==
  phase = "loaded" /\ ListsHoldNames =>
    \A i \in DOMAIN infos : infos[i].loaded =>
      LET words == { k \in OwnedBy(i) : Emits(k) }
          insts == blockTable[Global(i)].code
      IN /\ Len(insts) = Cardinality(words)
         /\ \A k \in words : Means(k, insts[Cardinality({ j \in words : j <= k })])

(***************************************************************************)
(* On a well-formed source no assertion of the loader fails, nothing is    *)
(* read past the tokens, and every error goes through the rollback.  On    *)
(* any source a load that was rolled back leaves the context with the      *)
(* blocks it had.                                                          *)
(***************************************************************************)
SafeLoad ==
  /\ WellFormed => phase \notin Crashes \union {"abandoned"}
  /\ phase = "rejected" => Len(blockTable) = prior

(* assert(curBlk.id == blkInfo->scope.id): a block value belongs to the block *)
(* that is being loaded.                                                     *)
ScopeAssertion == phase # "assertScope"

(* assert(defBlkInfo->begin == p + 1): a definition's name finds that         *)
(* definition.                                                               *)
DefAssertion == phase # "assertDef"
===============================================================================
