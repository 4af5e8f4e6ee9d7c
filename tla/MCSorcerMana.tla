---------------------------- MODULE MCSorcerMana ----------------------------
(***************************************************************************)
(* Instances of SorcerMana for TLC: all short token sequences, and longer  *)
(* ones whose braces and lists match.                                      *)
(***************************************************************************)
EXTENDS SorcerMana

CONSTANT AnyLength  \* the length up to which every token sequence is a source

MCDefOf == ("f:" :> "f") @@ ("g:" :> "g")
MCOprOf == ("+" :> 2)
MCLiteralOf == ("1" :> 1)
MCQuoted == {"'"}

Alphabet == { "{", "}", "[", "]", "#", "f:", "f", "x", "1", "+", "'" }

Short == BoundedSeq(Alphabet, AnyLength)

Words == { <<w>> : w \in {"x", "f", "g", "1"} }
Lists == { << "[", "x", "]" >>, << "[", "x", "y", "]" >> }

Pairs(A, B) == { a \o b : a \in A, b \in B } \union A \union B \union { << >> }

Flat == Pairs(Words \union Lists, { <<"x">>, <<"f">> })

Braced(S) == { <<"{">> \o s \o <<"}">> : s \in S }
Named(S) == { <<"f:">> \o s : s \in Braced(S) } \union { <<"g:">> \o s : s \in Braced(S) }

Items == Words \union Lists \union Braced(Flat) \union Named(Flat)

Nested == Named({ a \o b : a \in Braced(Words) \union Named(Words), b \in Words \union Lists })

Long ==
  { a \o b \o c : a \in Items, b \in Items, c \in { <<"x">>, <<"f">> } }
    \union { a \o b \o c : a \in Lists \union {<<"f">>}, b \in Nested, c \in Pairs(Words, Words) }

(* A list that swallows the closing brace of the block it is in. *)
Swallowing == { <<"1", "{", "[">> \o s : s \in { <<"}", "]">>, <<"x", "}", "]">> } }

(* Lists that hold braces: the name inside is bound outside them. *)
Hiding == { <<"[", "{", "x", "}", "]">> \o s : s \in Braced(Words) \union Words }

MCSources == Short \union Long \union Swallowing \union Hiding

(* What is loaded into a context that holds two blocks already. *)
MCLater ==
  BoundedSeq(Alphabet, AnyLength - 1) \union Swallowing \union Hiding
    \union { a \o b \o << "x" >> : a \in Lists \union {<<"f">>}, b \in Nested }

MCLoads == [toks : MCSources, prior : {0}] \union [toks : MCLater, prior : {2}]
===============================================================================
