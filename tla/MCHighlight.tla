----------------------------- MODULE MCHighlight -----------------------------
(***************************************************************************)
(* Two threads: one whose tree-sitter allocates, one whose block holds the  *)
(* captures. Both race for the first lookup of a grammar, and either may    *)
(* look it up while the other's block is under way.                         *)
(***************************************************************************)
EXTENDS Highlight

CONSTANTS t1, t2, c, broken

MCCode      == t1 :> <<>> @@ t2 :> <<"x", "x", "nl", "x">>
MCMaxBlocks == t1 :> 1 @@ t2 :> 1
MCMaxCalls  == t1 :> 2 @@ t2 :> 0
MCMaxCaptures == t1 :> 0 @@ t2 :> 3

Node(node, start, end) == [node |-> node, start |-> start, end |-> end]
Outer == Node(1, 0, 4)
Inner == Node(2, 1, 4)
Word  == Node(3, 0, 1)
Inserted == Node(4, 3, 3)   \* zero-width, as error recovery inserts
Named(node, name, text) ==
  node @@ [name |-> name, text |-> text, isPrivate |-> name = "_test"]

Equals(of, text, isNegated) ==
  [of |-> of, texts |-> {text}, isNegated |-> isNegated, isLocal |-> FALSE]
IsNotLocal == [of |-> "none", texts |-> {}, isNegated |-> FALSE, isLocal |-> TRUE]

MCMatches == <<
  [captures |-> <<Named(Outer, "comment", "a"), Named(Inner, "string", "b")>>, predicates |-> {IsNotLocal}],
  [captures |-> <<Named(Word, "keyword", "w"), Named(Inserted, "error", "")>>,
   predicates |-> {Equals("keyword", "w", FALSE)}],
  [captures |-> <<Named(Outer, "_test", "a")>>, predicates |-> {Equals("_test", "a", TRUE)}],
  [captures |-> <<Named(Word, "_type", "w")>>, predicates |-> {}] >>
=============================================================================
