-------------------------- MODULE MCManifestTrie ---------------------------
(***************************************************************************)
(* Paths that nest, differ in case, and whose hashes of one digit differ or *)
(* agree: a path can be the root, a child, or below the last digit of its   *)
(* hash.                                                                    *)
(***************************************************************************)
EXTENDS ManifestTrie

LowerCase == [n \in {"x", "X", "y", "z"} |-> IF n = "X" THEN "x" ELSE n]

MCPaths == {<<"x">>, <<"X">>, <<"x", "y">>, <<"X", "y", "z">>}

(* Every spelling has a hash, so that a run can tell which one is used. *)
MCHash ==
  [path \in MCPaths \cup {<<"X", "y">>, <<"x", "y", "z">>} |->
     IF path \in {<<"x">>, <<"X", "y">>, <<"X", "y", "z">>} THEN <<0>> ELSE <<1>>]

=============================================================================
