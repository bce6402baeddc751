-------------------------------- MODULE MCWalk ------------------------------
(***************************************************************************)
(* Small trees: a content directory, an output directory beside it, and a   *)
(* directory elsewhere, with symlinks between them in both directions, into *)
(* their own ancestry, and before and after what they lead to in byte order.*)
(***************************************************************************)
EXTENDS Walk, TLC

MCNames == {"content", "public", "other", "a", "b", "c"}
MCNodes == {"root", "content", "public", "other", "d1", "d2", "d3", "f", "g", "l1", "l2", "l3"}
MCEntryName == [n \in MCNames |-> n]
MCByteOrder == [content |-> 4, public |-> 5, other |-> 6, a |-> 1, b |-> 2, c |-> 3]

Entries(a, b, c) == "a" :> a @@ "b" :> b @@ "c" :> c

Tree(content, d1, other, l1, l2, l3) ==
  [n \in MCNodes |->
     CASE n = "root" -> DirOf("root", "content" :> "content" @@ "public" :> "public"
                                        @@ "other" :> "other" @@ "a" :> "l3")
       [] n = "content" -> DirOf("root", content)
       [] n = "d1" -> DirOf("content", d1)
       [] n = "other" -> DirOf("root", other)
       [] n = "d2" -> DirOf("other", "a" :> "f")
       [] n = "public" -> DirOf("root", "a" :> "g" @@ "b" :> "d3")
       [] n = "d3" -> DirOf("public", "a" :> "g")
       [] n = "l1" -> LinkTo(l1)
       [] n = "l2" -> LinkTo(l2)
       [] n = "l3" -> LinkTo(l3)
       [] n \in {"f", "g"} -> FileOf(Old)]

(* From the content directory and from the one elsewhere: to a sibling, to  *)
(* the directory's own ancestry, elsewhere, to the output directory, to a   *)
(* file, nowhere, through a file, to itself.                                *)
Targets ==
  {<<"b">>, <<Up>>, <<Up, "other">>, <<Up, "other", "b">>, <<Up, "public">>, <<"c", "a">>,
   <<Up, "b">>, <<Up, "content">>}

WalkTrees ==
  {Tree(Entries(ca, "d1", cc), Entries(da, None, None), Entries("f", "d2", oc), l1, l2, <<"content">>) :
     ca \in {"l1", "f"}, cc \in {"l2", "f"}, da \in {"l1", "f"}, oc \in {"l1", "l2"},
     l1, l2 \in Targets}

WalkSearches ==
  {[root |-> root, excluded |-> excluded] :
     root \in {<<"content">>, <<"a">>}, excluded \in {<<"public">>, <<"c">>}}

(* A symlink to a directory of the output directory. *)
BehindTrees ==
  {Tree(Entries("l1", "d1", cc), Entries("f", None, None), Entries("f", "d2", None), l1,
        <<Up, "other">>, <<"content">>) :
     cc \in {"l2", "f"}, l1 \in {<<Up, "public">>, <<Up, "public", "b">>}}
=============================================================================
