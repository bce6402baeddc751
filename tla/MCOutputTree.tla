---------------------------- MODULE MCOutputTree ----------------------------
(***************************************************************************)
(* Small trees: a content directory with a file and a directory, a static   *)
(* directory, a directory that is neither, and an output directory in which *)
(* the user put files, directories, symlinks, a hard link to an input, or a *)
(* mount of the content directory.                                          *)
(***************************************************************************)
EXTENDS OutputTree

MCNames == {"content", "static", "public", "other", "config", "sub", "new", "link", "x", "y", "X"}
MCNodes == {"root", "content", "sub", "static", "public", "other", "d1", "d2", "config", "src",
            "out", "far", "l1", "l2", "l3", "n1", "n2", "n3", "n4", "n5", "n6", "n7"}
KeepCase == [n \in MCNames |-> n]
FoldCase == [KeepCase EXCEPT !["X"] = "x"]
MCRootDirs == {<<"content">>, <<"static">>}
MCConfig == <<"config">>

Entries(x, y) == "x" :> x @@ "y" :> y

(* A tree by what its directories hold and where its symlinks lead. *)
Tree(top, public, d1, d2, l1, l2) ==
  [n \in MCNodes |->
     CASE n = "root" -> DirOf("root", top @@ "content" :> "content" @@ "other" :> "other"
                                          @@ "config" :> "config")
       [] n = "content" -> DirOf("root", "x" :> "src" @@ "sub" :> "sub")
       [] n = "sub" -> DirOf("content", <<>>)
       [] n = "static" -> DirOf("public", <<>>)
       [] n = "public" -> DirOf("root", public)
       [] n = "other" -> DirOf("root", "x" :> "far")
       [] n = "d1" -> DirOf("public", d1)
       [] n = "d2" -> DirOf("public", d2)
       [] n = "l1" -> LinkTo(l1)
       [] n = "l2" -> LinkTo(l2)
       [] n = "l3" -> LinkTo(<<"public", "sub">>)
       [] n \in {"config", "src", "out", "far"} -> FileOf(Old)
       [] OTHER -> Free]

Start(tree, dir, paths, isDry) ==
  [fs |-> tree, dir |-> dir, claims |-> paths, dry |-> isDry]

Public == "public" :> "public"

-----------------------------------------------------------------------------
(* Pages below an output directory with a directory, files and symlinks: a  *)
(* page may be reached through any of them.                                 *)
PageClaims == {<<<<"x">>, <<"y">>>>, <<<<"x", "x">>, <<"y">>>>, <<<<"x", "y">>>>, <<<<"new">>>>}

(* Where a link leads: the content directory, elsewhere, the other entry,   *)
(* a file elsewhere, itself, through a file.                                *)
PlainTargets ==
  {<<Up, "content">>, <<Up, "other">>, <<"x">>, <<Up, Up, "other", "x">>, <<"y">>,
   <<Up, "other", "x", "x">>}

PageTrees(targets) ==
  {Tree(Public, Entries(px, py), Entries(dx, dy), <<>>, l1, <<Up, "x">>) :
     px \in {"out", "l1", "d1", "src", "content", None}, py \in {"l1", "out", None},
     dx \in {"out", "l2", None}, dy \in {"l2", None}, l1 \in targets}

BuildStarts ==
  {Start(tree, <<"public">>, paths, FALSE) : tree \in PageTrees(PlainTargets), paths \in PageClaims}

(* The same with a directory below the content directory as a target: the   *)
(* output is written among the inputs, and RootsHoldNoOutput does not hold. *)
(* README.md tells why; no configuration starts from these trees.           *)
SubStarts ==
  {Start(tree, <<"public">>, <<<<"y", "x">>>>, FALSE) :
     tree \in PageTrees({<<Up, "content", "sub">>})}

-----------------------------------------------------------------------------
(* Ways to spell output_dir, with static_dir elsewhere, below it, behind a  *)
(* symlink, or missing.                                                     *)
OutputDirs ==
  {<<"public">>, <<"other">>, <<"other", Up>>, <<"content">>, <<"content", "sub">>,
   <<"content", "new">>, <<"content", "new", Up, Up, "new">>, <<"new">>, <<"new", "sub">>,
   <<"new", Up, "content", "new">>, <<"new", Up, "new">>, <<"link">>, <<"link", "new">>,
   <<"link", Up, "new">>}

LinkTargets ==
  {<<"content">>, <<"content", "sub">>, <<"content", "new">>, <<"public">>, <<"other", Up>>,
   <<"link">>}

SpellingStarts ==
  {Start(Tree(Public @@ "link" :> "l1" @@ "static" :> static, Entries("out", None) @@ "sub" :> "static",
              <<>>, <<>>, target, <<>>), dir, <<<<"x">>>>, FALSE) :
     static \in {"l3", None}, target \in LinkTargets, dir \in OutputDirs}

-----------------------------------------------------------------------------
(* Outputs below a directory without links, or none yet, whose paths differ *)
(* in case, nest or repeat.                                                 *)
Spellings == {<<"x">>, <<"X">>, <<"x", "y">>, <<"X", "x">>, <<"y">>, <<"x", "x", "y">>}

FreshStarts ==
  {Start(Tree(top, Entries(None, None), <<>>, <<>>, <<>>, <<>>), <<"public">>, <<a, b, c>>, FALSE) :
     top \in {Public, <<>>}, a, b, c \in Spellings}

-----------------------------------------------------------------------------
(* A dry run and the build after it, below an output directory whose links  *)
(* lead elsewhere, or into another directory that is stale.                 *)
PredictTrees(targets) ==
  {Tree(Public, Entries(px, py), Entries(dx, dy), Entries(None, "far"), <<Up, "other">>, l2) :
     px \in {"d1", "out", None}, py \in {"d2", "l1", None}, dx \in {"out", None},
     dy \in {"l2", None}, l2 \in targets}

PredictStarts ==
  {Start(tree, <<"public">>, paths, TRUE) :
     tree \in PredictTrees({<<Up, Up, "other">>, <<Up, Up, "other", "x">>}), paths \in PageClaims}

(* A symlink that leads nowhere in a stale directory: the removal that the  *)
(* dry run listed fails, and PrunePredicted does not hold (README.md).      *)
StaleTargetStarts ==
  {Start(tree, <<"public">>, <<<<"new">>>>, TRUE) : tree \in PredictTrees({<<Up, "y", "y">>})}

MCStarts == BuildStarts \cup SpellingStarts \cup FreshStarts \cup PredictStarts

=============================================================================
