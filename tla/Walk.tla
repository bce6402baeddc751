-------------------------------- MODULE Walk --------------------------------
(***************************************************************************)
(* walk_files_with_suffixes of runtime/walk.c: the search of an input tree. *)
(* It goes depth first in byte order, keeps the identities of the           *)
(* directories it visited, and comes to a symlinked directory only when     *)
(* every directory that needs no symlink is done.  Every file matches.      *)
(***************************************************************************)
EXTENDS HostTree

CONSTANTS Trees,     \* the trees to search
          Searches,  \* the directories searched, each with the one left out
          ByteOrder  \* each name's place in byte order

ASSUME WalkAssumption ==
  /\ \A tree \in Trees : IsTree(tree)
  /\ ByteOrder \in [Names -> Nat]
  /\ \A a, b \in Names : ByteOrder[a] = ByteOrder[b] => a = b
  /\ Searches \subseteq [root : Paths, excluded : Paths]

VARIABLES fs,      \* the file system, which stays as it is
          search,  \* root_dir and excluded_dir
          pc,      \* "walk", "ok" or "failed"
          next,    \* the directory visit_dir is called for, or None
          stack,   \* the directories visit_dir is in, the innermost last
          visited, \* Walk.visited
          links,   \* Walk.links, those left
          paths    \* Walk.paths

vars == <<fs, search, pc, next, stack, visited, links, paths>>

(* walk_files_with_suffixes_exclude *)
Init ==
  /\ fs \in Trees /\ search \in Searches
  /\ pc = "walk" /\ next = search.root
  /\ stack = <<>> /\ links = <<>> /\ paths = <<>>
  /\ visited = {Identity(fs, search.excluded)} \ {None}

-----------------------------------------------------------------------------
(* The entries of a directory in byte order. *)
InOrder(entries) ==
  CHOOSE order \in [1..Cardinality(entries) -> entries] :
    \A i, j \in 1..Cardinality(entries) :
      i < j => ByteOrder[order[i].name] < ByteOrder[order[j].name]

Fail == pc' = "failed" /\ UNCHANGED <<next, stack, visited, links, paths>>

(* Mutant: a directory is not remembered. *)
VisitDirAgain ==
  /\ pc = "walk" /\ next # None
  /\ LET dir == Identity(fs, next)
     IN IF dir = None \/ (dir \notin visited /\ fs[dir].kind # "dir")
        THEN Fail
        ELSE /\ next' = None
             /\ stack' = IF dir \in visited THEN stack
                         ELSE Append(stack, [dir |-> next, left |-> InOrder(Listing(fs, dir))])
             /\ UNCHANGED <<pc, visited, links, paths>>
  /\ UNCHANGED <<fs, search>>

(* visit_dir: a directory that was visited, or is left out, is skipped. *)
VisitDir ==
  /\ pc = "walk" /\ next # None
  /\ LET dir == Identity(fs, next)
     IN IF dir = None \/ (dir \notin visited /\ fs[dir].kind # "dir")
        THEN Fail
        ELSE /\ next' = None /\ visited' = visited \cup {dir}
             /\ stack' = IF dir \in visited THEN stack
                         ELSE Append(stack, [dir |-> next, left |-> InOrder(Listing(fs, dir))])
             /\ UNCHANGED <<pc, links, paths>>
  /\ UNCHANGED <<fs, search>>

IsInDir == pc = "walk" /\ next = None /\ stack # <<>>

Top == Last(stack)
Entry == Head(Top.left)
EntryPath == Append(Top.dir, Entry.name)
WithoutEntry == [stack EXCEPT ![Len(stack)].left = Tail(@)]

(* Mutant: a symlink is followed where it is found. *)
FollowAtOnce ==
  /\ IsInDir /\ Top.left # <<>> /\ Entry.kind = "dirlink"
  /\ next' = EntryPath /\ stack' = WithoutEntry
  /\ UNCHANGED <<fs, search, pc, visited, links, paths>>

(* visit_dir_entry, by the kind of the entry. *)
DeferLink ==
  /\ IsInDir /\ Top.left # <<>> /\ Entry.kind = "dirlink"
  /\ links' = Append(links, EntryPath) /\ stack' = WithoutEntry
  /\ UNCHANGED <<fs, search, pc, next, visited, paths>>

EnterDir ==
  /\ IsInDir /\ Top.left # <<>> /\ Entry.kind = "dir"
  /\ next' = EntryPath /\ stack' = WithoutEntry
  /\ UNCHANGED <<fs, search, pc, visited, links, paths>>

ListFile ==
  /\ IsInDir /\ Top.left # <<>> /\ Entry.kind = "file"
  /\ paths' = Append(paths, EntryPath) /\ stack' = WithoutEntry
  /\ UNCHANGED <<fs, search, pc, next, visited, links>>

FailEntry ==
  /\ IsInDir /\ Top.left # <<>> /\ Entry.kind = "failed"
  /\ Fail
  /\ UNCHANGED <<fs, search>>

LeaveDir ==
  /\ IsInDir /\ Top.left = <<>>
  /\ stack' = Front(stack)
  /\ UNCHANGED <<fs, search, pc, next, visited, links, paths>>

(* The loop over the deferred links, to which each may add more. *)
FollowLink ==
  /\ pc = "walk" /\ next = None /\ stack = <<>>
  /\ IF links # <<>>
     THEN next' = Head(links) /\ links' = Tail(links) /\ UNCHANGED pc
     ELSE pc' = "ok" /\ UNCHANGED <<next, links>>
  /\ UNCHANGED <<fs, search, stack, visited, paths>>

Ended == pc \in {"ok", "failed"} /\ UNCHANGED vars

Next ==
  \/ VisitDir \/ DeferLink \/ EnterDir \/ ListFile \/ FailEntry \/ LeaveDir \/ FollowLink
  \/ Ended

Spec == Init /\ [][Next]_vars

-----------------------------------------------------------------------------
(* Every variable has its type. *)
TypeOK ==
  /\ pc \in {"walk", "ok", "failed"}
  /\ next \in Paths \cup {None}
  /\ visited \subseteq Nodes
  /\ \A path \in ToSet(links) \cup ToSet(paths) : path \in Paths \ {<<>>}

(* The directory and the name in it that a path stands for. *)
Place(path) == <<Identity(fs, Front(path)), Last(path)>>

(* A file in a directory that several paths reach is listed once (walk.h:   *)
(* "a file below a directory reachable by several paths is listed once"),   *)
(* however symlinks form cycles and aliases.                                *)
ListsEachFileOnce ==
  \A i, j \in DOMAIN paths : Place(paths[i]) = Place(paths[j]) => i = j

(* A walk that succeeds found every file there is to find, below every      *)
(* directory that is reached from the root without the excluded one, and    *)
(* looked past nothing it could not inspect (walk.h: "a file this function  *)
(* could not look at is never silently missing from paths").                *)
ListsEverything ==
  pc = "ok" =>
    LET below(kind) == EntriesBelow(fs, Identity(fs, search.root),
                                    Identity(fs, search.excluded), kind)
    IN below("failed") = {} /\ {Place(path) : path \in ToSet(paths)} = below("file")

(* The listing holds each file there is to find exactly once.               *)
ListIsExact == TypeOK /\ ListsEachFileOnce /\ ListsEverything

(* The directories below one that need no symlink, apart from the excluded  *)
(* one.                                                                     *)
RealBelow(tree, dirs, excluded) ==
  (UNION {{tree[d].entries[n] : n \in Names} : d \in dirs})
  \cap {n \in Nodes \ {excluded} : tree[n].kind = "dir"}

RealReach(tree, dir, excluded) ==
  Closure({dir} \ {excluded, None}, LAMBDA dirs : RealBelow(tree, dirs, excluded))

RealDirs == RealReach(fs, Identity(fs, search.root), Identity(fs, search.excluded))

IsReal(path) ==
  \A k \in Len(search.root) + 1..Len(path) - 1 :
    fs[Lstat(fs, SubSeq(path, 1, k)).at].kind = "dir"

(* A directory that has a path without a symlink is listed under that path, *)
(* even when a symlink to it comes first in byte order (walk.h: "The listed *)
(* path is the one reached without following a symlink when the tree has    *)
(* one").                                                                   *)
PrefersRealPaths ==
  \A path \in ToSet(paths) : Place(path)[1] \in RealDirs => IsReal(path)

(* No file of the excluded directory is found, through whatever symlink     *)
(* (walk.h: "a file that an earlier build generated is never read back as   *)
(* an input, even through a symlink into the output tree").                 *)
OutputsAreNotInputs ==
  \A path \in ToSet(paths) :
    Identity(fs, search.excluded) \notin AtOrAbove(fs, Identity(fs, Front(path)))

=============================================================================
