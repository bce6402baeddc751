------------------------------ MODULE HostTree ------------------------------
(***************************************************************************)
(* The part of the host's file system that a build looks at and changes,    *)
(* and the operations of runtime/os.h on it, as runtime/fs.c implements     *)
(* them.  A node is an inode: what os_stat reports as an identity.  A       *)
(* directory names nodes, a symlink holds a path, and two names of one file *)
(* are a hard link.  A path is a sequence of names, read from the working   *)
(* directory.                                                               *)
(***************************************************************************)
EXTENDS Integers, SequencesExt

CONSTANTS Nodes,   \* inodes
          Root,    \* the working directory
          Names,   \* names an entry can have
          Up,      \* ".."
          EntryName, \* the name a directory keeps a name under: one host keeps the
                     \* letters' case, and one that ignores it folds them
          LinkMax, \* symlinks the host follows in one resolution
          Old,     \* contents of a file that no build wrote
          None     \* no value

Paths == Seq(Names \cup {Up})

ASSUME HostTreeAssumption ==
  /\ EntryName \in [Names -> Names]
  /\ IsFiniteSet(Nodes) /\ IsFiniteSet(Names)
  /\ Root \in Nodes /\ Up \notin Names
  /\ None \notin Nodes \cup Paths \cup {"ENOENT", "ENOTDIR", "ELOOP"}
  /\ LinkMax \in Nat

(* A node of each kind.  "up" is what ".." names. *)
Free == [kind |-> "free", up |-> None, entries |-> <<>>, to |-> <<>>, body |-> None]
FileOf(body) == [Free EXCEPT !.kind = "file", !.body = body]
LinkTo(path) == [Free EXCEPT !.kind = "link", !.to = path]
DirOf(up, entries) ==
  [Free EXCEPT !.kind = "dir", !.up = up,
               !.entries = [n \in Names |-> IF n \in DOMAIN entries THEN entries[n] ELSE None]]

Has(fs, dir, name) == fs[dir].entries[name] # None

(* What the host keeps true of its tree: a directory's entries are nodes in  *)
(* use, each under the name the directory keeps it under.                    *)
IsTree(fs) ==
  /\ DOMAIN fs = Nodes
  /\ \A n \in Nodes : fs[n].kind \in {"free", "file", "link", "dir"}
  /\ \A n \in Nodes : fs[n].kind = "link" => fs[n].to \in Paths
  /\ \A n \in Nodes : fs[n].kind = "dir" =>
       /\ fs[n].up \in Nodes \cup {None}
       /\ fs[n].entries \in [Names -> Nodes \cup {None}]
       /\ \A name \in Names :
            Has(fs, n, name) => EntryName[name] = name /\ fs[fs[n].entries[name]].kind # "free"

-----------------------------------------------------------------------------
(* Path resolution, which every call of the host begins with.               *)
StepPath(fs, follow, s) ==
  LET name == Head(s.rest)
      next == IF name = Up THEN fs[s.at].up ELSE fs[s.at].entries[EntryName[name]]
      isFollowed == fs[next].kind = "link" /\ (follow \/ Len(s.rest) > 1)
  IN IF fs[s.at].kind # "dir" THEN [s EXCEPT !.error = "ENOTDIR"]
     ELSE IF next = None THEN [s EXCEPT !.error = "ENOENT"]
     ELSE IF ~isFollowed THEN [s EXCEPT !.at = next, !.rest = Tail(@)]
     ELSE IF s.links = LinkMax THEN [s EXCEPT !.error = "ELOOP"]
     ELSE [s EXCEPT !.rest = fs[next].to \o Tail(@), !.links = @ + 1]

Resolutions == [at : Nodes, rest : Paths, links : 0..LinkMax,
                error : {None, "ENOENT", "ENOTDIR", "ELOOP"}]

(* Where a path leads from a directory, whether or not its last name is     *)
(* followed when it is a symlink.  An error leaves the names it stopped at. *)
Resolve(fs, dir, path, follow) ==
  LET resolve[s \in Resolutions] ==
        IF s.rest = <<>> \/ s.error # None THEN s ELSE resolve[StepPath(fs, follow, s)]
  IN resolve[[at |-> dir, rest |-> path, links |-> 0, error |-> None]]

Stat(fs, path) == Resolve(fs, Root, path, TRUE)
Lstat(fs, path) == Resolve(fs, Root, path, FALSE)

(* os_stat's identity, or None when the path has none. *)
Identity(fs, path) ==
  LET r == Stat(fs, path) IN IF r.error = None THEN r.at ELSE None

IsA(kind, fs, path) ==
  LET r == Stat(fs, path) IN r.error = None /\ fs[r.at].kind = kind
IsDir(fs, path) == IsA("dir", fs, path)
IsFile(fs, path) == IsA("file", fs, path)

(* What a step adds to a set of nodes again and again. *)
Closure(nodes, Step(_)) ==
  LET close[reached \in SUBSET Nodes] ==
        LET next == reached \cup Step(reached)
        IN IF next = reached THEN reached ELSE close[next]
  IN close[nodes]

(* A directory and every directory above it, as ".." reaches them. *)
AtOrAbove(fs, dir) ==
  IF dir = None \/ fs[dir].kind # "dir" THEN {dir} \ {None}
  ELSE Closure({dir}, LAMBDA dirs : {fs[d].up : d \in dirs})

-----------------------------------------------------------------------------
(* os_list.  What resolves to nothing is left out, and what cannot be       *)
(* inspected is listed as failed.                                           *)
EntryKind(fs, dir, name) ==
  LET r == Resolve(fs, dir, <<name>>, TRUE)
  IN CASE r.error \in {"ENOENT", "ELOOP"} -> "skipped"
       [] r.error = "ENOTDIR" -> "failed"
       [] fs[r.at].kind = "file" -> "file"
       [] OTHER -> IF fs[fs[dir].entries[name]].kind = "link" THEN "dirlink" ELSE "dir"

Listing(fs, dir) ==
  {e \in {[name |-> n, kind |-> EntryKind(fs, dir, n)] : n \in {m \in Names : Has(fs, dir, m)}} :
     e.kind # "skipped"}

-----------------------------------------------------------------------------
(* The operations that change the tree give the tree they leave and whether *)
(* they succeed.                                                            *)
Done(fs) == [fs |-> fs, ok |-> TRUE]
Failed(fs) == [fs |-> fs, ok |-> FALSE]

Unname(fs, dir, name) == [fs EXCEPT ![dir].entries[EntryName[name]] = None]

(* os_remove: unlink, for which a missing file is as good. *)
RemoveFile(fs, path) ==
  LET r == Lstat(fs, path)
      dir == Stat(fs, Front(path)).at
  IN IF r.error = "ENOENT" THEN Done(fs)
     ELSE IF r.error # None \/ fs[r.at].kind = "dir" THEN Failed(fs)
     ELSE Done(Unname(fs, dir, Last(path)))

(* os_remove_dir: rmdir, which wants a directory, no symlink, without       *)
(* entries.                                                                 *)
RemoveDir(fs, path) ==
  LET r == Lstat(fs, path)
      dir == Stat(fs, Front(path)).at
  IN IF r.error = "ENOENT" THEN Done(fs)
     ELSE IF r.error # None \/ fs[r.at].kind # "dir" THEN Failed(fs)
     ELSE IF \E n \in Names : Has(fs, r.at, n) THEN Failed(fs)
     ELSE Done(Unname(fs, dir, Last(path)))

(* A new node below the directory a resolution stopped in. *)
Create(fs, r, node) ==
  LET new == CHOOSE n \in Nodes : fs[n].kind = "free"
  IN [fs EXCEPT ![r.at].entries[EntryName[Head(r.rest)]] = new, ![new] = node]

IsMissing(r) == r.error = "ENOENT" /\ Len(r.rest) = 1 /\ Head(r.rest) # Up

(* mkdirs_report_one: what is there already must lead to a directory. *)
MakeDir(fs, path) ==
  LET r == Lstat(fs, path)
  IN IF IsMissing(r) THEN Done(Create(fs, r, DirOf(r.at, <<>>)))
     ELSE IF r.error = None /\ IsDir(fs, path) THEN Done(fs)
     ELSE Failed(fs)

(* mkdirs_report: each prefix in turn, and the first failure ends it. *)
MakeDirs(fs, path) ==
  FoldLeft(LAMBDA s, k : IF s.ok THEN MakeDir(s.fs, SubSeq(path, 1, k)) ELSE s,
           Done(fs), [k \in 1..Len(path) |-> k])

(* os_write: the parents, then the file, through symlinks and hard links,   *)
(* in place.                                                                *)
WriteFile(fs, path, body) ==
  LET made == MakeDirs(fs, Front(path))
      r == Stat(made.fs, path)
  IN IF ~made.ok THEN made
     ELSE IF IsMissing(r) THEN Done(Create(made.fs, r, FileOf(body)))
     ELSE IF r.error = None /\ made.fs[r.at].kind = "file"
     THEN Done([made.fs EXCEPT ![r.at].body = body])
     ELSE Failed(made.fs)

-----------------------------------------------------------------------------
(* The directories a walk of an input tree reaches, through symlinks too,   *)
(* when it does not enter the excluded one, and what it finds in them: the  *)
(* reference that walk_files_with_suffixes is compared with.                *)
Reach(fs, dir, excluded) ==
  LET below(d) == {Resolve(fs, d, <<e.name>>, TRUE).at :
                     e \in {f \in Listing(fs, d) : f.kind \in {"dir", "dirlink"}}}
  IN Closure({dir} \ {excluded, None}, LAMBDA dirs : (UNION {below(d) : d \in dirs}) \ {excluded})

EntriesBelow(fs, dir, excluded, kind) ==
  UNION {{<<d, e.name>> : e \in {f \in Listing(fs, d) : f.kind = kind}} :
           d \in Reach(fs, dir, excluded)}

FilesBelow(fs, dir, excluded) ==
  {Resolve(fs, f[1], <<f[2]>>, TRUE).at : f \in EntriesBelow(fs, dir, excluded, "file")}

(* The directories below one that are reached without a symlink, itself     *)
(* included.                                                                *)
Inside(fs, dir) ==
  Closure({dir} \ {None},
          LAMBDA dirs : {d \in {fs[above].entries[n] : above \in dirs, n \in Names} \ {None} :
                           fs[d].kind = "dir"})

=============================================================================
