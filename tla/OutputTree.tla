----------------------------- MODULE OutputTree -----------------------------
(***************************************************************************)
(* How a build treats the directories it reads and writes: the checks of    *)
(* build/manifest_builder.c on output_dir and on every output path, the     *)
(* writes, and the prune of build/output_pruner.c.  A path's text does not  *)
(* tell which file it names, since the user may have put symlinks and hard  *)
(* links anywhere, so the code compares identities.  A dry run may come     *)
(* first, and a listing or a removal of the prune may fail.                 *)
(***************************************************************************)
EXTENDS HostTree, ManifestPaths

CONSTANTS RootDirs,   \* content_dir, templates_dir and static_dir
          ConfigPath, \* sosig.toml
          Starts,     \* the first trees, output_dir, the output paths the inputs give, and
                      \* whether a dry run comes before the build
          MaxFaults   \* bound: listings and removals that fail

ASSUME OutputTreeAssumption ==
  /\ RootDirs \subseteq Paths /\ ConfigPath \in Paths \ {<<>>}
  /\ \A s \in Starts : s.dir \in Paths \ {<<>>}
  /\ \A s \in Starts : \A i \in DOMAIN s.claims : s.claims[i] \in Seq(Names) \ {<<>>}
  /\ \A s \in Starts : s.dry \in BOOLEAN
  /\ MaxFaults \in Nat

VARIABLES fs,       \* the file system
          outputDir,\* output_dir
          pc,       \* the phase
          dry,      \* whether this is the dry run
          claims,   \* the output paths left to register, below output_dir
          manifest, \* the paths recorded
          inputs,   \* InputIdentities
          errors,   \* whether an error was reported
          todo,     \* recorded paths left to write
          kept,     \* Prune.kept_items
          stack,    \* the directories prune_dir is in, the innermost last
          removed,  \* the paths the prune removed, or would remove
          blamed,   \* the paths a listing or a removal failed on
          plan,     \* what the dry run removed, when it succeeded
          faults    \* faults so far

vars == <<fs, outputDir, pc, dry, claims, manifest, inputs, errors, todo, kept, stack, removed,
          blamed, plan, faults>>
pruning == <<kept, stack, removed, blamed>>

At(relative) == outputDir \o relative

Roots == {Identity(fs, dir) : dir \in RootDirs} \ {None}

Init ==
  /\ \E s \in Starts : fs = s.fs /\ outputDir = s.dir /\ claims = s.claims /\ dry = s.dry
  /\ pc = "check"
  /\ manifest = <<>> /\ inputs = {} /\ errors = FALSE /\ todo = {}
  /\ kept = {} /\ stack = <<>> /\ removed = {} /\ blamed = {}
  /\ plan = None /\ faults = 0

-----------------------------------------------------------------------------
(* manifest_builder_check_output_dir *)

(* find_nearest_existing_ancestor reads the path's text: below a missing    *)
(* directory, ".." takes a name back.                                       *)
NearestAncestor(path) ==
  FoldLeft(LAMBDA s, name :
             LET next == Append(s.dir, name)
             IN IF s.missing > 0
                THEN [s EXCEPT !.missing = IF name = Up THEN @ - 1 ELSE @ + 1]
                ELSE IF Identity(fs, next) # None THEN [s EXCEPT !.dir = next]
                ELSE [s EXCEPT !.missing = 1],
           [dir |-> <<>>, missing |-> 0], path).dir

IsOutputDirInsideRoot ==
  AtOrAbove(fs, Identity(fs, NearestAncestor(outputDir))) \cap Roots # {}

IsHeldByOutputDir(dir) == Identity(fs, outputDir) \in AtOrAbove(fs, Identity(fs, dir))

DoesOutputDirHoldInput ==
  /\ Identity(fs, outputDir) # None
  /\ \E dir \in RootDirs \cup {Front(ConfigPath)} : IsHeldByOutputDir(dir)

CheckOutputDir ==
  /\ pc = "check"
  /\ IF IsOutputDirInsideRoot \/ DoesOutputDirHoldInput
     THEN pc' = "ended" /\ errors' = TRUE
     ELSE pc' = "claim" /\ UNCHANGED errors
  /\ UNCHANGED <<fs, outputDir, dry, claims, manifest, inputs, todo, pruning, plan, faults>>

(* claim_build_inputs: the config, and what the walks of the roots list.    *)
ClaimInputs ==
  /\ pc = "claim"
  /\ IF \E root \in Roots : EntriesBelow(fs, root, Identity(fs, outputDir), "failed") # {}
     THEN pc' = "ended" /\ errors' = TRUE /\ UNCHANGED inputs
     ELSE /\ pc' = "register"
          /\ inputs' = ({Identity(fs, ConfigPath)} \ {None})
                          \cup UNION {FilesBelow(fs, root, Identity(fs, outputDir)) : root \in Roots}
          /\ UNCHANGED errors
  /\ UNCHANGED <<fs, outputDir, dry, claims, manifest, todo, pruning, plan, faults>>

-----------------------------------------------------------------------------
(* register_output_path *)

(* find_input_root_holding_output_path: each directory on the way, as far   *)
(* as they exist, and the output itself.                                    *)
PassesRoot(relative) ==
  \E k \in 1..Len(relative) :
    /\ \A j \in 1..k : Identity(fs, At(SubSeq(relative, 1, j))) # None
    /\ Identity(fs, At(SubSeq(relative, 1, k))) \in Roots

IsInput(relative) == Identity(fs, At(relative)) \in inputs

(* Mutant: inputs are not looked up. *)
RegisterOverInput ==
  /\ pc = "register" /\ claims # <<>>
  /\ LET path == Head(claims)
     IN IF PassesRoot(path) \/ Records(manifest, path)
        THEN errors' = TRUE /\ UNCHANGED manifest
        ELSE manifest' = Append(manifest, path) /\ UNCHANGED errors
  /\ claims' = Tail(claims)
  /\ UNCHANGED <<fs, outputDir, pc, dry, inputs, todo, pruning, plan, faults>>

(* A rejected path is not recorded, and the next one is checked. *)
RegisterOutput ==
  /\ pc = "register" /\ claims # <<>>
  /\ LET path == Head(claims)
     IN IF PassesRoot(path) \/ IsInput(path) \/ Records(manifest, path)
        THEN errors' = TRUE /\ UNCHANGED manifest
        ELSE manifest' = Append(manifest, path) /\ UNCHANGED errors
  /\ claims' = Tail(claims)
  /\ UNCHANGED <<fs, outputDir, pc, dry, inputs, todo, pruning, plan, faults>>

(* report_nested_output_paths, and run_build_phases' look at the errors. *)
EndRegister ==
  /\ pc = "register" /\ claims = <<>>
  /\ IF errors \/ Nested(manifest) # {}
     THEN pc' = "ended" /\ errors' = TRUE /\ UNCHANGED todo
     ELSE pc' = "prepare" /\ todo' = ToSet(manifest) /\ UNCHANGED errors
  /\ UNCHANGED <<fs, outputDir, dry, claims, manifest, inputs, pruning, plan, faults>>

-----------------------------------------------------------------------------
(* The writes.  A dry run makes nothing. *)
PrepareOutputDir ==
  /\ pc = "prepare"
  /\ LET made == IF dry THEN Done(fs) ELSE MakeDirs(fs, outputDir)
     IN /\ fs' = made.fs
        /\ pc' = IF made.ok THEN "write" ELSE "ended"
        /\ errors' = ~made.ok
  /\ UNCHANGED <<outputDir, dry, claims, manifest, inputs, todo, pruning, plan, faults>>

(* Jobs write the pages in any order.  One that cannot be written fails the *)
(* build, after the others.                                                 *)
WriteOutput(path) ==
  /\ pc = "write" /\ path \in todo
  /\ todo' = todo \ {path}
  /\ LET written == IF dry THEN Done(fs) ELSE WriteFile(fs, At(path), path)
     IN fs' = written.fs /\ errors' = (errors \/ ~written.ok)
  /\ UNCHANGED <<outputDir, pc, dry, claims, manifest, inputs, pruning, plan, faults>>

-----------------------------------------------------------------------------
(* output_pruner_prune *)

(* Mutant: the directories between output_dir and an output are not kept. *)
KeptOutputsOnly ==
  {Identity(fs, At(path)) : path \in ToSet(manifest)} \ {None}

(* claim_kept_outputs: each output and each directory on the way to one. *)
KeptOutputs ==
  UNION {{Identity(fs, At(SubSeq(path, 1, k))) : k \in 1..Len(path)} : path \in ToSet(manifest)}
    \ {None}

Frame(dir, isKept, entries) == [dir |-> dir, isKept |-> isKept, left |-> entries, emptied |-> TRUE]

Fault == faults < MaxFaults /\ faults' = faults + 1

(* prune_dir lists a directory.  The directory above it sees a failure as   *)
(* a directory that was not emptied.                                        *)
Enter(dir, isKept, below) ==
  \/ /\ IsDir(fs, dir)
     /\ stack' = Append(below, Frame(dir, isKept, Listing(fs, Identity(fs, dir))))
     /\ UNCHANGED <<blamed, faults>>
  \/ /\ (IF IsDir(fs, dir) THEN Fault ELSE UNCHANGED faults)
     /\ blamed' = blamed \cup {dir}
     /\ stack' = IF below = <<>> THEN <<>>
                 ELSE [below EXCEPT ![Len(below)].emptied = FALSE]

StartPrune ==
  /\ pc = "write" /\ todo = {}
  /\ IF errors \/ Stat(fs, outputDir).error = "ENOENT"
     THEN pc' = "ended" /\ UNCHANGED <<pruning, faults>>
     ELSE /\ pc' = "prune" /\ kept' = KeptOutputs
          /\ Enter(outputDir, TRUE, <<>>) /\ UNCHANGED removed
  /\ UNCHANGED <<fs, outputDir, dry, claims, manifest, inputs, errors, todo, plan>>

IsKept(path) == Identity(fs, path) \in kept

Top == stack[Len(stack)]

(* The frames once the innermost directory is done with an entry. *)
Without(e, emptied) ==
  [stack EXCEPT ![Len(stack)].left = @ \ {e}, ![Len(stack)].emptied = @ /\ emptied]

(* Mutant: the first removal that fails ends the prune. *)
StopAtFailure(path, frames, result) ==
  \/ /\ dry \/ result.ok
     /\ fs' = IF dry THEN fs ELSE result.fs
     /\ removed' = removed \cup {path} /\ stack' = frames
     /\ UNCHANGED <<blamed, faults>>
  \/ /\ ~dry /\ (IF result.ok THEN Fault ELSE UNCHANGED faults)
     /\ blamed' = blamed \cup {path} /\ stack' = <<>>
     /\ UNCHANGED <<fs, removed>>

(* A removal through the output writer: a dry run records it. *)
PruneRemove(path, frames, result) ==
  \/ /\ dry \/ result.ok
     /\ fs' = IF dry THEN fs ELSE result.fs
     /\ removed' = removed \cup {path} /\ stack' = frames
     /\ UNCHANGED <<blamed, faults>>
  \/ /\ ~dry /\ (IF result.ok THEN Fault ELSE UNCHANGED faults)
     /\ blamed' = blamed \cup {path}
     /\ stack' = IF frames = <<>> THEN <<>>
                 ELSE [frames EXCEPT ![Len(frames)].emptied = FALSE]
     /\ UNCHANGED <<fs, removed>>

Pruning == pc = "prune" /\ stack # <<>>
           /\ UNCHANGED <<outputDir, pc, dry, claims, manifest, inputs, errors, todo, kept, plan>>

PruneFailedEntry ==
  /\ Pruning
  /\ \E e \in Top.left :
       /\ e.kind = "failed"
       /\ blamed' = blamed \cup {Append(Top.dir, e.name)} /\ stack' = Without(e, FALSE)
  /\ UNCHANGED <<fs, removed, faults>>

(* A file or a symlink to a directory, which is not entered. *)
PruneFile ==
  /\ Pruning
  /\ \E e \in Top.left :
       LET path == Append(Top.dir, e.name)
       IN /\ e.kind \in {"file", "dirlink"}
          /\ IF IsKept(path)
             THEN stack' = Without(e, FALSE) /\ UNCHANGED <<fs, removed, blamed, faults>>
             ELSE PruneRemove(path, Without(e, TRUE), RemoveFile(fs, path))

(* Mutant: a symlink to a directory is entered like a directory. *)
PruneDirLink ==
  /\ Pruning
  /\ \E e \in Top.left :
       LET path == Append(Top.dir, e.name)
       IN /\ e.kind \in {"dir", "dirlink"}
          /\ IF Identity(fs, path) \in Roots
             THEN stack' = Without(e, FALSE) /\ UNCHANGED <<blamed, faults>>
             ELSE Enter(path, IsKept(path), Without(e, TRUE))
  /\ UNCHANGED <<fs, removed>>

(* A directory that is no input root is entered, kept or not. *)
PruneDir ==
  /\ Pruning
  /\ \E e \in Top.left :
       LET path == Append(Top.dir, e.name)
       IN /\ e.kind = "dir"
          /\ IF Identity(fs, path) \in Roots
             THEN stack' = Without(e, FALSE) /\ UNCHANGED <<blamed, faults>>
             ELSE Enter(path, IsKept(path), Without(e, TRUE))
  /\ UNCHANGED <<fs, removed>>

(* The innermost directory is done.  One that is stale and was emptied      *)
(* goes, and one that stays keeps the directory above it.                   *)
LeaveDir ==
  /\ Pruning /\ Top.left = {}
  /\ LET above == Front(stack)
     IN IF ~Top.isKept /\ Top.emptied
        THEN PruneRemove(Top.dir, above, RemoveDir(fs, Top.dir))
        ELSE /\ stack' = IF above = <<>> THEN <<>>
                         ELSE [above EXCEPT ![Len(above)].emptied = FALSE]
             /\ UNCHANGED <<fs, removed, blamed, faults>>

EndPrune ==
  /\ pc = "prune" /\ stack = <<>>
  /\ pc' = "ended" /\ errors' = (blamed # {})
  /\ UNCHANGED <<fs, outputDir, dry, claims, manifest, inputs, todo, pruning, plan, faults>>

(* After a dry run the user builds, with the same inputs. *)
BuildAfterDryRun ==
  /\ pc = "ended" /\ dry /\ ~errors
  /\ pc' = "check" /\ dry' = FALSE /\ plan' = removed
  /\ claims' = manifest /\ manifest' = <<>> /\ inputs' = {} /\ todo' = {}
  /\ kept' = {} /\ stack' = <<>> /\ removed' = {} /\ blamed' = {}
  /\ UNCHANGED <<fs, outputDir, errors, faults>>

Ended == pc = "ended" /\ (errors \/ ~dry) /\ UNCHANGED vars

Next ==
  \/ CheckOutputDir \/ ClaimInputs \/ RegisterOutput \/ EndRegister
  \/ PrepareOutputDir
  \/ \E path \in todo : WriteOutput(path)
  \/ StartPrune \/ PruneFailedEntry \/ PruneFile \/ PruneDir \/ LeaveDir \/ EndPrune
  \/ BuildAfterDryRun \/ Ended

Spec == Init /\ [][Next]_vars

-----------------------------------------------------------------------------
(* Every variable has its type. *)
TypeOK ==
  /\ \A n \in Nodes : fs[n].kind \in {"free", "file", "dir", "link"}
  /\ pc \in {"check", "claim", "register", "prepare", "write", "prune", "ended"}
  /\ inputs \subseteq Nodes /\ kept \subseteq Nodes
  /\ todo \subseteq ToSet(manifest)
  /\ dry \in BOOLEAN /\ errors \in BOOLEAN /\ faults \in 0..MaxFaults

IsBuilding == ~dry /\ pc \in {"write", "prune", "ended"} /\ manifest # <<>>
IsBuilt == ~dry /\ pc = "ended" /\ ~errors
IsPruned == ~dry /\ pc = "ended" /\ kept # {}

(* The output directory a build writes to is apart from every input root    *)
(* and from the config, however its path is spelled: neither holds the      *)
(* other.                                                                   *)
OutputDirIsApart ==
  IsBuilding /\ Identity(fs, outputDir) # None =>
    \A dir \in RootDirs \cup {Front(ConfigPath)} :
      LET root == Identity(fs, dir) out == Identity(fs, outputDir)
      IN root # None => /\ out \notin AtOrAbove(fs, root)
                        /\ dir \in RootDirs => root \notin AtOrAbove(fs, out)

(* No build writes through an output path into a file it reads.             *)
InputsUntouched == \A n \in inputs : fs[n].kind = "file" => fs[n].body = Old

(* Nothing a build writes lands below an input root, where the next build   *)
(* would read it (README.md: "An output is at or below content_dir").       *)
RootsHoldNoOutput ==
  \A root \in Roots : \A d \in Inside(fs, root) : \A n \in Names :
    Has(fs, d, n) /\ fs[fs[d].entries[n]].kind = "file" => fs[fs[d].entries[n]].body = Old

(* Whatever the tree and the spelling of output_dir, the build keeps what   *)
(* it writes apart from what it reads.                                      *)
InputsAreSafe == TypeOK /\ OutputDirIsApart /\ InputsUntouched /\ RootsHoldNoOutput

(* A build that succeeds leaves a file it wrote at every output path: the   *)
(* prune took none of them, nor a link or directory on the way to one.      *)
OutputsSurvive ==
  IsBuilt => \A path \in ToSet(manifest) :
    IsFile(fs, At(path)) /\ fs[Identity(fs, At(path))].body \in ToSet(manifest)

(* Whether output_dir holds a link: a symlink, or a second name of a node. *)
HoldsLink ==
  LET dirs == Inside(fs, Identity(fs, outputDir))
      entries == {e \in dirs \X Names : Has(fs, e[1], e[2])}
      Node(e) == fs[e[1]].entries[e[2]]
  IN \E e \in entries : fs[Node(e)].kind = "link" \/ \E f \in entries \ {e} : Node(e) = Node(f)

(* Each output is a file of its own where output_dir holds no links, also   *)
(* on a host that ignores the case of letters: no output overwrites another.*)
OutputsAreDistinct ==
  IsBuilt /\ ~HoldsLink =>
    \A path \in ToSet(manifest) : fs[Identity(fs, At(path))].body = path

(* Whether a write of the path met something that no build put there: a     *)
(* file on the way, or a directory that holds no output.                    *)
MeetsOther(path) ==
  \E k \in 1..Len(path) :
    LET r == Lstat(fs, At(SubSeq(path, 1, k)))
    IN r.error = None /\ \/ fs[r.at].kind = "file" /\ fs[r.at].body = Old
                         \/ fs[r.at].kind = "dir" /\ k = Len(path)
                            /\ \A other \in ToSet(manifest) :
                                 Len(other) > Len(path) =>
                                   Folded(path) # Folded(SubSeq(other, 1, Len(path)))

(* Outputs that the checks accept do not get in each other's way: where     *)
(* output_dir holds no links, a write fails only on what was in it before.  *)
AcceptedOutputsFit ==
  pc = "write" /\ errors /\ ~HoldsLink => \E path \in ToSet(manifest) : MeetsOther(path)

(* The outputs that the checks accept can all be written, each as a file.   *)
OutputsFit == OutputsAreDistinct /\ AcceptedOutputsFit

(* The prune removes names in directories of the output tree only, reached  *)
(* from output_dir without a symlink and not inside an input root.          *)
PruneStaysInside ==
  [][removed' # removed /\ fs' # fs =>
       \A d \in Nodes : fs'[d] # fs[d] =>
         /\ d \in Inside(fs, Identity(fs, outputDir))
         /\ \A root \in Roots : d \notin Inside(fs, root)]_vars

BlamedEntries == {<<Stat(fs, Front(path)).at, Last(path)>> : path \in blamed}

(* After a prune, failed or not, everything a listing of the output tree    *)
(* shows leads to an output or to a directory on the way to one, is an      *)
(* input root, was reported, or is a directory that such an entry holds:    *)
(* one failure keeps nothing else from being removed.                       *)
NothingStaleIsLeft ==
  IsPruned =>
    \A d \in Inside(fs, Identity(fs, outputDir)) \ UNION {Inside(fs, r) : r \in Roots} :
      (\A path \in blamed : Identity(fs, path) \notin AtOrAbove(fs, d)) =>
        \A e \in Listing(fs, d) :
          \/ Resolve(fs, d, <<e.name>>, TRUE).at \in kept \cup Roots
          \/ <<d, e.name>> \in BlamedEntries
          \/ e.kind = "dir" /\ \E n \in Names : Has(fs, fs[d].entries[e.name], n)

(* The prune takes what is stale and nothing else, whatever links the output *)
(* tree holds and whatever fails.                                            *)
PruneIsExact == OutputsSurvive /\ NothingStaleIsLeft

(* A build that reaches its prune removes what the dry run before it        *)
(* listed, and fails at none of it (README.md: "The build would remove this *)
(* path").                                                                  *)
PrunePredicted == IsPruned /\ plan # None /\ faults = 0 => ~errors /\ removed = plan

=============================================================================
