----------------------------- MODULE SiteBuild -----------------------------
(***************************************************************************)
(* sosig build, run again and again over a site that its user edits         *)
(* (app/cmd_build.c and the phases it calls).  A build loads the config,     *)
(* walks the inputs, parses every source, checks the result, reads the       *)
(* build cache, empties it, renders or keeps each page and aggregate,        *)
(* copies the asset, writes the build cache and prunes.  The user changes    *)
(* inputs between any two steps, a write or a removal may fail, and the      *)
(* process may die.                                                          *)
(***************************************************************************)
EXTENDS Site, Sequences

CONSTANTS Starts,        \* pairs of the sources and the templates of the first build
          FirstStamps,   \* the stamps of those files
          Modes,         \* the [forced, dry] options a build can be given
          Edits,         \* the kinds of change the user makes
          MaxClock,      \* bound: edits of a file
          MaxFaults,     \* bound: failed writes and removals, and crashes
          TemplateOrder, \* the template paths in bytewise order
          AllowCut       \* a cache write can be cut exactly after a row

(* The first n members of a sequence. *)
Listed(names, n) == {names[i] : i \in 1..n}

EditKinds == {"source", "template", "create", "config", "rename", "swap", "asset", "output"}

Stamps == FirstStamps \cup 1..MaxClock
Docs == [stamp : Stamps \cup {None}, body : Bodies \cup {None}]

(* What the renders and the copy can give. *)
Shown == SUBSET [out : Outputs, body : Bodies, link : Outputs \cup {None}]
Marked == UNION {[used -> TemplateBodies \cup {None}] : used \in SUBSET Templates}
PageRenders == [body : Bodies, link : Outputs \cup {None}, asset : Assets \cup {None},
                markup : Marked, list : Shown, recipe : Recipes]
IndexRenders == [markup : Marked, list : Shown, recipe : Recipes]

(* Files at their first stamps, no two sources with one stamp. *)
IsFirstSite(files, markup) ==
  /\ \A s \in Sources : files[s] # None =>
       /\ files[s].stamp \in FirstStamps /\ files[s].body \in Bodies
       /\ \A t \in Sources \ {s} : files[t] # None => files[t].stamp # files[s].stamp
  /\ markup \in [Templates -> [stamp : FirstStamps, body : TemplateBodies] \cup {None}]

ASSUME SiteBuildAssumption ==
  /\ FirstStamps \subseteq Nat /\ FirstStamps \cap 1..MaxClock = {}
  /\ None \notin Docs /\ None \notin Stamps /\ None \notin {"ok", "failed", "rejected"}
  /\ None \notin PageRenders \cup IndexRenders /\ \A path \in Assets : CopyOf(path) # None
  /\ \A start \in Starts : start.source \in [Sources -> Docs \cup {None}]
  /\ \A start \in Starts : IsFirstSite(start.source, start.template)
  /\ Edits \subseteq EditKinds
  /\ Modes \subseteq [forced : BOOLEAN, dry : BOOLEAN] /\ Modes # {}
  /\ MaxClock \in Nat /\ MaxFaults \in Nat /\ AllowCut \in BOOLEAN
  /\ TemplateOrder \in Seq(Templates) /\ Templates = Listed(TemplateOrder, Len(TemplateOrder))

VARIABLES source,   \* content files on disk, or None
          template, \* template files on disk, or None
          config,   \* the configuration on disk
          asset,    \* the path the asset is at, or None
          clock,    \* stamps handed out so far
          tree,     \* output_dir: what each output path holds, or None
          cache,    \* the build cache file; NoCache when no build can use it
          build,    \* the memory of the running process
          plan,     \* what the last dry run found, while nothing changed since
          settled,  \* the last build completed and nothing changed since
          faults    \* faults so far

inputs == <<source, template, config, asset, clock>>
disk   == <<tree, cache>>
vars   == <<inputs, disk, build, plan, settled, faults>>

(* BuildState before load_build_inputs, and what a process that is gone leaves. *)
NoBuild ==
  [pc |-> "idle", forced |-> FALSE, dry |-> FALSE, quiet |-> FALSE, outcome |-> None,
   recipe |-> None, paths |-> {}, asset |-> None, todo |-> {}, reading |-> {},
   docs |-> [s \in Sources |-> None], errors |-> FALSE,
   rows |-> NoCache, stats |-> [t \in Templates |-> None],
   fresh |-> [s \in Sources |-> {}], aggregatesFresh |-> FALSE,
   flags |-> [s \in Sources |-> FALSE],
   written |-> {}, kept |-> {}, removed |-> {}]

NoPlan == [outcome |-> None, forced |-> FALSE, written |-> {}, kept |-> {}, removed |-> {}]

Init ==
  /\ \E start \in Starts : source = start.source /\ template = start.template
  /\ config \in Recipes /\ asset \in Assets
  /\ clock = 0
  /\ tree = [o \in Outputs |-> None] /\ cache = NoCache
  /\ build = NoBuild /\ plan = NoPlan /\ settled = FALSE /\ faults = 0

-----------------------------------------------------------------------------
(* The user.  A changed file gets a stamp no file had before, so a stamp     *)
(* tells contents apart; a rename keeps the stamp.                           *)
Disturb ==
  /\ build' = [build EXCEPT !.quiet = FALSE]
  /\ plan' = NoPlan /\ settled' = FALSE
  /\ UNCHANGED faults

Save(body) == [stamp |-> clock + 1, body |-> body]

EditSource(s) ==
  /\ "source" \in Edits /\ clock < MaxClock /\ clock' = clock + 1
  /\ \E body \in Bodies : source' = [source EXCEPT ![s] = Save(body)]
  /\ Disturb /\ UNCHANGED <<template, config, asset, disk>>

DeleteSource(s) ==
  /\ "source" \in Edits /\ clock < MaxClock /\ clock' = clock + 1 /\ source[s] # None
  /\ source' = [source EXCEPT ![s] = None]
  /\ Disturb /\ UNCHANGED <<template, config, asset, disk>>

RenameSource(s, t) ==
  /\ "rename" \in Edits /\ clock < MaxClock /\ clock' = clock + 1
  /\ source[s] # None /\ source[t] = None
  /\ source' = [source EXCEPT ![s] = None, ![t] = source[s]]
  /\ Disturb /\ UNCHANGED <<template, config, asset, disk>>

(* Renames through a spare name exchange the paths of two files.  Only       *)
(* between builds: two exchanges between a job's stat and its read would give *)
(* a row the stamp of one file and the body of the other.                    *)
SwapSources(s, t) ==
  /\ "swap" \in Edits /\ build.pc = "idle" /\ clock < MaxClock /\ clock' = clock + 1
  /\ s # t /\ source[s] # None /\ source[t] # None
  /\ source' = [source EXCEPT ![s] = source[t], ![t] = source[s]]
  /\ Disturb /\ UNCHANGED <<template, config, asset, disk>>

EditTemplate(t) ==
  /\ "template" \in Edits /\ clock < MaxClock /\ clock' = clock + 1
  /\ template[t] = None => "create" \in Edits
  /\ \E body \in TemplateBodies : template' = [template EXCEPT ![t] = Save(body)]
  /\ Disturb /\ UNCHANGED <<source, config, asset, disk>>

DeleteTemplate(t) ==
  /\ "template" \in Edits /\ clock < MaxClock /\ clock' = clock + 1 /\ template[t] # None
  /\ template' = [template EXCEPT ![t] = None]
  /\ Disturb /\ UNCHANGED <<source, config, asset, disk>>

EditConfig ==
  /\ "config" \in Edits /\ clock < MaxClock /\ clock' = clock + 1
  /\ \E recipe \in Recipes \ {config} : config' = recipe
  /\ Disturb /\ UNCHANGED <<source, template, asset, disk>>

MoveAsset ==
  /\ "asset" \in Edits /\ clock < MaxClock /\ clock' = clock + 1
  /\ \E path \in (Assets \cup {None}) \ {asset} : asset' = path
  /\ Disturb /\ UNCHANGED <<source, template, config, disk>>

DeleteOutput(o) ==
  /\ "output" \in Edits /\ clock < MaxClock /\ clock' = clock + 1 /\ tree[o] # None
  /\ tree' = [tree EXCEPT ![o] = None]
  /\ Disturb /\ UNCHANGED <<source, template, config, asset, cache>>

User ==
  \/ \E s \in Sources : EditSource(s) \/ DeleteSource(s)
  \/ \E s, t \in Sources : RenameSource(s, t) \/ SwapSources(s, t)
  \/ \E t \in Templates : EditTemplate(t) \/ DeleteTemplate(t)
  \/ EditConfig \/ MoveAsset
  \/ \E o \in Outputs : DeleteOutput(o)

-----------------------------------------------------------------------------
(* Steps of the build that change its memory only. *)
Memory == UNCHANGED <<inputs, disk, plan, settled, faults>>

Start ==
  /\ build.pc = "idle"
  /\ \E mode \in Modes :
       build' = [NoBuild EXCEPT !.pc = "walk", !.forced = mode.forced, !.dry = mode.dry,
                                !.quiet = TRUE, !.recipe = config]
  /\ Memory

WalkInputs ==
  /\ build.pc = "walk"
  /\ LET paths == {s \in Sources : source[s] # None}
     IN build' = [build EXCEPT !.pc = "parse", !.asset = asset, !.paths = paths, !.todo = paths]
  /\ Memory

(* parse_content_entry_load_source stats the file, then reads it: what the   *)
(* entry holds between the two is the stamp without a body.                  *)
StatSource(s) ==
  /\ build.pc = "parse" /\ s \in build.todo
  /\ build' = [build EXCEPT !.todo = @ \ {s}, !.reading = @ \cup {s},
                            !.docs[s] = [stamp |-> Stamp(source[s]), body |-> None]]
  /\ Memory

ReadSource(s) ==
  /\ build.pc = "parse" /\ s \in build.reading
  /\ build' = IF source[s] = None
              THEN [build EXCEPT !.reading = @ \ {s}, !.docs[s] = None, !.errors = TRUE]
              ELSE [build EXCEPT !.reading = @ \ {s}, !.docs[s].body = source[s].body]
  /\ Memory

(* load_build_cache_read: another recipe, or --force, leaves it empty. *)
ReadCache ==
  /\ build.pc = "parse" /\ build.todo = {} /\ build.reading = {}
  /\ build' = [build EXCEPT !.pc = "stat",
                            !.rows = IF build.forced \/ cache.recipe # build.recipe
                                     THEN NoCache ELSE cache]
  /\ Memory

StatTemplates ==
  /\ build.pc = "stat"
  /\ LET stats == [t \in Templates |-> Stamp(template[t])]
     IN build' = [build EXCEPT !.pc = "convert", !.stats = stats,
                    !.fresh = [s \in Sources |->
                                 IF s \in Entries(build.docs)
                                 THEN FreshRows(build.rows, build.docs, s, stats) ELSE {}],
                    !.aggregatesFresh = TemplatesMatch(build.rows, stats)
                                        /\ EntriesMatch(build.rows, build.docs)]
  /\ Memory

End(outcome) == build' = [build EXCEPT !.pc = "ended", !.outcome = outcome]

(* Mutant: a source that failed to parse does not stop the build. *)
ConvertBodiesAnyway ==
  /\ build.pc = "convert"
  /\ IF IsRejected(build.docs, build.asset)
     THEN End("rejected")
     ELSE build' = [build EXCEPT !.pc = "empty",
                      !.fresh = [s \in Sources |->
                                   IF s \in Entries(build.docs)
                                      /\ build.docs[s].body \in AssetLinkers
                                   THEN {} ELSE build.fresh[s]]]
  /\ Memory

(* The manifest's collisions, the links' targets, and every parse error.     *)
(* What links an asset is not kept.                                          *)
ConvertBodies ==
  /\ build.pc = "convert"
  /\ IF build.errors \/ IsRejected(build.docs, build.asset)
     THEN End("rejected")
     ELSE build' = [build EXCEPT !.pc = "empty",
                      !.fresh = [s \in Sources |->
                                   IF s \in Entries(build.docs)
                                      /\ build.docs[s].body \in AssetLinkers
                                   THEN {} ELSE build.fresh[s]]]
  /\ Memory

-----------------------------------------------------------------------------
(* Steps that change output_dir, through the output writer: a dry run marks  *)
(* and changes nothing, and a write that fails leaves what was there or a     *)
(* cut file.                                                                  *)
Fault == faults < MaxFaults /\ faults' = faults + 1

WriteOutput(o, value, ok) ==
  \/ build.dry /\ ok /\ UNCHANGED <<tree, faults>>
  \/ ~build.dry /\ ok /\ tree' = [tree EXCEPT ![o] = value] /\ UNCHANGED faults
  \/ /\ ~build.dry /\ ~ok /\ Fault
     /\ \E left \in {tree[o], Torn} : tree' = [tree EXCEPT ![o] = left]

(* Mutant: the old cache stays until the new one is written. *)
LeaveCache ==
  /\ build.pc = "empty"
  /\ build' = [build EXCEPT !.pc = "pages", !.todo = Entries(build.docs)]
  /\ Memory

(* Mutant: the cache is emptied past the output writer, also in a dry run. *)
EmptyCacheAlways ==
  /\ build.pc = "empty"
  /\ build' = [build EXCEPT !.pc = "pages", !.todo = Entries(build.docs)]
  /\ cache' = NoCache
  /\ UNCHANGED <<inputs, tree, plan, settled, faults>>

(* output_writer_mkdirs and the write of zero bytes. *)
EmptyCache ==
  /\ build.pc = "empty"
  /\ LET pages == [build EXCEPT !.pc = "pages", !.todo = Entries(build.docs)]
     IN \/ build.dry /\ build' = pages /\ UNCHANGED <<cache, faults>>
        \/ ~build.dry /\ build' = pages /\ cache' = NoCache /\ UNCHANGED faults
        \/ ~build.dry /\ End("failed") /\ Fault /\ cache' \in {cache, NoCache}
  /\ UNCHANGED <<inputs, tree, plan, settled>>

Page(s) == Out(build.docs, s)

(* Mutant: a page is kept without a look at its output. *)
KeepPageUnseen(s) ==
  /\ build.pc = "pages" /\ s \in build.todo /\ build.fresh[s] # {}
  /\ \E row \in build.fresh[s] :
       build' = [build EXCEPT !.todo = @ \ {s}, !.kept = @ \cup {Page(s)},
                              !.flags[s] = row.list]
  /\ Memory

(* A kept page takes its entry-list flag from the row that vouches for it.   *)
KeepPage(s) ==
  /\ build.pc = "pages" /\ s \in build.todo
  /\ build.fresh[s] # {} /\ tree[Page(s)] # None
  /\ \E row \in build.fresh[s] :
       build' = [build EXCEPT !.todo = @ \ {s}, !.kept = @ \cup {Page(s)},
                              !.flags[s] = row.list]
  /\ Memory

(* Mutant: a page that fails to render is tried again. *)
RenderPageAgain(s) ==
  /\ build.pc = "pages" /\ s \in build.todo
  /\ build.fresh[s] = {} \/ tree[Page(s)] = None
  /\ IF RenderFails(template, ContentTemplate)
     THEN build' = [build EXCEPT !.errors = TRUE] /\ UNCHANGED <<tree, faults>>
     ELSE \E ok \in BOOLEAN :
            /\ WriteOutput(Page(s),
                 PageOf(build.docs, s, build.asset, template, build.recipe), ok)
            /\ build' = [build EXCEPT !.todo = @ \ {s}, !.errors = @ \/ ~ok,
                           !.written = @ \cup {Page(s)},
                           !.flags[s] = ReadsList(template, ContentTemplate)]
  /\ UNCHANGED <<inputs, cache, plan, settled>>

RenderPage(s) ==
  /\ build.pc = "pages" /\ s \in build.todo
  /\ build.fresh[s] = {} \/ tree[Page(s)] = None
  /\ IF RenderFails(template, ContentTemplate)
     THEN /\ build' = [build EXCEPT !.todo = @ \ {s}, !.errors = TRUE]
          /\ UNCHANGED <<tree, faults>>
     ELSE \E ok \in BOOLEAN :
            /\ WriteOutput(Page(s),
                 PageOf(build.docs, s, build.asset, template, build.recipe), ok)
            /\ build' = [build EXCEPT !.todo = @ \ {s}, !.errors = @ \/ ~ok,
                           !.written = @ \cup {Page(s)},
                           !.flags[s] = ReadsList(template, ContentTemplate)]
  /\ UNCHANGED <<inputs, cache, plan, settled>>

(* Every page job runs; a failed one fails the phase. *)
EndPages ==
  /\ build.pc = "pages" /\ build.todo = {}
  /\ IF build.errors THEN End("failed") ELSE build' = [build EXCEPT !.pc = "index"]
  /\ Memory

KeepIndex ==
  /\ build.pc = "index" /\ build.aggregatesFresh /\ tree[Index] # None
  /\ build' = [build EXCEPT !.pc = "copy", !.kept = @ \cup {Index}]
  /\ Memory

RenderIndex ==
  /\ build.pc = "index" /\ (~build.aggregatesFresh \/ tree[Index] = None)
  /\ IF RenderFails(template, IndexTemplate)
     THEN End("failed") /\ UNCHANGED <<tree, faults>>
     ELSE \E ok \in BOOLEAN :
            /\ WriteOutput(Index, IndexOf(build.docs, template, build.recipe), ok)
            /\ IF ok THEN build' = [build EXCEPT !.pc = "copy", !.written = @ \cup {Index}]
                     ELSE End("failed")
  /\ UNCHANGED <<inputs, cache, plan, settled>>

(* The copy opens the asset where the walk found it; a dry run does not.     *)
CopyAsset ==
  /\ build.pc = "copy"
  /\ LET copied == [build EXCEPT !.pc = "rows", !.written = @ \cup {build.asset}]
     IN IF build.asset = None
        THEN build' = [build EXCEPT !.pc = "rows"] /\ UNCHANGED <<tree, faults>>
        ELSE IF ~build.dry /\ asset # build.asset
        THEN End("failed") /\ UNCHANGED <<tree, faults>>
        ELSE \E ok \in BOOLEAN :
               /\ WriteOutput(build.asset, CopyOf(build.asset), ok)
               /\ IF ok THEN build' = copied ELSE End("failed")
  /\ UNCHANGED <<inputs, cache, plan, settled>>

(* Mutant: the stat is taken when the row is written. *)
RowsStattedLate ==
  [recipe    |-> build.recipe,
   content   |-> {[name  |-> Page(s), stamp |-> Stamp(source[s]),
                   list  |-> build.flags[s] \/ HasEntryLink(build.docs, s)] :
                     s \in Entries(build.docs)},
   templates |-> TemplateRows(build.stats)]

(* A row for each entry and each template, with the stamps of the stats.     *)
Rows ==
  [recipe    |-> build.recipe,
   content   |-> {[name  |-> Page(s), stamp |-> build.docs[s].stamp,
                   list  |-> build.flags[s] \/ HasEntryLink(build.docs, s)] :
                     s \in Entries(build.docs)},
   templates |-> TemplateRows(build.stats)]

(* What a write cut exactly after a row leaves: content rows come first.     *)
(* A cut anywhere else does not parse.                                       *)
Cuts(rows) ==
  {[rows EXCEPT !.templates = {r \in @ : r.name \in Listed(TemplateOrder, n)}] :
     n \in 1..Len(TemplateOrder)}

WriteCache ==
  /\ build.pc = "rows"
  /\ LET stale == {o \in Outputs : tree[o] # None} \ Manifest(build.docs, build.asset)
         done  == [build EXCEPT !.pc = "prune", !.todo = stale]
     IN \/ build.dry /\ build' = done /\ UNCHANGED <<cache, faults>>
        \/ ~build.dry /\ build' = done /\ cache' = Rows /\ UNCHANGED faults
        \/ /\ ~build.dry /\ End("failed") /\ Fault
           /\ cache' \in {cache, NoCache} \cup (IF AllowCut THEN Cuts(Rows) ELSE {})
  /\ UNCHANGED <<inputs, tree, plan, settled>>

(* Mutant: a removal that fails is forgotten. *)
RemoveStaleQuietly(o) ==
  /\ build.pc = "prune" /\ o \in build.todo
  /\ build' = [build EXCEPT !.todo = @ \ {o}, !.removed = @ \cup {o}]
  /\ \/ /\ tree' = IF build.dry THEN tree ELSE [tree EXCEPT ![o] = None]
        /\ UNCHANGED faults
     \/ ~build.dry /\ tree[o] # None /\ Fault /\ UNCHANGED tree
  /\ UNCHANGED <<inputs, cache, plan, settled>>

(* A removal that fails does not stop the prune; a missing file is removed.  *)
RemoveStale(o) ==
  /\ build.pc = "prune" /\ o \in build.todo
  /\ \/ /\ build' = [build EXCEPT !.todo = @ \ {o}, !.removed = @ \cup {o}]
        /\ tree' = IF build.dry THEN tree ELSE [tree EXCEPT ![o] = None]
        /\ UNCHANGED faults
     \/ /\ ~build.dry /\ tree[o] # None /\ Fault
        /\ build' = [build EXCEPT !.todo = @ \ {o}, !.errors = TRUE]
        /\ UNCHANGED tree
  /\ UNCHANGED <<inputs, cache, plan, settled>>

(* A dry run's report lists what is marked; it needs every path marked.      *)
EndPrune ==
  /\ build.pc = "prune" /\ build.todo = {}
  /\ End(IF build.errors \/ (build.dry /\ build.written \cup build.kept
                                          # Manifest(build.docs, build.asset))
         THEN "failed" ELSE "ok")
  /\ Memory

(* The process exits: its memory is gone, and the user has a dry run's list. *)
Exit ==
  /\ build.pc = "ended"
  /\ build' = NoBuild
  /\ plan' = IF build.dry /\ build.quiet
             THEN [outcome |-> build.outcome, forced |-> build.forced,
                   written |-> build.written, kept |-> build.kept, removed |-> build.removed]
             ELSE NoPlan
  /\ settled' = ((build.dry /\ settled)
                 \/ (~build.dry /\ build.outcome = "ok" /\ build.quiet))
  /\ UNCHANGED <<inputs, disk, faults>>

(* The process dies; a write it was in the middle of is one that failed.     *)
Crash ==
  /\ build.pc \notin {"idle", "ended"} /\ Fault
  /\ build' = NoBuild /\ plan' = NoPlan /\ settled' = FALSE
  /\ UNCHANGED <<inputs, disk>>

Build ==
  \/ WalkInputs
  \/ \E s \in Sources : StatSource(s) \/ ReadSource(s) \/ KeepPage(s) \/ RenderPage(s)
  \/ ReadCache \/ StatTemplates \/ ConvertBodies \/ EmptyCache
  \/ EndPages \/ KeepIndex \/ RenderIndex \/ CopyAsset \/ WriteCache
  \/ \E o \in Outputs : RemoveStale(o)
  \/ EndPrune \/ Exit

Next == User \/ Start \/ Build \/ Crash

Spec == Init /\ [][Next]_vars

(* The process runs; nothing makes the user edit or start a build.           *)
FairSpec == Spec /\ WF_vars(Build)

-----------------------------------------------------------------------------
Marks == SUBSET Outputs

(* Every variable has its type, and what a process knows of its inputs,      *)
(* cmd_build.c's BuildState, is empty when no process runs.                  *)
TypeOK ==
  /\ \A s \in Sources : source[s] = None \/ source[s] \in Docs
  /\ \A t \in Templates : template[t] = None \/ template[t].body \in TemplateBodies
  /\ config \in Recipes /\ asset \in Assets \cup {None} /\ clock \in 0..MaxClock
  /\ DOMAIN tree = Outputs
  /\ \A r \in cache.content : r.name \in Pages /\ r.stamp \in Stamps \cup {None}
  /\ \A r \in cache.templates : r.name \in Templates /\ r.stamp # None
  /\ \A s \in Sources : build.docs[s] = None \/ build.docs[s] \in Docs
  /\ build.paths \subseteq Sources /\ build.reading \subseteq build.paths
  /\ build.todo \subseteq (IF build.pc = "prune" THEN Outputs ELSE build.paths)
  /\ build.written \in Marks /\ build.kept \in Marks /\ build.removed \in Marks
  /\ build.written \cap build.kept = {}
  /\ (build.outcome # None) = (build.pc = "ended")
  /\ (build.pc = "idle") => build = NoBuild
  /\ settled \in BOOLEAN /\ faults \in 0..MaxFaults

(* A build that succeeds while its inputs stand still leaves in output_dir   *)
(* exactly the outputs a build of everything makes: what it kept from        *)
(* earlier builds, with the edits, failures and crashes in between, is       *)
(* current, and nothing stale is left.                                       *)
BuildCorrect ==
  build.pc = "ended" /\ build.outcome = "ok" /\ ~build.dry /\ build.quiet =>
    tree = FullTree(source, asset, template, config)

(* At any moment, also during a build and after a failed or killed one,      *)
(* what a build that started now would keep is current: the rows that match  *)
(* the files vouch for the output that is there.                             *)
CacheSound ==
  LET stats == [t \in Templates |-> Stamp(template[t])]
  IN cache.recipe = config /\ ~IsRejected(source, asset) =>
       /\ \A s \in Entries(source) :
            /\ FreshRows(cache, source, s, stats) # {}
            /\ source[s].body \notin AssetLinkers
            /\ tree[Out(source, s)] # None
            => tree[Out(source, s)] = PageOf(source, s, asset, template, config)
       /\ TemplatesMatch(cache, stats) /\ EntriesMatch(cache, source) /\ tree[Index] # None
            => tree[Index] = IndexOf(source, template, config)

(* A build changes output_dir or the cache only when it is no dry run, every *)
(* source it found has parsed, no two outputs collide and every link has a   *)
(* target: a rejected build leaves the disk as it found it.                  *)
ChangesAreChecked ==
  [][disk' # disk /\ clock' = clock =>
       /\ ~build.dry /\ build.reading = {}
       /\ \A s \in build.paths : build.docs[s] # None
       /\ ~IsRejected(build.docs, build.asset)]_vars

(* A dry run tells what the next build does when nothing changes in between: *)
(* a build that succeeds writes, keeps and removes the listed paths, and one *)
(* is rejected exactly when the dry run was.                                 *)
DryRunPredicts ==
  build.pc = "ended" /\ ~build.dry /\ plan # NoPlan /\ plan.forced = build.forced =>
    /\ (build.outcome = "rejected") = (plan.outcome = "rejected")
    /\ build.outcome = "ok" =>
         /\ plan.outcome = "ok"
         /\ plan.written = build.written /\ plan.kept = build.kept
         /\ plan.removed = build.removed

(* The cache is worth having: the build after a build that completed, with   *)
(* nothing changed since, keeps every aggregate and every page but those     *)
(* that link an asset, and finds nothing stale.                              *)
NothingToDo ==
  build.pc = "ended" /\ settled /\ ~build.forced =>
    /\ build.outcome \in {"ok", "failed"} /\ build.removed = {}
    /\ build.outcome = "ok" =>
         \A o \in build.written \ Assets :
           \E s \in Entries(source) : o = Out(source, s) /\ source[s].body \in AssetLinkers

(* A build that runs comes to an end. *)
BuildEnds == build.pc # "idle" ~> build.pc = "idle"

(* A page that links another entry names the URL that entry has now.         *)
LinksAreCurrent ==
  build.pc = "ended" /\ build.outcome = "ok" /\ ~build.dry /\ build.quiet =>
    \A s \in Entries(source) :
      HasEntryLink(source, s) => tree[Out(source, s)].link = LinkUrl(source, s)

=============================================================================
