-------------------------- MODULE SiteBuildProofs --------------------------
(***************************************************************************)
(* For every site, every edit and every fault: a build changes output_dir   *)
(* and the cache only after every check passed, and a dry run never does;   *)
(* a dry run's list is what the next build does, and a build after one that *)
(* completed finds nothing to do, while nothing changed in between.         *)
(***************************************************************************)
EXTENDS SiteBuild, FiniteSetTheorems, TLAPS

Fields == DOMAIN NoBuild

(* The part of the process's memory that the checks read. *)
MemoryInv ==
  /\ DOMAIN build = Fields
  /\ build.docs \in [Sources -> Docs \cup {None}]
  /\ build.paths \subseteq Sources /\ build.reading \subseteq build.paths
  /\ build.dry \in BOOLEAN

FilesInv ==
  /\ source \in [Sources -> Docs \cup {None}]
  /\ clock \in 0..MaxClock

(* Parsing: a source that was taken up has its entry, or the build has an   *)
(* error.                                                                   *)
ParseInv ==
  /\ build.pc = "walk" => build.reading = {}
  /\ build.pc = "parse" =>
       /\ build.todo \subseteq build.paths
       /\ \A s \in build.reading : build.docs[s] # None
       /\ build.errors \/ \A s \in build.paths \ build.todo : build.docs[s] # None
  /\ build.pc \in {"stat", "convert"} =>
       /\ build.reading = {}
       /\ build.errors \/ \A s \in build.paths : build.docs[s] # None

Writing == {"empty", "pages", "index", "copy", "rows", "prune"}

(* What every step from the first write on may rely on. *)
CheckedInv ==
  build.pc \in Writing =>
    /\ build.reading = {}
    /\ \A s \in build.paths : build.docs[s] # None
    /\ ~IsRejected(build.docs, build.asset)

IInv == MemoryInv /\ FilesInv /\ ParseInv /\ CheckedInv

-----------------------------------------------------------------------------
LEMMA FieldsDef ==
  Fields = {"pc", "forced", "dry", "quiet", "outcome", "recipe", "paths", "asset", "todo",
            "reading", "docs", "errors", "rows", "stats", "fresh", "aggregatesFresh", "flags",
            "written", "kept", "removed"}
BY DEF Fields, NoBuild

LEMMA NoBuildInv ==
  ASSUME build' = NoBuild
  PROVE  MemoryInv' /\ ParseInv' /\ CheckedInv'
BY DEF NoBuild, MemoryInv, ParseInv, CheckedInv, Writing, Fields

LEMMA StampType ==
  ASSUME NEW file \in Docs \cup {None}
  PROVE  Stamp(file) \in Stamps \cup {None}
BY SiteBuildAssumption DEF Stamp, Docs

LEMMA InitIInv == Init => IInv
<1> SUFFICES ASSUME Init PROVE IInv
  OBVIOUS
<1>1. MemoryInv /\ ParseInv /\ CheckedInv
  BY DEF Init, NoBuild, MemoryInv, ParseInv, CheckedInv, Writing, Fields
<1>2. FilesInv
  BY SiteBuildAssumption DEF Init, FilesInv
<1> QED
  BY <1>1, <1>2 DEF IInv

(* The user's edits touch the process in nothing but "quiet". *)
LEMMA DisturbInv ==
  ASSUME MemoryInv, ParseInv, CheckedInv, Disturb
  PROVE  MemoryInv' /\ ParseInv' /\ CheckedInv'
<1>1. /\ DOMAIN build' = Fields
      /\ build'.pc = build.pc /\ build'.docs = build.docs /\ build'.paths = build.paths
      /\ build'.reading = build.reading /\ build'.dry = build.dry
      /\ build'.todo = build.todo /\ build'.errors = build.errors /\ build'.asset = build.asset
  BY FieldsDef DEF Disturb, MemoryInv
<1>2. MemoryInv'
  BY <1>1 DEF MemoryInv
<1>3. ParseInv'
  BY <1>1 DEF ParseInv
<1>4. CheckedInv'
  BY <1>1 DEF CheckedInv, IsRejected, Collides, Entries, Out, IsLinkBroken, IsAssetLinkBroken,
              HasEntryLink
<1> QED
  BY <1>2, <1>3, <1>4

LEMMA SaveType ==
  ASSUME clock \in 0..MaxClock, clock < MaxClock, NEW body \in Bodies
  PROVE  Save(body) \in Docs
BY SiteBuildAssumption DEF Save, Docs, Stamps

LEMMA UserStep == IInv /\ User => IInv'
<1> SUFFICES ASSUME IInv, User PROVE IInv'
  OBVIOUS
<1>0. MemoryInv /\ FilesInv /\ ParseInv /\ CheckedInv /\ MaxClock \in Nat
  BY SiteBuildAssumption DEF IInv
<1>1. Disturb
  BY DEF User, EditSource, DeleteSource, RenameSource, SwapSources, EditTemplate,
         DeleteTemplate, EditConfig, MoveAsset, DeleteOutput
<1>2. MemoryInv' /\ ParseInv' /\ CheckedInv'
  BY <1>0, <1>1, DisturbInv
<1>3. FilesInv'
  <2>1. ASSUME NEW s \in Sources, EditSource(s) PROVE FilesInv'
    BY <1>0, <2>1, SaveType DEF EditSource, FilesInv
  <2>2. ASSUME NEW s \in Sources, DeleteSource(s) PROVE FilesInv'
    BY <1>0, <2>2 DEF DeleteSource, FilesInv
  <2>3. ASSUME NEW s \in Sources, NEW t \in Sources, RenameSource(s, t) PROVE FilesInv'
    BY <1>0, <2>3 DEF RenameSource, FilesInv
  <2>4. ASSUME NEW s \in Sources, NEW t \in Sources, SwapSources(s, t) PROVE FilesInv'
    BY <1>0, <2>4 DEF SwapSources, FilesInv
  <2>5. ASSUME source' = source, clock < MaxClock, clock' = clock + 1 PROVE FilesInv'
    BY <1>0, <2>5 DEF FilesInv
  <2> QED
    BY <2>1, <2>2, <2>3, <2>4, <2>5
       DEF User, EditTemplate, DeleteTemplate, EditConfig, MoveAsset, DeleteOutput
<1> QED
  BY <1>2, <1>3 DEF IInv

-----------------------------------------------------------------------------
(* A build step leaves the input files alone. *)
LEMMA BuildInputs ==
  ASSUME Start \/ Build \/ Crash
  PROVE  UNCHANGED inputs
BY DEF Start, Build, Crash, Memory, WalkInputs, StatSource, ReadSource, ReadCache, StatTemplates,
       ConvertBodies, EmptyCache, KeepPage, RenderPage, EndPages, KeepIndex, RenderIndex,
       CopyAsset, WriteCache, RemoveStale, EndPrune, Exit

LEMMA StartStep == IInv /\ (Start \/ WalkInputs) => MemoryInv' /\ ParseInv' /\ CheckedInv'
<1> SUFFICES ASSUME IInv, Start \/ WalkInputs PROVE MemoryInv' /\ ParseInv' /\ CheckedInv'
  OBVIOUS
<1>1. CASE Start
  <2>1. PICK mode \in Modes :
          build' = [NoBuild EXCEPT !.pc = "walk", !.forced = mode.forced, !.dry = mode.dry,
                                   !.quiet = TRUE, !.recipe = config]
    BY <1>1 DEF Start
  <2>2. mode.dry \in BOOLEAN
    BY SiteBuildAssumption
  <2>3. /\ DOMAIN build' = Fields
        /\ build'.pc = "walk" /\ build'.dry = mode.dry /\ build'.reading = {}
        /\ build'.paths = {} /\ build'.docs = [s \in Sources |-> None]
    BY <2>1 DEF NoBuild, Fields
  <2> QED
    BY <2>2, <2>3 DEF MemoryInv, ParseInv, CheckedInv, Writing
<1>2. CASE WalkInputs
  <2> DEFINE found == {s \in Sources : source[s] # None}
  <2>1. /\ DOMAIN build' = Fields
        /\ build'.pc = "parse" /\ build'.dry = build.dry /\ build'.reading = build.reading
        /\ build'.paths = found /\ build'.todo = found /\ build'.docs = build.docs
    BY <1>2, FieldsDef DEF WalkInputs, IInv, MemoryInv
  <2>2. build.reading = {}
    BY <1>2 DEF WalkInputs, IInv, ParseInv
  <2> QED
    BY <2>1, <2>2 DEF IInv, MemoryInv, ParseInv, CheckedInv, Writing
<1> QED
  BY <1>1, <1>2

LEMMA StatSourceStep ==
  ASSUME IInv, NEW s \in Sources, StatSource(s)
  PROVE  MemoryInv' /\ ParseInv' /\ CheckedInv'
<1> DEFINE doc == [stamp |-> Stamp(source[s]), body |-> None]
<1>1. doc \in Docs /\ doc # None
  BY StampType, SiteBuildAssumption DEF IInv, FilesInv, Docs
<1>2. /\ DOMAIN build' = Fields /\ build.pc = "parse" /\ s \in build.todo
      /\ build'.pc = "parse" /\ build'.dry = build.dry /\ build'.paths = build.paths
      /\ build'.errors = build.errors
      /\ build'.reading = build.reading \cup {s} /\ build'.todo = build.todo \ {s}
      /\ build'.docs = [build.docs EXCEPT ![s] = doc]
  BY FieldsDef DEF StatSource, IInv, MemoryInv
<1>3. build'.docs \in [Sources -> Docs \cup {None}]
      /\ \A u \in Sources : build'.docs[u] = IF u = s THEN doc ELSE build.docs[u]
  BY <1>1, <1>2 DEF IInv, MemoryInv
<1>4. build.paths \subseteq Sources /\ build.reading \subseteq build.paths
      /\ build.dry \in BOOLEAN /\ build.todo \subseteq build.paths
  BY <1>2 DEF IInv, MemoryInv, ParseInv
<1>5. MemoryInv'
  BY <1>2, <1>3, <1>4 DEF MemoryInv
<1>6. ParseInv'
  BY <1>1, <1>2, <1>3, <1>4 DEF IInv, ParseInv
<1> QED
  BY <1>2, <1>5, <1>6 DEF CheckedInv, Writing

LEMMA ReadSourceStep ==
  ASSUME IInv, NEW s \in Sources, ReadSource(s)
  PROVE  MemoryInv' /\ ParseInv' /\ CheckedInv'
<1>0. /\ build.pc = "parse" /\ s \in build.reading /\ DOMAIN build = Fields
      /\ build.docs \in [Sources -> Docs \cup {None}]
      /\ build.paths \subseteq Sources /\ build.reading \subseteq build.paths
      /\ build.dry \in BOOLEAN /\ build.todo \subseteq build.paths
  BY DEF ReadSource, IInv, MemoryInv, ParseInv
<1>1. CASE source[s] = None
  <2>1. /\ DOMAIN build' = Fields /\ build'.pc = "parse" /\ build'.dry = build.dry
        /\ build'.paths = build.paths /\ build'.errors = TRUE /\ build'.todo = build.todo
        /\ build'.reading = build.reading \ {s}
        /\ build'.docs = [build.docs EXCEPT ![s] = None]
    BY <1>0, <1>1, FieldsDef DEF ReadSource
  <2>2. build'.docs \in [Sources -> Docs \cup {None}]
        /\ \A u \in Sources \ {s} : build'.docs[u] = build.docs[u]
    BY <1>0, <2>1
  <2>3. MemoryInv'
    BY <1>0, <2>1, <2>2 DEF MemoryInv
  <2>4. ParseInv'
    BY <1>0, <2>1, <2>2 DEF IInv, ParseInv
  <2> QED
    BY <2>1, <2>3, <2>4 DEF CheckedInv, Writing
<1>2. CASE source[s] # None
  <2> DEFINE doc == [build.docs[s] EXCEPT !.body = source[s].body]
  <2>1. build.docs[s] \in Docs
    BY <1>0 DEF IInv, ParseInv
  <2>2. source[s] \in Docs
    BY <1>2 DEF IInv, FilesInv
  <2>3. doc \in Docs /\ doc # None
    BY <2>1, <2>2, SiteBuildAssumption DEF Docs
  <2>4. /\ DOMAIN build' = Fields /\ build'.pc = "parse" /\ build'.dry = build.dry
        /\ build'.paths = build.paths /\ build'.errors = build.errors
        /\ build'.todo = build.todo /\ build'.reading = build.reading \ {s}
        /\ build'.docs = [build.docs EXCEPT ![s] = doc]
    BY <1>0, <1>2, FieldsDef DEF ReadSource
  <2>5. build'.docs \in [Sources -> Docs \cup {None}]
        /\ \A u \in Sources : build'.docs[u] = IF u = s THEN doc ELSE build.docs[u]
    BY <1>0, <2>3, <2>4
  <2>6. MemoryInv'
    BY <1>0, <2>4, <2>5 DEF MemoryInv
  <2>7. ParseInv'
    BY <1>0, <2>3, <2>4, <2>5 DEF IInv, ParseInv
  <2> QED
    BY <2>4, <2>6, <2>7 DEF CheckedInv, Writing
<1> QED
  BY <1>1, <1>2

(* What a step after the parse leaves as it was. *)
SameEntries ==
  /\ DOMAIN build' = Fields
  /\ build'.docs = build.docs /\ build'.paths = build.paths /\ build'.asset = build.asset
  /\ build'.reading = build.reading /\ build'.dry = build.dry

LEMMA SameEntriesInv ==
  ASSUME IInv, SameEntries
  PROVE  /\ MemoryInv'
         /\ IsRejected(build.docs, build.asset)' = IsRejected(build.docs, build.asset)
BY DEF IInv, MemoryInv, SameEntries, IsRejected, Collides, Entries, Out, IsLinkBroken,
       IsAssetLinkBroken, HasEntryLink

(* From the first write on, no step takes back what was checked. *)
LEMMA WritingStep ==
  ASSUME IInv, SameEntries, build.pc \in Writing, build'.pc \in Writing \cup {"ended"}
  PROVE  MemoryInv' /\ ParseInv' /\ CheckedInv'
<1>1. /\ build.reading = {} /\ \A s \in build.paths : build.docs[s] # None
      /\ ~IsRejected(build.docs, build.asset)
  BY DEF IInv, CheckedInv
<1>2. MemoryInv' /\ CheckedInv'
  BY <1>1, SameEntriesInv DEF CheckedInv, SameEntries
<1>3. ParseInv'
  BY DEF ParseInv, Writing
<1> QED
  BY <1>2, <1>3

(* The end of the parse, the stats and the checks. *)
LEMMA CheckStep ==
  ASSUME IInv, ReadCache \/ StatTemplates \/ ConvertBodies
  PROVE  MemoryInv' /\ ParseInv' /\ CheckedInv'
<1>0. SameEntries
  <2>0. DOMAIN build = Fields
    BY DEF IInv, MemoryInv
  <2>1. CASE ReadCache
    BY <2>0, <2>1, FieldsDef DEF SameEntries, ReadCache
  <2>2. CASE StatTemplates
    BY <2>0, <2>2, FieldsDef DEF SameEntries, StatTemplates
  <2>3. CASE ConvertBodies
    <3>1. CASE End("rejected")
      BY <2>0, <3>1, FieldsDef DEF SameEntries, End
    <3>2. CASE \E fresh : build' = [build EXCEPT !.pc = "empty", !.fresh = fresh]
      BY <2>0, <3>2, FieldsDef DEF SameEntries
    <3> QED
      BY <2>3, <3>1, <3>2 DEF ConvertBodies
  <2> QED
    BY <2>1, <2>2, <2>3
<1>1. MemoryInv'
  BY <1>0, SameEntriesInv
<1>2. CASE ReadCache
  <2>1. build.pc = "parse" /\ build.todo = {} /\ build.reading = {}
        /\ build'.pc = "stat" /\ build'.errors = build.errors
    BY <1>2, FieldsDef DEF IInv, MemoryInv, ReadCache
  <2> QED
    BY <1>0, <1>1, <2>1 DEF IInv, ParseInv, CheckedInv, SameEntries, Writing
<1>3. CASE StatTemplates
  <2>1. build.pc = "stat" /\ build'.pc = "convert" /\ build'.errors = build.errors
    BY <1>3, FieldsDef DEF IInv, MemoryInv, StatTemplates
  <2> QED
    BY <1>0, <1>1, <2>1 DEF IInv, ParseInv, CheckedInv, SameEntries, Writing
<1>4. CASE ConvertBodies
  <2>1. CASE build.errors \/ IsRejected(build.docs, build.asset)
    <3>1. build'.pc = "ended"
      BY <1>4, <2>1, FieldsDef DEF IInv, MemoryInv, ConvertBodies, End
    <3> QED
      BY <1>1, <3>1 DEF ParseInv, CheckedInv, Writing
  <2>2. CASE ~(build.errors \/ IsRejected(build.docs, build.asset))
    <3>1. build.pc = "convert" /\ build'.pc = "empty"
      BY <1>4, <2>2, FieldsDef DEF IInv, MemoryInv, ConvertBodies
    <3>2. build.reading = {} /\ \A s \in build.paths : build.docs[s] # None
      BY <2>2, <3>1 DEF IInv, ParseInv
    <3>3. CheckedInv'
      BY <1>0, <2>2, <3>2, SameEntriesInv DEF CheckedInv, SameEntries
    <3> QED
      BY <1>1, <3>1, <3>3 DEF ParseInv
  <2> QED
    BY <2>1, <2>2
<1> QED
  BY <1>2, <1>3, <1>4

(* What a build works on, from the first write on. *)
SameRead ==
  /\ SameEntries
  /\ build'.recipe = build.recipe /\ build'.stats = build.stats
  /\ build'.fresh = build.fresh /\ build'.aggregatesFresh = build.aggregatesFresh
  /\ build'.quiet = build.quiet /\ build'.forced = build.forced

Write ==
  \/ EmptyCache \/ EndPages \/ KeepIndex \/ RenderIndex \/ CopyAsset \/ WriteCache \/ EndPrune
  \/ \E s \in Sources : KeepPage(s) \/ RenderPage(s)
  \/ \E o \in Outputs : RemoveStale(o)

LEMMA ReadStays ==
  ASSUME DOMAIN build = Fields, Write
  PROVE  /\ SameRead /\ build.pc \in Writing
         /\ build'.pc \in (Writing \ {"empty"}) \cup {"ended"}
<1>1. ASSUME NEW outcome, End(outcome) PROVE SameRead /\ build'.pc = "ended"
  BY <1>1, FieldsDef DEF End, SameRead, SameEntries
<1>2. CASE EmptyCache
  <2>1. CASE build' = [build EXCEPT !.pc = "pages", !.todo = Entries(build.docs)]
    BY <1>2, <2>1, FieldsDef DEF EmptyCache, SameRead, SameEntries, Writing
  <2> QED
    BY <1>1, <1>2, <2>1 DEF EmptyCache, Writing
<1>3. CASE EndPages \/ KeepIndex \/ EndPrune
  <2>1. CASE build' = [build EXCEPT !.pc = "index"]
    BY <1>3, <2>1, FieldsDef DEF EndPages, KeepIndex, EndPrune, SameRead, SameEntries, Writing
  <2>2. CASE build' = [build EXCEPT !.pc = "copy", !.kept = @ \cup {Index}]
    BY <1>3, <2>2, FieldsDef DEF EndPages, KeepIndex, EndPrune, SameRead, SameEntries, Writing
  <2>3. CASE \E outcome : End(outcome)
    BY <1>1, <1>3, <2>3 DEF EndPages, KeepIndex, EndPrune, Writing
  <2> QED
    BY <1>3, <2>1, <2>2, <2>3 DEF EndPages, KeepIndex, EndPrune
<1>4. CASE RenderIndex
  <2>1. CASE build' = [build EXCEPT !.pc = "copy", !.written = @ \cup {Index}]
    BY <1>4, <2>1, FieldsDef DEF RenderIndex, SameRead, SameEntries, Writing
  <2> QED
    BY <1>1, <1>4, <2>1 DEF RenderIndex, Writing
<1>5. CASE CopyAsset
  <2>1. CASE build' = [build EXCEPT !.pc = "rows"]
    BY <1>5, <2>1, FieldsDef DEF CopyAsset, SameRead, SameEntries, Writing
  <2>2. CASE build' = [build EXCEPT !.pc = "rows", !.written = @ \cup {build.asset}]
    BY <1>5, <2>2, FieldsDef DEF CopyAsset, SameRead, SameEntries, Writing
  <2> QED
    BY <1>1, <1>5, <2>1, <2>2 DEF CopyAsset, Writing
<1>6. CASE WriteCache
  <2>1. CASE \E stale : build' = [build EXCEPT !.pc = "prune", !.todo = stale]
    BY <1>6, <2>1, FieldsDef DEF WriteCache, SameRead, SameEntries, Writing
  <2> QED
    BY <1>1, <1>6, <2>1 DEF WriteCache, Writing
<1>7. ASSUME NEW s \in Sources, KeepPage(s)
      PROVE  SameRead /\ build.pc = "pages" /\ build'.pc = "pages"
  <2>1. PICK row : build' = [build EXCEPT !.todo = @ \ {s}, !.kept = @ \cup {Page(s)},
                                          !.flags[s] = row.list]
    BY <1>7 DEF KeepPage
  <2>2. build.pc = "pages"
    BY <1>7 DEF KeepPage
  <2> QED
    BY <2>1, <2>2, FieldsDef DEF SameRead, SameEntries
<1>8. ASSUME NEW s \in Sources, RenderPage(s)
      PROVE  SameRead /\ build.pc = "pages" /\ build'.pc = "pages"
  <2>0. build.pc = "pages"
    BY <1>8 DEF RenderPage
  <2>1. CASE build' = [build EXCEPT !.todo = @ \ {s}, !.errors = TRUE]
    BY <2>0, <2>1, FieldsDef DEF SameRead, SameEntries
  <2>2. CASE \E ok : build' = [build EXCEPT !.todo = @ \ {s}, !.errors = @ \/ ~ok,
                                 !.written = @ \cup {Page(s)},
                                 !.flags[s] = ReadsList(template, ContentTemplate)]
    BY <2>0, <2>2, FieldsDef DEF SameRead, SameEntries
  <2> QED
    BY <1>8, <2>1, <2>2 DEF RenderPage
<1>9. ASSUME NEW o \in Outputs, RemoveStale(o)
      PROVE  SameRead /\ build.pc = "prune" /\ build'.pc = "prune"
  <2>1. CASE build' = [build EXCEPT !.todo = @ \ {o}, !.removed = @ \cup {o}]
    BY <1>9, <2>1, FieldsDef DEF RemoveStale, SameRead, SameEntries
  <2>2. CASE build' = [build EXCEPT !.todo = @ \ {o}, !.errors = TRUE]
    BY <1>9, <2>2, FieldsDef DEF RemoveStale, SameRead, SameEntries
  <2> QED
    BY <1>9, <2>1, <2>2 DEF RemoveStale
<1> QED
  BY <1>2, <1>3, <1>4, <1>5, <1>6, <1>7, <1>8, <1>9 DEF Write, Writing

LEMMA WriteStep ==
  ASSUME IInv, Write
  PROVE  MemoryInv' /\ ParseInv' /\ CheckedInv'
<1>1. DOMAIN build = Fields
  BY DEF IInv, MemoryInv
<1> QED
  BY <1>1, ReadStays, WritingStep DEF SameRead

LEMMA StepIInv == IInv /\ [Next]_vars => IInv'
<1>1. CASE IInv /\ User
  BY <1>1, UserStep
<1>2. ASSUME IInv, Start \/ Build \/ Crash PROVE IInv'
  <2>1. FilesInv'
    BY <1>2, BuildInputs DEF IInv, FilesInv, inputs
  <2>2. CASE Start \/ WalkInputs
    BY <1>2, <2>1, <2>2, StartStep DEF IInv
  <2>3. CASE \E s \in Sources : StatSource(s) \/ ReadSource(s)
    BY <1>2, <2>1, <2>3, StatSourceStep, ReadSourceStep DEF IInv
  <2>4. CASE ReadCache \/ StatTemplates \/ ConvertBodies
    BY <1>2, <2>1, <2>4, CheckStep DEF IInv
  <2>5. CASE Exit \/ Crash
    BY <2>1, <2>5, NoBuildInv DEF IInv, Exit, Crash
  <2>6. CASE \/ EmptyCache \/ EndPages \/ KeepIndex \/ RenderIndex \/ CopyAsset \/ WriteCache
             \/ EndPrune
             \/ \E s \in Sources : KeepPage(s) \/ RenderPage(s)
             \/ \E o \in Outputs : RemoveStale(o)
    BY <1>2, <2>1, <2>6, WriteStep DEF IInv, Write
  <2> QED
    BY <1>2, <2>2, <2>3, <2>4, <2>5, <2>6 DEF Build
<1>3. ASSUME IInv, UNCHANGED vars PROVE IInv'
  BY <1>3 DEF IInv, MemoryInv, FilesInv, ParseInv, CheckedInv, vars, inputs, IsRejected, Collides,
     Entries, Out, IsLinkBroken, IsAssetLinkBroken, HasEntryLink
<1> QED
  BY <1>1, <1>2, <1>3 DEF Next

(* The memory of every build is consistent with the checks it has passed.   *)
THEOREM Consistent == Spec => []IInv
BY InitIInv, StepIInv, PTL DEF Spec

(* Only a step of the phases that write changes output_dir or the cache.    *)
LEMMA ChangingStep ==
  ASSUME Next, disk' # disk, clock' = clock, FilesInv
  PROVE  build.pc \in Writing /\ ~build.dry
<1>1. ~User
  BY SiteBuildAssumption DEF FilesInv, User, EditSource, DeleteSource, RenameSource, SwapSources,
     EditTemplate, DeleteTemplate, EditConfig, MoveAsset, DeleteOutput
<1>2. ~Start /\ ~Crash /\ ~WalkInputs /\ ~ReadCache /\ ~StatTemplates /\ ~ConvertBodies
      /\ ~EndPages /\ ~KeepIndex /\ ~EndPrune /\ ~Exit
  BY DEF Start, Crash, WalkInputs, ReadCache, StatTemplates, ConvertBodies, EndPages, KeepIndex,
     EndPrune, Exit, Memory
<1>3. \A s \in Sources : ~StatSource(s) /\ ~ReadSource(s) /\ ~KeepPage(s)
  BY DEF StatSource, ReadSource, KeepPage, Memory
<1>4. CASE EmptyCache
  BY <1>4 DEF EmptyCache, Writing, disk
<1>5. CASE RenderIndex
  BY <1>5 DEF RenderIndex, WriteOutput, Writing, disk
<1>6. CASE CopyAsset
  BY <1>6 DEF CopyAsset, WriteOutput, Writing, disk
<1>7. CASE WriteCache
  BY <1>7 DEF WriteCache, Writing, disk
<1>8. CASE \E s \in Sources : RenderPage(s)
  BY <1>8 DEF RenderPage, WriteOutput, Writing, disk
<1>9. CASE \E o \in Outputs : RemoveStale(o)
  BY <1>9 DEF RemoveStale, Writing, disk
<1> QED
  BY <1>1, <1>2, <1>3, <1>4, <1>5, <1>6, <1>7, <1>8, <1>9 DEF Next, Build

(* For every site and every edit, fault and interleaving: a build changes   *)
(* the disk only when it is no dry run and every check of its inputs passed *)
(* (cmd_build.c: "Nothing before this point writes").                       *)
THEOREM ChangesOnlyChecked == Spec => ChangesAreChecked
<1>1. IInv /\ [Next]_vars =>
        [disk' # disk /\ clock' = clock =>
           /\ ~build.dry /\ build.reading = {}
           /\ \A s \in build.paths : build.docs[s] # None
           /\ ~IsRejected(build.docs, build.asset)]_vars
  BY ChangingStep DEF IInv, CheckedInv
<1> QED
  BY <1>1, Consistent, PTL DEF Spec, ChangesAreChecked

-----------------------------------------------------------------------------
(* What each step that may write does to the marks of the process.          *)
SameMarks ==
  build'.written = build.written /\ build'.kept = build.kept /\ build'.removed = build.removed

Goes(pc) == build'.pc = pc /\ build'.outcome = build.outcome

Ends(outcome) ==
  /\ build'.pc = "ended" /\ build'.outcome = outcome
  /\ build'.todo = build.todo /\ build'.errors = build.errors /\ SameMarks

LEMMA EndDoes ==
  ASSUME DOMAIN build = Fields, NEW outcome, End(outcome)
  PROVE  Ends(outcome)
BY FieldsDef DEF End, Ends, SameMarks

LEMMA EmptyCacheDoes ==
  ASSUME DOMAIN build = Fields, EmptyCache
  PROVE  /\ build.pc = "empty" /\ tree' = tree /\ cache' \in {cache, NoCache}
         /\ \/ /\ Goes("pages") /\ build'.todo = Entries(build.docs) /\ SameMarks
               /\ build'.errors = build.errors
            \/ Ends("failed") /\ ~build.dry
<1>1. build.pc = "empty" /\ tree' = tree /\ cache' \in {cache, NoCache}
  BY DEF EmptyCache
<1>2. CASE build' = [build EXCEPT !.pc = "pages", !.todo = Entries(build.docs)]
  BY <1>1, <1>2, FieldsDef DEF Goes, SameMarks
<1>3. CASE End("failed") /\ ~build.dry
  BY <1>1, <1>3, EndDoes
<1> QED
  BY <1>2, <1>3 DEF EmptyCache

LEMMA KeepPageDoes ==
  ASSUME DOMAIN build = Fields, NEW s \in Sources, KeepPage(s)
  PROVE  /\ build.pc = "pages" /\ s \in build.todo /\ UNCHANGED disk /\ Goes("pages")
         /\ build.fresh[s] # {} /\ tree[Page(s)] # None
         /\ build'.todo = build.todo \ {s} /\ build'.errors = build.errors
         /\ build'.kept = build.kept \cup {Page(s)}
         /\ build'.written = build.written /\ build'.removed = build.removed
<1>1. PICK row : build' = [build EXCEPT !.todo = @ \ {s}, !.kept = @ \cup {Page(s)},
                                        !.flags[s] = row.list]
  BY DEF KeepPage
<1>2. /\ build.pc = "pages" /\ s \in build.todo /\ UNCHANGED disk
      /\ build.fresh[s] # {} /\ tree[Page(s)] # None
  BY DEF KeepPage, Memory
<1> QED
  BY <1>1, <1>2, FieldsDef DEF Goes

LEMMA RenderPageDoes ==
  ASSUME DOMAIN build = Fields, NEW s \in Sources, RenderPage(s)
  PROVE  /\ build.pc = "pages" /\ s \in build.todo /\ cache' = cache /\ Goes("pages")
         /\ build.fresh[s] = {} \/ tree[Page(s)] = None
         /\ build'.todo = build.todo \ {s}
         /\ build'.kept = build.kept /\ build'.removed = build.removed
         /\ \/ /\ RenderFails(template, ContentTemplate) /\ build'.errors = TRUE
               /\ build'.written = build.written /\ UNCHANGED <<tree, faults>>
            \/ /\ ~RenderFails(template, ContentTemplate)
               /\ \E ok \in BOOLEAN :
                    /\ WriteOutput(Page(s),
                         PageOf(build.docs, s, build.asset, template, build.recipe), ok)
                    /\ build'.errors = (build.errors \/ ~ok)
                    /\ build'.written = build.written \cup {Page(s)}
<1>0. /\ build.pc = "pages" /\ s \in build.todo /\ cache' = cache
      /\ build.fresh[s] = {} \/ tree[Page(s)] = None
  BY DEF RenderPage
<1>1. CASE RenderFails(template, ContentTemplate)
  <2>1. build' = [build EXCEPT !.todo = @ \ {s}, !.errors = TRUE] /\ UNCHANGED <<tree, faults>>
    BY <1>1 DEF RenderPage
  <2> QED
    BY <1>0, <1>1, <2>1, FieldsDef DEF Goes
<1>2. CASE ~RenderFails(template, ContentTemplate)
  <2>1. PICK list : list = ReadsList(template, ContentTemplate)
    OBVIOUS
  <2>2. PICK page : page = PageOf(build.docs, s, build.asset, template, build.recipe)
    OBVIOUS
  <2>3. PICK ok \in BOOLEAN :
          /\ WriteOutput(Page(s), page, ok)
          /\ build' = [build EXCEPT !.todo = @ \ {s}, !.errors = @ \/ ~ok,
                         !.written = @ \cup {Page(s)}, !.flags[s] = list]
    BY <1>2, <2>1, <2>2 DEF RenderPage
  <2>4. /\ Goes("pages") /\ build'.todo = build.todo \ {s}
        /\ build'.kept = build.kept /\ build'.removed = build.removed
        /\ build'.errors = (build.errors \/ ~ok)
        /\ build'.written = build.written \cup {Page(s)}
    BY <1>0, <2>3, FieldsDef DEF Goes
  <2> QED
    BY <1>0, <1>2, <2>2, <2>3, <2>4
<1> QED
  BY <1>1, <1>2

LEMMA EndPagesDoes ==
  ASSUME DOMAIN build = Fields, EndPages
  PROVE  /\ build.pc = "pages" /\ build.todo = {} /\ UNCHANGED disk
         /\ \/ build.errors /\ Ends("failed")
            \/ /\ ~build.errors /\ Goes("index") /\ build'.todo = build.todo /\ SameMarks
               /\ build'.errors = build.errors
<1>0. build.pc = "pages" /\ build.todo = {} /\ UNCHANGED disk
  BY DEF EndPages, Memory
<1>1. CASE build.errors
  BY <1>0, <1>1, EndDoes DEF EndPages
<1>2. CASE ~build.errors
  <2>1. build' = [build EXCEPT !.pc = "index"]
    BY <1>2 DEF EndPages
  <2> QED
    BY <1>0, <1>2, <2>1, FieldsDef DEF Goes, SameMarks
<1> QED
  BY <1>1, <1>2

LEMMA KeepIndexDoes ==
  ASSUME DOMAIN build = Fields, KeepIndex
  PROVE  /\ build.pc = "index" /\ UNCHANGED disk /\ Goes("copy")
         /\ build.aggregatesFresh /\ tree[Index] # None
         /\ build'.todo = build.todo /\ build'.errors = build.errors
         /\ build'.kept = build.kept \cup {Index}
         /\ build'.written = build.written /\ build'.removed = build.removed
<1>1. /\ build.pc = "index" /\ UNCHANGED disk /\ build.aggregatesFresh /\ tree[Index] # None
      /\ build' = [build EXCEPT !.pc = "copy", !.kept = @ \cup {Index}]
  BY DEF KeepIndex, Memory
<1> QED
  BY <1>1, FieldsDef DEF Goes

LEMMA RenderIndexDoes ==
  ASSUME DOMAIN build = Fields, RenderIndex
  PROVE  /\ build.pc = "index" /\ cache' = cache /\ (~build.aggregatesFresh \/ tree[Index] = None)
         /\ \/ /\ RenderFails(template, IndexTemplate) /\ Ends("failed")
               /\ UNCHANGED <<tree, faults>>
            \/ /\ ~RenderFails(template, IndexTemplate)
               /\ \E ok \in BOOLEAN :
                    /\ WriteOutput(Index, IndexOf(build.docs, template, build.recipe), ok)
                    /\ \/ /\ ok /\ Goes("copy") /\ build'.todo = build.todo
                          /\ build'.errors = build.errors
                          /\ build'.written = build.written \cup {Index}
                          /\ build'.kept = build.kept /\ build'.removed = build.removed
                       \/ ~ok /\ Ends("failed")
<1>0. /\ build.pc = "index" /\ cache' = cache /\ (~build.aggregatesFresh \/ tree[Index] = None)
  BY DEF RenderIndex
<1>1. CASE RenderFails(template, IndexTemplate)
  BY <1>0, <1>1, EndDoes DEF RenderIndex
<1>2. CASE ~RenderFails(template, IndexTemplate)
  <2>1. PICK ok \in BOOLEAN :
          /\ WriteOutput(Index, IndexOf(build.docs, template, build.recipe), ok)
          /\ IF ok THEN build' = [build EXCEPT !.pc = "copy", !.written = @ \cup {Index}]
                   ELSE End("failed")
    BY <1>2 DEF RenderIndex
  <2>2. CASE ok
    <3>1. build' = [build EXCEPT !.pc = "copy", !.written = @ \cup {Index}]
      BY <2>1, <2>2
    <3>2. /\ Goes("copy") /\ build'.todo = build.todo /\ build'.errors = build.errors
          /\ build'.written = build.written \cup {Index}
          /\ build'.kept = build.kept /\ build'.removed = build.removed
      BY <3>1, FieldsDef DEF Goes
    <3> QED
      BY <1>0, <1>2, <2>1, <2>2, <3>2
  <2>3. CASE ~ok
    BY <1>0, <1>2, <2>1, <2>3, EndDoes
  <2> QED
    BY <2>2, <2>3
<1> QED
  BY <1>1, <1>2

LEMMA CopyAssetDoes ==
  ASSUME DOMAIN build = Fields, CopyAsset
  PROVE  /\ build.pc = "copy" /\ cache' = cache
         /\ \/ /\ build.asset = None /\ Goes("rows") /\ build'.todo = build.todo /\ SameMarks
               /\ build'.errors = build.errors /\ UNCHANGED <<tree, faults>>
            \/ /\ build.asset # None /\ ~build.dry /\ asset # build.asset /\ Ends("failed")
               /\ UNCHANGED <<tree, faults>>
            \/ /\ build.asset # None
               /\ \E ok \in BOOLEAN :
                    /\ WriteOutput(build.asset, CopyOf(build.asset), ok)
                    /\ \/ /\ ok /\ Goes("rows") /\ build'.todo = build.todo
                          /\ build'.errors = build.errors
                          /\ build'.written = build.written \cup {build.asset}
                          /\ build'.kept = build.kept /\ build'.removed = build.removed
                       \/ ~ok /\ Ends("failed")
<1>0. build.pc = "copy" /\ cache' = cache
  BY DEF CopyAsset
<1>1. CASE build.asset = None
  <2>1. build' = [build EXCEPT !.pc = "rows"] /\ UNCHANGED <<tree, faults>>
    BY <1>1 DEF CopyAsset
  <2> QED
    BY <1>0, <1>1, <2>1, FieldsDef DEF Goes, SameMarks
<1>2. CASE build.asset # None /\ ~build.dry /\ asset # build.asset
  BY <1>0, <1>2, EndDoes DEF CopyAsset
<1>3. CASE build.asset # None /\ ~(~build.dry /\ asset # build.asset)
  <2>1. PICK ok \in BOOLEAN :
          /\ WriteOutput(build.asset, CopyOf(build.asset), ok)
          /\ IF ok THEN build' = [build EXCEPT !.pc = "rows", !.written = @ \cup {build.asset}]
                   ELSE End("failed")
    BY <1>3 DEF CopyAsset
  <2>2. CASE ok
    <3>1. build' = [build EXCEPT !.pc = "rows", !.written = @ \cup {build.asset}]
      BY <2>1, <2>2
    <3>2. /\ Goes("rows") /\ build'.todo = build.todo /\ build'.errors = build.errors
          /\ build'.written = build.written \cup {build.asset}
          /\ build'.kept = build.kept /\ build'.removed = build.removed
      BY <3>1, FieldsDef DEF Goes
    <3> QED
      BY <1>0, <1>3, <2>1, <2>2, <3>2
  <2>3. CASE ~ok
    BY <1>0, <1>3, <2>1, <2>3, EndDoes
  <2> QED
    BY <2>2, <2>3
<1> QED
  BY <1>1, <1>2, <1>3

LEMMA WriteCacheDoes ==
  ASSUME DOMAIN build = Fields, WriteCache
  PROVE  /\ build.pc = "rows" /\ tree' = tree
         /\ \/ /\ Goes("prune") /\ SameMarks /\ build'.errors = build.errors
               /\ build'.todo = {o \in Outputs : tree[o] # None} \ Manifest(build.docs, build.asset)
               /\ cache' = IF build.dry THEN cache ELSE Rows
            \/ /\ ~build.dry /\ Ends("failed")
               /\ cache' \in {cache, NoCache} \cup (IF AllowCut THEN Cuts(Rows) ELSE {})
<1> DEFINE stale == {o \in Outputs : tree[o] # None} \ Manifest(build.docs, build.asset)
<1>0. build.pc = "rows" /\ tree' = tree
  BY DEF WriteCache
<1>1. CASE /\ build' = [build EXCEPT !.pc = "prune", !.todo = stale]
           /\ cache' = IF build.dry THEN cache ELSE Rows
  <2> HIDE DEF stale
  <2>1. Goes("prune") /\ SameMarks /\ build'.errors = build.errors /\ build'.todo = stale
    BY <1>1, FieldsDef DEF Goes, SameMarks
  <2> QED
    BY <1>0, <1>1, <2>1 DEF stale
<1>2. CASE /\ ~build.dry /\ End("failed")
           /\ cache' \in {cache, NoCache} \cup (IF AllowCut THEN Cuts(Rows) ELSE {})
  BY <1>0, <1>2, EndDoes
<1> QED
  BY <1>1, <1>2 DEF WriteCache

LEMMA RemoveStaleDoes ==
  ASSUME DOMAIN build = Fields, NEW o \in Outputs, RemoveStale(o)
  PROVE  /\ build.pc = "prune" /\ o \in build.todo /\ cache' = cache /\ Goes("prune")
         /\ build'.todo = build.todo \ {o}
         /\ build'.written = build.written /\ build'.kept = build.kept
         /\ \/ /\ build'.errors = build.errors /\ build'.removed = build.removed \cup {o}
               /\ tree' = IF build.dry THEN tree ELSE [tree EXCEPT ![o] = None]
               /\ UNCHANGED faults
            \/ /\ ~build.dry /\ build'.errors = TRUE /\ build'.removed = build.removed
               /\ UNCHANGED tree /\ Fault
<1>0. build.pc = "prune" /\ o \in build.todo /\ cache' = cache
  BY DEF RemoveStale
<1>1. CASE /\ build' = [build EXCEPT !.todo = @ \ {o}, !.removed = @ \cup {o}]
           /\ tree' = IF build.dry THEN tree ELSE [tree EXCEPT ![o] = None]
           /\ UNCHANGED faults
  <2>1. /\ Goes("prune") /\ build'.todo = build.todo \ {o}
        /\ build'.written = build.written /\ build'.kept = build.kept
        /\ build'.errors = build.errors /\ build'.removed = build.removed \cup {o}
    BY <1>0, <1>1, FieldsDef DEF Goes
  <2> QED
    BY <1>0, <1>1, <2>1
<1>2. CASE /\ build' = [build EXCEPT !.todo = @ \ {o}, !.errors = TRUE]
           /\ ~build.dry /\ UNCHANGED tree /\ Fault
  <2>1. /\ Goes("prune") /\ build'.todo = build.todo \ {o}
        /\ build'.written = build.written /\ build'.kept = build.kept
        /\ build'.errors = TRUE /\ build'.removed = build.removed
    BY <1>0, <1>2, FieldsDef DEF Goes
  <2> QED
    BY <1>0, <1>2, <2>1
<1> QED
  BY <1>1, <1>2 DEF RemoveStale

LEMMA EndPruneDoes ==
  ASSUME DOMAIN build = Fields, EndPrune
  PROVE  /\ build.pc = "prune" /\ build.todo = {} /\ UNCHANGED disk
         /\ \/ /\ build.errors \/ (build.dry /\ build.written \cup build.kept
                                                # Manifest(build.docs, build.asset))
               /\ Ends("failed")
            \/ /\ ~build.errors
               /\ build.dry => build.written \cup build.kept = Manifest(build.docs, build.asset)
               /\ Ends("ok")
BY EndDoes DEF EndPrune, Memory

(* The steps that may write change nothing else. *)
LEMMA WriteKeeps ==
  ASSUME Write
  PROVE  UNCHANGED <<inputs, plan, settled>>
BY DEF Write, EmptyCache, EndPages, KeepIndex, RenderIndex, CopyAsset, WriteCache, EndPrune,
   KeepPage, RenderPage, RemoveStale, Memory

-----------------------------------------------------------------------------
(* The types of the variables, and what they rest on: which outputs a       *)
(* build can have marked by each of its phases.                             *)
Files == [stamp : Stamps, body : Bodies]
TemplateFiles == [stamp : Stamps, body : TemplateBodies]

SiteTypes ==
  /\ source \in [Sources -> Files \cup {None}]
  /\ template \in [Templates -> TemplateFiles \cup {None}]
  /\ config \in Recipes /\ asset \in Assets \cup {None}
  /\ DOMAIN tree = Outputs /\ settled \in BOOLEAN /\ faults \in 0..MaxFaults

CacheTypes ==
  /\ \A r \in cache.content : r.name \in Pages /\ r.stamp \in Stamps \cup {None}
  /\ \A r \in cache.templates : r.name \in Templates /\ r.stamp # None

ReadTypes ==
  /\ build.pc = "walk" => build.paths = {}
  /\ build.asset \in Assets \cup {None}
  /\ \A s \in Sources : build.docs[s] # None => s \in build.paths
  /\ \A s \in Sources \ build.reading : build.docs[s] # None => build.docs[s].body \in Bodies

TodoTypes ==
  /\ build.pc \notin {"parse", "pages", "prune"} => build.todo = {}
  /\ build.pc = "pages" => build.todo \subseteq Entries(build.docs)
  /\ build.pc = "prune" => build.todo \subseteq Outputs \ Manifest(build.docs, build.asset)

PagesOf(docs, entries) == {Out(docs, s) : s \in entries}

MarkTypes ==
  /\ build.written \cap build.kept = {}
  /\ build.removed \subseteq Outputs
  /\ build.pc \notin {"prune", "ended"} => build.removed = {}
  /\ build.pc \in {"idle", "walk", "parse", "stat", "convert", "empty"} =>
       build.written \cup build.kept = {}
  /\ build.pc = "pages" =>
       build.written \cup build.kept
         \subseteq PagesOf(build.docs, Entries(build.docs) \ build.todo)
  /\ build.pc = "index" =>
       build.written \cup build.kept \subseteq PagesOf(build.docs, Entries(build.docs))
  /\ build.pc = "copy" =>
       build.written \cup build.kept \subseteq PagesOf(build.docs, Entries(build.docs)) \cup {Index}
  /\ build.pc \in {"rows", "prune"} =>
       build.written \cup build.kept \subseteq Manifest(build.docs, build.asset)
  /\ build.written \cup build.kept \subseteq Outputs

EndTypes ==
  /\ (build.outcome # None) = (build.pc = "ended")
  /\ build.pc = "idle" => build = NoBuild

TypesInv == SiteTypes /\ CacheTypes /\ ReadTypes /\ TodoTypes /\ MarkTypes /\ EndTypes

LEMMA NoBuildTypes ==
  ASSUME build' = NoBuild
  PROVE  ReadTypes' /\ TodoTypes' /\ MarkTypes' /\ EndTypes'
BY DEF NoBuild, ReadTypes, TodoTypes, MarkTypes, EndTypes

LEMMA InitTypes == Init => TypesInv
<1> SUFFICES ASSUME Init PROVE TypesInv
  OBVIOUS
<1>1. ReadTypes /\ TodoTypes /\ MarkTypes /\ EndTypes
  BY DEF Init, NoBuild, ReadTypes, TodoTypes, MarkTypes, EndTypes
<1>2. CacheTypes
  BY DEF Init, NoCache, CacheTypes
<1>3. PICK start \in Starts : source = start.source /\ template = start.template
  BY DEF Init
<1>4. source \in [Sources -> Docs \cup {None}] /\ IsFirstSite(source, template)
  BY <1>3, SiteBuildAssumption
<1>5. source \in [Sources -> Files \cup {None}]
  <2>1. ASSUME NEW s \in Sources, source[s] # None PROVE source[s] \in Files
    <3>1. source[s] \in Docs /\ source[s].stamp \in Stamps /\ source[s].body \in Bodies
      BY <1>4, <2>1 DEF IsFirstSite, Stamps
    <3> QED
      BY <3>1 DEF Docs, Files
  <2> QED
    BY <1>4, <2>1
<1>6. template \in [Templates -> TemplateFiles \cup {None}]
  BY <1>4 DEF IsFirstSite, TemplateFiles, Stamps
<1>7. DOMAIN tree = Outputs
  BY DEF Init
<1>8. settled \in BOOLEAN /\ faults \in 0..MaxFaults
  <2>1. MaxFaults \in Nat
    BY SiteBuildAssumption
  <2>2. settled \in BOOLEAN
    BY DEF Init
  <2>3. faults \in 0..MaxFaults
    BY <2>1 DEF Init
  <2> QED
    BY <2>2, <2>3
<1>9. config \in Recipes /\ asset \in Assets \cup {None}
  BY DEF Init
<1> QED
  BY <1>1, <1>2, <1>5, <1>6, <1>7, <1>8, <1>9 DEF TypesInv, SiteTypes

(* What the user saves is a file. *)
LEMMA SavedFile ==
  ASSUME FilesInv, clock < MaxClock, NEW body
  PROVE  /\ body \in Bodies => Save(body) \in Files
         /\ body \in TemplateBodies => Save(body) \in TemplateFiles
BY SiteBuildAssumption DEF FilesInv, Save, Files, TemplateFiles, Stamps

LEMMA NoBuildIsQuiet == [NoBuild EXCEPT !.quiet = FALSE] = NoBuild
<1>1. ASSUME NEW D, NEW f, f = [y \in D |-> f[y]], NEW x \in D
      PROVE  [f EXCEPT ![x] = f[x]] = f
  BY <1>1
<1>2. NoBuild = [f \in Fields |-> NoBuild[f]]
  BY DEF NoBuild, Fields
<1>3. NoBuild.quiet = FALSE
  BY DEF NoBuild
<1>4. "quiet" \in Fields
  BY FieldsDef
<1>5. [NoBuild EXCEPT !["quiet"] = NoBuild["quiet"]] = NoBuild
  BY <1>1, <1>2, <1>4
<1> QED
  BY <1>3, <1>5

LEMMA UserTypes ==
  ASSUME IInv, TypesInv, User
  PROVE  TypesInv'
<1>0. /\ FilesInv /\ DOMAIN build = Fields /\ SiteTypes /\ CacheTypes
      /\ source \in [Sources -> Files \cup {None}]
      /\ template \in [Templates -> TemplateFiles \cup {None}]
      /\ config \in Recipes /\ asset \in Assets \cup {None}
  BY DEF IInv, MemoryInv, TypesInv, SiteTypes
<1>1. Disturb /\ cache' = cache
  BY DEF User, EditSource, DeleteSource, RenameSource, SwapSources, EditTemplate, DeleteTemplate,
     EditConfig, MoveAsset, DeleteOutput, disk
<1>2. /\ \A f \in Fields \ {"quiet"} : build'[f] = build[f]
      /\ settled' = FALSE /\ faults' = faults
  BY <1>0, <1>1, FieldsDef DEF Disturb
<1>3. ReadTypes' /\ TodoTypes' /\ MarkTypes' /\ CacheTypes'
  <2>1. /\ build'.pc = build.pc /\ build'.docs = build.docs /\ build'.paths = build.paths
        /\ build'.reading = build.reading /\ build'.asset = build.asset
        /\ build'.todo = build.todo /\ build'.written = build.written
        /\ build'.kept = build.kept /\ build'.removed = build.removed
    BY <1>2, FieldsDef
  <2>2. ReadTypes' /\ TodoTypes'
    BY <2>1 DEF TypesInv, ReadTypes, TodoTypes
  <2>3. MarkTypes'
    BY <2>1 DEF TypesInv, MarkTypes
  <2>4. CacheTypes'
    BY <1>1 DEF TypesInv, CacheTypes
  <2> QED
    BY <2>2, <2>3, <2>4
<1>4. EndTypes'
  <2>0. [NoBuild EXCEPT !.quiet = FALSE] = NoBuild
    BY NoBuildIsQuiet
  <2>1. build.pc = "idle" => build' = NoBuild
    BY <1>1, <2>0 DEF Disturb, TypesInv, EndTypes
  <2>2. build'.pc = build.pc /\ build'.outcome = build.outcome
    BY <1>2, FieldsDef
  <2> QED
    BY <2>1, <2>2 DEF TypesInv, EndTypes
<1>5. DOMAIN tree' = Outputs
  BY <1>0 DEF SiteTypes, User, EditSource, DeleteSource, RenameSource, SwapSources, EditTemplate,
     DeleteTemplate, EditConfig, MoveAsset, DeleteOutput, disk
<1>6. /\ source' \in [Sources -> Files \cup {None}]
      /\ template' \in [Templates -> TemplateFiles \cup {None}]
      /\ config' \in Recipes /\ asset' \in Assets \cup {None}
  <2>1. ASSUME NEW s \in Sources, EditSource(s) \/ DeleteSource(s)
        PROVE  source' \in [Sources -> Files \cup {None}]
    BY <1>0, <2>1, SavedFile DEF EditSource, DeleteSource
  <2>2. ASSUME NEW s \in Sources, NEW t \in Sources, RenameSource(s, t) \/ SwapSources(s, t)
        PROVE  source' \in [Sources -> Files \cup {None}]
    BY <1>0, <2>2 DEF RenameSource, SwapSources
  <2>3. ASSUME NEW t \in Templates, EditTemplate(t) \/ DeleteTemplate(t)
        PROVE  template' \in [Templates -> TemplateFiles \cup {None}]
    BY <1>0, <2>3, SavedFile DEF EditTemplate, DeleteTemplate
  <2>4. CASE \E s \in Sources : EditSource(s) \/ DeleteSource(s)
    BY <1>0, <2>1, <2>4 DEF EditSource, DeleteSource
  <2>5. CASE \E s, t \in Sources : RenameSource(s, t) \/ SwapSources(s, t)
    BY <1>0, <2>2, <2>5 DEF RenameSource, SwapSources
  <2>6. CASE \E t \in Templates : EditTemplate(t) \/ DeleteTemplate(t)
    BY <1>0, <2>3, <2>6 DEF EditTemplate, DeleteTemplate
  <2>7. CASE EditConfig \/ MoveAsset \/ \E o \in Outputs : DeleteOutput(o)
    BY <1>0, <2>7 DEF EditConfig, MoveAsset, DeleteOutput
  <2> QED
    BY <2>4, <2>5, <2>6, <2>7 DEF User
<1>7. SiteTypes'
  BY <1>0, <1>2, <1>5, <1>6 DEF SiteTypes
<1> QED
  BY <1>3, <1>4, <1>7 DEF TypesInv

(* A step of the program leaves the site's types alone. *)
LEMMA StepSiteTypes ==
  ASSUME SiteTypes, Start \/ Build \/ Crash
  PROVE  SiteTypes'
<1>1. UNCHANGED inputs
  BY BuildInputs
<1>2. settled' \in BOOLEAN
  BY DEF SiteTypes, Start, Build, Crash, Memory, WalkInputs, StatSource, ReadSource, ReadCache,
     StatTemplates, ConvertBodies, EmptyCache, KeepPage, RenderPage, EndPages, KeepIndex,
     RenderIndex, CopyAsset, WriteCache, RemoveStale, EndPrune, Exit
<1>3. faults' = faults \/ Fault
  BY DEF Start, Build, Crash, Memory, WalkInputs, StatSource, ReadSource, ReadCache,
     StatTemplates, ConvertBodies, EmptyCache, KeepPage, RenderPage, EndPages, KeepIndex,
     RenderIndex, CopyAsset, WriteCache, RemoveStale, EndPrune, Exit, WriteOutput
<1>4. DOMAIN tree' = DOMAIN tree
  BY DEF Start, Build, Crash, Memory, WalkInputs, StatSource, ReadSource, ReadCache,
     StatTemplates, ConvertBodies, EmptyCache, KeepPage, RenderPage, EndPages, KeepIndex,
     RenderIndex, CopyAsset, WriteCache, RemoveStale, EndPrune, Exit, WriteOutput, disk
<1>5. faults' \in 0..MaxFaults
  BY <1>3, SiteBuildAssumption DEF SiteTypes, Fault
<1> QED
  BY <1>1, <1>2, <1>4, <1>5 DEF SiteTypes, inputs

(* The steps up to the first write. *)
LEMMA BeginTypes ==
  ASSUME IInv, TypesInv, Start \/ WalkInputs
  PROVE  ReadTypes' /\ TodoTypes' /\ MarkTypes' /\ EndTypes' /\ CacheTypes'
<1>1. CacheTypes'
  BY DEF TypesInv, CacheTypes, Start, WalkInputs, Memory, disk
<1>2. CASE Start
  <2>1. PICK mode \in Modes :
          build' = [NoBuild EXCEPT !.pc = "walk", !.forced = mode.forced, !.dry = mode.dry,
                                   !.quiet = TRUE, !.recipe = config]
    BY <1>2 DEF Start
  <2>2. ReadTypes' /\ TodoTypes' /\ MarkTypes' /\ EndTypes'
    BY <2>1 DEF NoBuild, ReadTypes, TodoTypes, MarkTypes, EndTypes
  <2> QED
    BY <1>1, <2>2
<1>3. CASE WalkInputs
  <2> DEFINE paths == {s \in Sources : source[s] # None}
  <2>1. /\ build.pc = "walk" /\ DOMAIN build = Fields /\ build.reading = {}
        /\ build' = [build EXCEPT !.pc = "parse", !.asset = asset, !.paths = paths,
                                  !.todo = paths]
    BY <1>3 DEF WalkInputs, IInv, MemoryInv, ParseInv
  <2>2. /\ build'.pc = "parse" /\ build'.asset = asset /\ build'.todo = paths
        /\ build'.paths = paths /\ build'.reading = {} /\ build'.docs = build.docs
        /\ build'.outcome = build.outcome /\ SameMarks
    BY <2>1, FieldsDef DEF SameMarks
  <2>3. \A s \in Sources : build.docs[s] = None
    BY <2>1 DEF TypesInv, ReadTypes
  <2>4. ReadTypes'
    BY <2>2, <2>3 DEF TypesInv, SiteTypes, ReadTypes
  <2>5. TodoTypes' /\ MarkTypes' /\ EndTypes'
    BY <2>1, <2>2 DEF TypesInv, TodoTypes, MarkTypes, EndTypes, SameMarks
  <2> QED
    BY <1>1, <2>4, <2>5
<1> QED
  BY <1>2, <1>3

LEMMA StatSourceTypes ==
  ASSUME IInv, TypesInv, NEW s \in Sources, StatSource(s)
  PROVE  ReadTypes' /\ TodoTypes' /\ MarkTypes' /\ EndTypes' /\ CacheTypes'
<1> DEFINE doc == [stamp |-> Stamp(source[s]), body |-> None]
<1>0. /\ build.pc = "parse" /\ DOMAIN build = Fields /\ DOMAIN build.docs = Sources
      /\ s \in build.todo /\ build.todo \subseteq build.paths
      /\ build' = [build EXCEPT !.todo = @ \ {s}, !.reading = @ \cup {s}, !.docs[s] = doc]
      /\ cache' = cache
  BY DEF StatSource, Memory, disk, IInv, MemoryInv, ParseInv
<1> HIDE DEF doc
<1>1. /\ build'.pc = "parse" /\ build'.paths = build.paths /\ build'.asset = build.asset
      /\ build'.reading = build.reading \cup {s} /\ build'.outcome = build.outcome
      /\ build'.docs = [build.docs EXCEPT ![s] = doc] /\ SameMarks
  BY <1>0, FieldsDef DEF SameMarks
<1>2. \A t \in Sources \ {s} : build'.docs[t] = build.docs[t]
  BY <1>0, <1>1
<1>3. ReadTypes'
  BY <1>0, <1>1, <1>2 DEF TypesInv, ReadTypes
<1> QED
  BY <1>0, <1>1, <1>3 DEF TypesInv, TodoTypes, MarkTypes, EndTypes, CacheTypes, SameMarks

LEMMA ReadSourceTypes ==
  ASSUME IInv, TypesInv, NEW s \in Sources, ReadSource(s)
  PROVE  ReadTypes' /\ TodoTypes' /\ MarkTypes' /\ EndTypes' /\ CacheTypes'
<1>0. /\ build.pc = "parse" /\ DOMAIN build = Fields /\ build.docs \in [Sources -> Docs \cup {None}]
      /\ s \in build.reading /\ s \in build.paths /\ build.docs[s] \in Docs
      /\ cache' = cache /\ source \in [Sources -> Files \cup {None}]
  BY DEF ReadSource, Memory, disk, IInv, MemoryInv, ParseInv, TypesInv, SiteTypes
<1>1. ASSUME NEW doc, doc # None => doc.body \in Bodies,
             build' = [build EXCEPT !.reading = @ \ {s}, !.docs = [build.docs EXCEPT ![s] = doc],
                                    !.errors = build'.errors]
      PROVE  ReadTypes' /\ TodoTypes' /\ MarkTypes' /\ EndTypes' /\ CacheTypes'
  <2>1. /\ build'.pc = "parse" /\ build'.paths = build.paths /\ build'.asset = build.asset
        /\ build'.reading = build.reading \ {s} /\ build'.outcome = build.outcome
        /\ build'.docs = [build.docs EXCEPT ![s] = doc] /\ SameMarks
    BY <1>0, <1>1, FieldsDef DEF SameMarks
  <2>2. build'.docs[s] = doc /\ \A t \in Sources \ {s} : build'.docs[t] = build.docs[t]
    BY <1>0, <2>1
  <2>3. ReadTypes'
    BY <1>0, <1>1, <2>1, <2>2 DEF TypesInv, ReadTypes
  <2> QED
    BY <1>0, <2>1, <2>3 DEF TypesInv, TodoTypes, MarkTypes, EndTypes, CacheTypes, SameMarks
<1>2. CASE source[s] = None
  <2>1. build' = [build EXCEPT !.reading = @ \ {s}, !.docs[s] = None, !.errors = TRUE]
    BY <1>2 DEF ReadSource
  <2>2. build' = [build EXCEPT !.reading = @ \ {s}, !.docs = [build.docs EXCEPT ![s] = None],
                               !.errors = build'.errors]
    BY <1>0, <2>1, FieldsDef
  <2> QED
    BY <1>1, <2>2
<1>3. CASE source[s] # None
  <2>1. build' = [build EXCEPT !.reading = @ \ {s}, !.docs[s].body = source[s].body]
    BY <1>3 DEF ReadSource
  <2>2. PICK doc : doc = [build.docs[s] EXCEPT !.body = source[s].body]
    OBVIOUS
  <2>3. doc.body \in Bodies
    BY <1>0, <1>3, <2>2 DEF Files, Docs
  <2>4. build' = [build EXCEPT !.reading = @ \ {s}, !.docs = [build.docs EXCEPT ![s] = doc],
                               !.errors = build'.errors]
    BY <1>0, <2>1, <2>2, FieldsDef
  <2> QED
    BY <1>1, <2>3, <2>4
<1> QED
  BY <1>2, <1>3

LEMMA CheckTypes ==
  ASSUME IInv, TypesInv, ReadCache \/ StatTemplates \/ ConvertBodies
  PROVE  ReadTypes' /\ TodoTypes' /\ MarkTypes' /\ EndTypes' /\ CacheTypes'
<1>0. DOMAIN build = Fields /\ cache' = cache
  BY DEF IInv, MemoryInv, ReadCache, StatTemplates, ConvertBodies, Memory, disk
<1>1. /\ build'.docs = build.docs /\ build'.paths = build.paths /\ build'.asset = build.asset
      /\ build'.reading = build.reading /\ build'.todo = build.todo /\ SameMarks
      /\ build.todo = {} /\ build.pc \in {"parse", "stat", "convert"}
      /\ \/ build'.pc \in {"stat", "convert", "empty"} /\ build'.outcome = build.outcome
         \/ build'.pc = "ended" /\ build'.outcome = "rejected"
  <2>1. CASE ReadCache
    <3>1. PICK rows : build' = [build EXCEPT !.pc = "stat", !.rows = rows]
      BY <2>1 DEF ReadCache
    <3>2. build.pc = "parse" /\ build.todo = {}
      BY <2>1 DEF ReadCache
    <3> QED
      BY <1>0, <3>1, <3>2, FieldsDef DEF SameMarks
  <2>2. CASE StatTemplates
    <3>1. PICK stats, fresh, all : build' = [build EXCEPT !.pc = "convert", !.stats = stats,
                                               !.fresh = fresh, !.aggregatesFresh = all]
      BY <2>2 DEF StatTemplates
    <3>2. build.pc = "stat" /\ build.todo = {}
      BY <2>2 DEF StatTemplates, TypesInv, TodoTypes
    <3> QED
      BY <1>0, <3>1, <3>2, FieldsDef DEF SameMarks
  <2>3. CASE ConvertBodies
    <3>1. build.pc = "convert" /\ build.todo = {}
      BY <2>3 DEF ConvertBodies, TypesInv, TodoTypes
    <3>2. CASE End("rejected")
      BY <1>0, <3>1, <3>2, FieldsDef DEF End, SameMarks
    <3>3. CASE \E fresh : build' = [build EXCEPT !.pc = "empty", !.fresh = fresh]
      BY <1>0, <3>1, <3>3, FieldsDef DEF SameMarks
    <3> QED
      BY <2>3, <3>2, <3>3 DEF ConvertBodies
  <2> QED
    BY <2>1, <2>2, <2>3
<1>2. ReadTypes'
  BY <1>1 DEF TypesInv, ReadTypes
<1>3. EndTypes'
  BY <1>1, SiteBuildAssumption DEF TypesInv, EndTypes
<1> QED
  BY <1>0, <1>1, <1>2, <1>3 DEF TypesInv, TodoTypes, MarkTypes, CacheTypes, SameMarks

-----------------------------------------------------------------------------
(* The outputs of a build that passed its checks. *)
LEMMA PageIsNew ==
  ASSUME IInv, TypesInv, build.pc \in Writing, NEW s \in Entries(build.docs)
  PROVE  /\ s \in Sources /\ s \in build.paths /\ Page(s) \in Pages /\ Page(s) \in Outputs
         /\ Page(s) # Index /\ Page(s) \notin Assets
         /\ \A t \in Entries(build.docs) : Page(t) = Page(s) => t = s
<1>1. s \in Sources /\ build.docs[s] # None /\ build.reading = {}
  BY DEF Entries, IInv, CheckedInv
<1>2. Page(s) \in Pages
  BY <1>1 DEF TypesInv, ReadTypes, Page, Out, Pages
<1>3. \A t \in Entries(build.docs) : Page(t) = Page(s) => t = s
  BY DEF IInv, CheckedInv, IsRejected, Collides, Page
<1>4. s \in build.paths
  BY <1>1 DEF TypesInv, ReadTypes
<1> QED
  BY <1>1, <1>2, <1>3, <1>4, SiteAssumption DEF Outputs

LEMMA ClaimsAreOutputs ==
  ASSUME IInv, TypesInv, build.pc \in Writing
  PROVE  /\ Manifest(build.docs, build.asset) \subseteq Outputs
         /\ Manifest(build.docs, build.asset)
              = PagesOf(build.docs, Entries(build.docs)) \cup {Index} \cup ({build.asset} \ {None})
         /\ PagesOf(build.docs, Entries(build.docs)) \subseteq Pages
<1>1. PagesOf(build.docs, Entries(build.docs)) \subseteq Pages
  BY PageIsNew DEF PagesOf, Page
<1>2. build.asset \in Assets \cup {None}
  BY DEF TypesInv, ReadTypes
<1> QED
  BY <1>1, <1>2 DEF Manifest, PagesOf, Outputs

(* The end of a build, by any step that writes. *)
LEMMA EndedTypes ==
  ASSUME TypesInv, NEW outcome \in {"ok", "failed", "rejected"}, Ends(outcome), build.todo = {}
  PROVE  TodoTypes' /\ MarkTypes' /\ EndTypes'
BY SiteBuildAssumption DEF TypesInv, Ends, SameMarks, TodoTypes, MarkTypes, EndTypes

LEMMA PageTypes ==
  ASSUME IInv, TypesInv, build.pc = "pages", Goes("pages"), build'.docs = build.docs,
         NEW s \in build.todo, build'.todo = build.todo \ {s}, build'.removed = build.removed,
         \/ build'.kept = build.kept \cup {Page(s)} /\ build'.written = build.written
         \/ build'.written = build.written \cup {Page(s)} /\ build'.kept = build.kept
         \/ build'.written = build.written /\ build'.kept = build.kept
  PROVE  TodoTypes' /\ MarkTypes' /\ EndTypes'
<1>0. build.pc \in Writing /\ s \in Entries(build.docs) /\ build.todo \subseteq Entries(build.docs)
  BY DEF Writing, TypesInv, TodoTypes
<1>1. /\ Page(s) \in Outputs
      /\ \A t \in Entries(build.docs) : Page(t) = Page(s) => t = s
  BY <1>0, PageIsNew
<1> DEFINE done  == PagesOf(build.docs, Entries(build.docs) \ build.todo)
           done2 == PagesOf(build.docs, Entries(build.docs) \ (build.todo \ {s}))
<1>2. Page(s) \notin done /\ Page(s) \in done2 /\ done \subseteq done2
  BY <1>0, <1>1 DEF PagesOf, Page
<1>3. build.written \cup build.kept \subseteq done
  BY DEF TypesInv, MarkTypes
<1>4. /\ build.written \cap build.kept = {} /\ build.removed = {}
      /\ build.written \cup build.kept \subseteq Outputs
  BY DEF TypesInv, MarkTypes
<1>5. build'.written \cup build'.kept \subseteq done2
  BY <1>2, <1>3
<1> HIDE DEF done, done2
<1>6. MarkTypes'
  <2>1. build'.written \cap build'.kept = {} /\ build'.written \cup build'.kept \subseteq Outputs
    BY <1>1, <1>2, <1>3, <1>4
  <2> QED
    BY <1>4, <1>5, <2>1 DEF MarkTypes, Goes, done2
<1>7. TodoTypes' /\ EndTypes'
  BY <1>0 DEF Goes, TypesInv, TodoTypes, EndTypes
<1> QED
  BY <1>6, <1>7

LEMMA RowTypes ==
  ASSUME IInv, TypesInv, build.pc \in Writing
  PROVE  /\ \A r \in Rows.content : r.name \in Pages /\ r.stamp \in Stamps \cup {None}
         /\ \A r \in Rows.templates : r.name \in Templates /\ r.stamp # None
<1>1. ASSUME NEW s \in Entries(build.docs)
      PROVE  Page(s) \in Pages /\ build.docs[s].stamp \in Stamps \cup {None}
  <2>1. Page(s) \in Pages /\ s \in Sources
    BY PageIsNew
  <2>2. build.docs[s] \in Docs
    BY <2>1 DEF Entries, IInv, MemoryInv
  <2> QED
    BY <2>1, <2>2 DEF Docs
<1> QED
  BY <1>1 DEF Rows, TemplateRows

LEMMA WriteCacheTypes ==
  ASSUME IInv, TypesInv, WriteCache
  PROVE  CacheTypes'
<1>0. build.pc \in Writing /\ DOMAIN build = Fields /\ CacheTypes
  BY DEF WriteCache, Writing, IInv, MemoryInv, TypesInv
<1>1. PICK rows : rows = Rows
  OBVIOUS
<1>2. /\ \A r \in rows.content : r.name \in Pages /\ r.stamp \in Stamps \cup {None}
      /\ \A r \in rows.templates : r.name \in Templates /\ r.stamp # None
      /\ DOMAIN rows = {"recipe", "content", "templates"}
  BY <1>0, <1>1, RowTypes DEF Rows
<1>3. cache' \in {cache, NoCache, rows} \cup Cuts(rows)
  BY <1>0, <1>1, WriteCacheDoes
<1>4. CASE cache' \in {cache, NoCache, rows}
  BY <1>0, <1>2, <1>4 DEF CacheTypes, NoCache
<1>5. CASE cache' \in Cuts(rows)
  <2>1. PICK n :
          cache' = [rows EXCEPT !.templates = {r \in @ : r.name \in Listed(TemplateOrder, n)}]
    BY <1>5 DEF Cuts
  <2>2. cache'.content = rows.content /\ cache'.templates \subseteq rows.templates
    BY <1>2, <2>1
  <2> QED
    BY <1>2, <2>2 DEF CacheTypes
<1> QED
  BY <1>3, <1>4, <1>5

(* The steps that may write. *)
LEMMA WriteTypes ==
  ASSUME IInv, TypesInv, Write
  PROVE  ReadTypes' /\ TodoTypes' /\ MarkTypes' /\ EndTypes' /\ CacheTypes'
<1>0. /\ DOMAIN build = Fields /\ build.pc \in Writing /\ SameRead
      /\ build'.docs = build.docs /\ build'.asset = build.asset
  BY ReadStays DEF IInv, MemoryInv, SameRead, SameEntries
<1>1. ReadTypes'
  <2>1. build'.pc # "walk"
    BY <1>0, ReadStays DEF Writing
  <2> QED
    BY <1>0, <2>1 DEF TypesInv, ReadTypes, SameRead, SameEntries
<1>2. CacheTypes'
  <2>1. CASE WriteCache
    BY <2>1, WriteCacheTypes
  <2>2. CASE ~WriteCache
    <3>1. cache' \in {cache, NoCache}
      BY <1>0, <2>2, EmptyCacheDoes, KeepPageDoes, RenderPageDoes, EndPagesDoes, KeepIndexDoes,
         RenderIndexDoes, CopyAssetDoes, RemoveStaleDoes, EndPruneDoes DEF Write, disk
    <3> QED
      BY <3>1 DEF TypesInv, CacheTypes, NoCache
  <2> QED
    BY <2>1, <2>2
<1> DEFINE claims == Manifest(build.docs, build.asset)
<1> SUFFICES TodoTypes' /\ MarkTypes' /\ EndTypes'
  BY <1>1, <1>2
<1>3. /\ claims \subseteq Outputs
      /\ claims = PagesOf(build.docs, Entries(build.docs)) \cup {Index} \cup ({build.asset} \ {None})
      /\ PagesOf(build.docs, Entries(build.docs)) \subseteq Pages
  BY <1>0, ClaimsAreOutputs
<1>4. /\ build.written \cap build.kept = {} /\ build.removed \subseteq Outputs
      /\ build.written \cup build.kept \subseteq Outputs
      /\ build.pc # "prune" => build.removed = {}
      /\ build.outcome = None
      /\ build.pc \notin {"pages", "prune"} => build.todo = {}
  BY <1>0 DEF Writing, TypesInv, MarkTypes, TodoTypes, EndTypes
<1>5. ASSUME build.todo = {}, \E outcome \in {"ok", "failed", "rejected"} : Ends(outcome)
      PROVE  TodoTypes' /\ MarkTypes' /\ EndTypes'
  BY <1>5, EndedTypes
<1>6. CASE EmptyCache
  <2>1. build.pc = "empty" /\ build.todo = {} /\ build.written \cup build.kept = {}
    BY <1>0, <1>4, <1>6, EmptyCacheDoes DEF TypesInv, MarkTypes
  <2>2. CASE Goes("pages") /\ build'.todo = Entries(build.docs) /\ SameMarks
    BY <1>0, <1>4, <2>1, <2>2 DEF Goes, SameMarks, TodoTypes, MarkTypes, EndTypes
  <2> QED
    BY <1>0, <1>5, <1>6, <2>1, <2>2, EmptyCacheDoes
<1>7. ASSUME NEW s \in Sources, KeepPage(s) \/ RenderPage(s)
      PROVE  TodoTypes' /\ MarkTypes' /\ EndTypes'
  <2>1. CASE KeepPage(s)
    BY <1>0, <2>1, KeepPageDoes, PageTypes
  <2>2. CASE RenderPage(s)
    BY <1>0, <2>2, RenderPageDoes, PageTypes
  <2> QED
    BY <1>7, <2>1, <2>2
<1>8. CASE EndPages
  <2>1. build.pc = "pages" /\ build.todo = {}
    BY <1>0, <1>8, EndPagesDoes
  <2>2. build.written \cup build.kept \subseteq PagesOf(build.docs, Entries(build.docs))
    BY <2>1 DEF TypesInv, MarkTypes
  <2>3. CASE Goes("index") /\ build'.todo = build.todo /\ SameMarks
    BY <1>0, <1>4, <2>1, <2>2, <2>3 DEF Goes, SameMarks, TodoTypes, MarkTypes, EndTypes
  <2> QED
    BY <1>0, <1>5, <1>8, <2>1, <2>3, EndPagesDoes
<1>9. CASE KeepIndex \/ RenderIndex
  <2>1. build.pc = "index" /\ build.todo = {}
    BY <1>0, <1>4, <1>9, KeepIndexDoes, RenderIndexDoes
  <2>2. build.written \cup build.kept \subseteq PagesOf(build.docs, Entries(build.docs))
    BY <2>1 DEF TypesInv, MarkTypes
  <2>3. Index \notin PagesOf(build.docs, Entries(build.docs)) /\ Index \in Outputs
    BY <1>3, SiteAssumption DEF Outputs
  <2>4. CASE /\ Goes("copy") /\ build'.todo = build.todo /\ build'.removed = build.removed
             /\ \/ build'.kept = build.kept \cup {Index} /\ build'.written = build.written
                \/ build'.written = build.written \cup {Index} /\ build'.kept = build.kept
    <3>1. build'.written \cap build'.kept = {} /\ build'.written \cup build'.kept \subseteq Outputs
      BY <1>4, <2>2, <2>3, <2>4
    <3>2. build'.written \cup build'.kept
            \subseteq PagesOf(build.docs, Entries(build.docs)) \cup {Index}
      BY <2>2, <2>4
    <3> QED
      BY <1>0, <1>4, <2>1, <2>4, <3>1, <3>2 DEF Goes, TodoTypes, MarkTypes, EndTypes
  <2> QED
    BY <1>0, <1>5, <1>9, <2>1, <2>4, KeepIndexDoes, RenderIndexDoes
<1>10. CASE CopyAsset
  <2>1. build.pc = "copy" /\ build.todo = {}
    BY <1>0, <1>4, <1>10, CopyAssetDoes
  <2>2. build.written \cup build.kept \subseteq PagesOf(build.docs, Entries(build.docs)) \cup {Index}
    BY <2>1 DEF TypesInv, MarkTypes
  <2>3. build.asset \in Assets \cup {None}
    BY DEF TypesInv, ReadTypes
  <2>4. build.asset # None => build.asset \notin build.written \cup build.kept
    BY <1>3, <2>2, <2>3, SiteAssumption
  <2>5. CASE /\ Goes("rows") /\ build'.todo = build.todo /\ build'.removed = build.removed
             /\ build'.kept = build.kept
             /\ \/ build'.written = build.written
                \/ build.asset # None /\ build'.written = build.written \cup {build.asset}
    <3>1. build'.written \cap build'.kept = {}
      BY <1>4, <2>4, <2>5
    <3>2. build'.written \cup build'.kept \subseteq claims
      BY <1>3, <2>2, <2>5
    <3> QED
      BY <1>0, <1>3, <1>4, <2>1, <2>5, <3>1, <3>2 DEF Goes, TodoTypes, MarkTypes, EndTypes
  <2> QED
    BY <1>0, <1>5, <1>10, <2>1, <2>5, CopyAssetDoes DEF SameMarks
<1>11. CASE WriteCache
  <2>1. build.pc = "rows" /\ build.todo = {}
    BY <1>0, <1>4, <1>11, WriteCacheDoes
  <2>2. build.written \cup build.kept \subseteq claims
    BY <2>1 DEF TypesInv, MarkTypes
  <2>3. CASE /\ Goes("prune") /\ SameMarks
             /\ build'.todo = {o \in Outputs : tree[o] # None} \ claims
    BY <1>0, <1>4, <2>1, <2>2, <2>3 DEF Goes, SameMarks, TodoTypes, MarkTypes, EndTypes
  <2> QED
    BY <1>0, <1>5, <1>11, <2>1, <2>3, WriteCacheDoes
<1>12. ASSUME NEW o \in Outputs, RemoveStale(o) PROVE TodoTypes' /\ MarkTypes' /\ EndTypes'
  <2>1. /\ build.pc = "prune" /\ Goes("prune") /\ build'.todo = build.todo \ {o}
        /\ build'.written = build.written /\ build'.kept = build.kept
        /\ build'.removed \subseteq build.removed \cup {o}
    BY <1>0, <1>12, RemoveStaleDoes
  <2>2. build.written \cup build.kept \subseteq claims /\ build.todo \subseteq Outputs \ claims
    BY <2>1 DEF TypesInv, MarkTypes, TodoTypes
  <2> QED
    BY <1>0, <1>4, <2>1, <2>2 DEF Goes, TodoTypes, MarkTypes, EndTypes
<1>13. CASE EndPrune
  <2>1. build.todo = {} /\ \E outcome \in {"ok", "failed", "rejected"} : Ends(outcome)
    BY <1>0, <1>13, EndPruneDoes
  <2> QED
    BY <1>5, <2>1
<1> QED
  BY <1>6, <1>7, <1>8, <1>9, <1>10, <1>11, <1>12, <1>13 DEF Write

LEMMA StepTypes == IInv /\ TypesInv /\ [Next]_vars => TypesInv'
<1> SUFFICES ASSUME IInv, TypesInv, [Next]_vars PROVE TypesInv'
  OBVIOUS
<1>1. CASE User
  BY <1>1, UserTypes
<1>2. CASE UNCHANGED vars
  <2>1. UNCHANGED <<inputs, disk, build, settled, faults>>
    BY <1>2 DEF vars
  <2>2. SiteTypes' /\ CacheTypes'
    BY <2>1 DEF TypesInv, SiteTypes, CacheTypes, inputs, disk
  <2>3. ReadTypes' /\ TodoTypes'
    BY <2>1 DEF TypesInv, ReadTypes, TodoTypes
  <2>4. MarkTypes'
    BY <2>1 DEF TypesInv, MarkTypes
  <2>5. EndTypes'
    BY <2>1 DEF TypesInv, EndTypes
  <2> QED
    BY <2>2, <2>3, <2>4, <2>5 DEF TypesInv
<1>3. ASSUME Start \/ Build \/ Crash,
             ReadTypes' /\ TodoTypes' /\ MarkTypes' /\ EndTypes' /\ CacheTypes'
      PROVE  TypesInv'
  BY <1>3, StepSiteTypes DEF TypesInv
<1>4. CASE Start \/ WalkInputs
  BY <1>3, <1>4, BeginTypes DEF Build
<1>5. ASSUME NEW s \in Sources, StatSource(s) \/ ReadSource(s) PROVE TypesInv'
  BY <1>3, <1>5, StatSourceTypes, ReadSourceTypes DEF Build
<1>6. CASE ReadCache \/ StatTemplates \/ ConvertBodies
  BY <1>3, <1>6, CheckTypes DEF Build
<1>7. CASE Write
  BY <1>3, <1>7, WriteTypes DEF Build, Write
<1>8. CASE Exit \/ Crash
  <2>1. cache' = cache /\ build' = NoBuild
    BY <1>8 DEF Exit, Crash, disk
  <2>2. CacheTypes'
    BY <2>1 DEF TypesInv, CacheTypes
  <2> QED
    BY <1>3, <1>8, <2>1, <2>2, NoBuildTypes DEF Build
<1> QED
  BY <1>1, <1>2, <1>4, <1>5, <1>6, <1>7, <1>8 DEF Next, Build, Write

(* In every phase the types hold, and what is marked is claimed. *)
THEOREM TypesStay == Spec => []TypesInv
BY InitTypes, StepTypes, Consistent, PTL DEF Spec

(* Every variable has its type in every state of every site, and a process  *)
(* that is gone leaves nothing in memory (cmd_build.c's BuildState).        *)
THEOREM TypeCorrect == Spec => []TypeOK
<1>1. IInv /\ TypesInv => TypeOK
  <2> SUFFICES ASSUME IInv, TypesInv PROVE TypeOK
    OBVIOUS
  <2>1. /\ source \in [Sources -> Files \cup {None}] /\ Files \subseteq Docs
        /\ template \in [Templates -> TemplateFiles \cup {None}]
    BY DEF TypesInv, SiteTypes, Files, Docs
  <2>2. /\ \A s \in Sources : source[s] = None \/ source[s] \in Docs
        /\ \A t \in Templates : template[t] = None \/ template[t].body \in TemplateBodies
    BY <2>1 DEF TemplateFiles
  <2>3. build.todo \subseteq (IF build.pc = "prune" THEN Outputs ELSE build.paths)
    <3>1. build.pc = "pages" => Entries(build.docs) \subseteq build.paths
      BY DEF TypesInv, ReadTypes, Entries
    <3> QED
      BY <3>1 DEF IInv, ParseInv, TypesInv, TodoTypes
  <2>4. build.written \in Marks /\ build.kept \in Marks /\ build.removed \in Marks
    BY DEF TypesInv, MarkTypes, Marks
  <2> QED
    BY <2>2, <2>3, <2>4 DEF TypeOK, IInv, MemoryInv, FilesInv, TypesInv, SiteTypes, CacheTypes,
       MarkTypes, EndTypes
<1> QED
  BY <1>1, Consistent, TypesStay, PTL

-----------------------------------------------------------------------------
StatsOf(files) == [t \in Templates |-> Stamp(files[t])]

(* The rows a build reads. *)
TrustedRows(forced, rows, recipe) == IF forced \/ rows.recipe # recipe THEN NoCache ELSE rows

FoundIn(rows, docs, stats) ==
  [s \in Sources |-> IF s \in Entries(docs) THEN FreshRows(rows, docs, s, stats) ELSE {}]

(* What links the asset is not kept. *)
WithoutLinkers(fresh, docs) ==
  [s \in Sources |->
     IF s \in Entries(docs) /\ docs[s].body \in AssetLinkers THEN {} ELSE fresh[s]]

FreshIn(rows, docs, stats) == WithoutLinkers(FoundIn(rows, docs, stats), docs)

AllMatch(rows, docs, stats) == TemplatesMatch(rows, stats) /\ EntriesMatch(rows, docs)

(* What a build that started now would trust for each page, and for the     *)
(* aggregates.                                                              *)
FreshNow(forced, rows, recipe, docs, files) ==
  FreshIn(TrustedRows(forced, rows, recipe), docs, StatsOf(files))

MatchNow(forced, rows, recipe, docs, files) ==
  AllMatch(TrustedRows(forced, rows, recipe), docs, StatsOf(files))

(* A build that nothing disturbs knows its inputs: what it read is what is  *)
(* there, and until it empties the cache so is what it trusts.              *)
QuietInv ==
  build.quiet =>
    /\ build.recipe = config /\ build.forced \in BOOLEAN
    /\ build.pc # "walk" => build.asset = asset
    /\ build.pc \in {"walk", "parse", "stat", "convert", "empty"} =>
         ~build.errors /\ build.written = {} /\ build.kept = {} /\ build.removed = {}
    /\ build.pc = "walk" => \A s \in Sources : build.docs[s] = None
    /\ build.pc = "parse" =>
         \A s \in Sources :
           /\ s \in build.todo \cup build.reading => source[s] # None
           /\ s \in build.reading => build.docs[s].stamp = source[s].stamp
           /\ s \notin build.todo \cup build.reading => build.docs[s] = source[s]
    /\ build.pc \in {"stat", "convert"} \cup Writing => build.docs = source
    /\ build.pc \in {"stat", "convert"} => build.rows = TrustedRows(build.forced, cache, config)
    /\ build.pc \in {"convert"} \cup Writing => build.stats = StatsOf(template)
    /\ build.pc = "convert" =>
         /\ build.fresh = FoundIn(build.rows, source, StatsOf(template))
         /\ build.aggregatesFresh = AllMatch(build.rows, source, StatsOf(template))
    /\ build.pc = "empty" \/ (build.pc \in Writing /\ build.dry) =>
         /\ build.fresh = FreshNow(build.forced, cache, config, source, template)
         /\ build.aggregatesFresh = MatchNow(build.forced, cache, config, source, template)

(* Once its inputs are read, a build that is quiet knows them all. *)
LEMMA QuietFacts ==
  ASSUME QuietInv, build.quiet, build.pc \in Writing
  PROVE  /\ build.recipe = config /\ build.asset = asset /\ build.docs = source
         /\ build.stats = StatsOf(template) /\ build.forced \in BOOLEAN
BY DEF QuietInv, Writing

LEMMA QuietStays ==
  ASSUME QuietInv, SameRead, UNCHANGED inputs, build.pc \in Writing,
         build'.pc \in (Writing \ {"empty"}) \cup {"ended"}, build.dry => cache' = cache
  PROVE  QuietInv'
<1> SUFFICES ASSUME build.quiet PROVE QuietInv'
  BY DEF QuietInv, SameRead
<1>1. /\ source' = source /\ template' = template /\ asset' = asset /\ config' = config
      /\ build'.docs = build.docs /\ build'.recipe = build.recipe /\ build'.stats = build.stats
      /\ build'.asset = build.asset /\ build'.fresh = build.fresh /\ build'.dry = build.dry
      /\ build'.aggregatesFresh = build.aggregatesFresh /\ build'.forced = build.forced
  BY DEF SameRead, SameEntries, inputs
<1>2. StatsOf(template)' = StatsOf(template)
  BY <1>1 DEF StatsOf
<1>3. build.dry => cache' = cache
  OBVIOUS
<1>4. /\ build'.recipe = config' /\ build'.asset = asset' /\ build'.docs = source'
      /\ build'.stats = StatsOf(template)' /\ build'.forced \in BOOLEAN
  BY <1>1, <1>2, QuietFacts
<1>5. build'.dry =>
        /\ build'.fresh = FreshNow(build.forced, cache, config, source, template)'
        /\ build'.aggregatesFresh = MatchNow(build.forced, cache, config, source, template)'
  BY <1>1, <1>2, <1>3 DEF QuietInv
<1>6. build'.pc \notin {"walk", "parse", "stat", "convert", "empty"}
  BY DEF Writing
<1> QED
  BY <1>4, <1>5, <1>6 DEF QuietInv

LEMMA BeginQuiet ==
  ASSUME IInv, QuietInv, Start \/ WalkInputs
  PROVE  QuietInv'
<1>0. config' = config /\ asset' = asset /\ source' = source
  BY DEF Start, WalkInputs, Memory, inputs
<1>1. CASE Start
  <2>1. PICK mode \in Modes :
          build' = [NoBuild EXCEPT !.pc = "walk", !.forced = mode.forced, !.dry = mode.dry,
                                   !.quiet = TRUE, !.recipe = config]
    BY <1>1 DEF Start
  <2>2. /\ build'.pc = "walk" /\ build'.recipe = config /\ build'.forced = mode.forced
        /\ build'.docs = [s \in Sources |-> None] /\ ~build'.errors
        /\ build'.written = {} /\ build'.kept = {} /\ build'.removed = {}
    BY <2>1 DEF NoBuild
  <2>3. mode.forced \in BOOLEAN
    BY SiteBuildAssumption
  <2> QED
    BY <1>0, <2>2, <2>3 DEF QuietInv, Writing
<1>2. CASE WalkInputs
  <2> DEFINE paths == {s \in Sources : source[s] # None}
  <2>1. /\ build.pc = "walk" /\ DOMAIN build = Fields /\ build.reading = {}
        /\ build' = [build EXCEPT !.pc = "parse", !.asset = asset, !.paths = paths,
                                  !.todo = paths]
    BY <1>2 DEF WalkInputs, IInv, MemoryInv, ParseInv
  <2>2. /\ build'.pc = "parse" /\ build'.asset = asset /\ build'.todo = paths
        /\ build'.reading = {} /\ build'.docs = build.docs /\ build'.recipe = build.recipe
        /\ build'.quiet = build.quiet /\ build'.forced = build.forced
        /\ build'.errors = build.errors /\ build'.written = build.written
        /\ build'.kept = build.kept /\ build'.removed = build.removed
    BY <2>1, FieldsDef
  <2> QED
    BY <1>0, <2>1, <2>2 DEF QuietInv, Writing
<1> QED
  BY <1>1, <1>2

(* A job's stat or read that nothing disturbs. *)
LEMMA ParseQuiet ==
  ASSUME IInv, QuietInv, build.pc = "parse", build'.pc = "parse", UNCHANGED inputs,
         build'.quiet = build.quiet, build'.recipe = build.recipe, build'.asset = build.asset,
         build'.forced = build.forced, build'.errors = build.errors,
         build'.written = build.written, build'.kept = build.kept,
         build'.removed = build.removed, NEW s \in Sources,
         \A t \in Sources \ {s} :
           /\ build'.docs[t] = build.docs[t]
           /\ t \in build'.todo <=> t \in build.todo
           /\ t \in build'.reading <=> t \in build.reading,
         build.quiet =>
           /\ s \in build'.todo \cup build'.reading => source[s] # None
           /\ s \in build'.reading => build'.docs[s].stamp = source[s].stamp
           /\ s \notin build'.todo \cup build'.reading => build'.docs[s] = source[s]
  PROVE  QuietInv'
<1> SUFFICES ASSUME build.quiet PROVE QuietInv'
  BY DEF QuietInv
<1>1. config' = config /\ asset' = asset /\ source' = source
  BY DEF inputs
<1>2. /\ build.recipe = config /\ build.asset = asset /\ build.forced \in BOOLEAN
      /\ ~build.errors /\ build.written = {} /\ build.kept = {} /\ build.removed = {}
  BY DEF QuietInv
<1>3. \A t \in Sources :
           /\ t \in build.todo \cup build.reading => source[t] # None
           /\ t \in build.reading => build.docs[t].stamp = source[t].stamp
           /\ t \notin build.todo \cup build.reading => build.docs[t] = source[t]
  BY DEF QuietInv
<1>4. \A t \in Sources :
           /\ t \in build'.todo \cup build'.reading => source[t] # None
           /\ t \in build'.reading => build'.docs[t].stamp = source[t].stamp
           /\ t \notin build'.todo \cup build'.reading => build'.docs[t] = source[t]
  BY <1>3
<1> QED
  BY <1>1, <1>2, <1>4 DEF QuietInv, Writing

LEMMA StatSourceQuiet ==
  ASSUME IInv, QuietInv, NEW s \in Sources, StatSource(s)
  PROVE  QuietInv'
<1>0. /\ build.pc = "parse" /\ DOMAIN build = Fields /\ DOMAIN build.docs = Sources
      /\ UNCHANGED inputs /\ s \in build.todo
      /\ build' = [build EXCEPT !.todo = @ \ {s}, !.reading = @ \cup {s},
                                !.docs[s] = [stamp |-> Stamp(source[s]), body |-> None]]
  BY DEF StatSource, Memory, IInv, MemoryInv
<1>1. /\ build'.pc = "parse" /\ build'.todo = build.todo \ {s}
      /\ build'.reading = build.reading \cup {s} /\ build'.recipe = build.recipe
      /\ build'.asset = build.asset /\ build'.quiet = build.quiet
      /\ build'.forced = build.forced /\ build'.errors = build.errors
      /\ build'.written = build.written /\ build'.kept = build.kept
      /\ build'.removed = build.removed
      /\ build'.docs = [build.docs EXCEPT ![s] = [stamp |-> Stamp(source[s]), body |-> None]]
  BY <1>0, FieldsDef
<1>2. /\ \A t \in Sources \ {s} : build'.docs[t] = build.docs[t]
      /\ build'.docs[s].stamp = Stamp(source[s])
  BY <1>0, <1>1
<1>3. build.quiet => source[s] # None
  BY <1>0 DEF QuietInv
<1>4. \A t \in Sources \ {s} :
        /\ t \in build'.todo <=> t \in build.todo
        /\ t \in build'.reading <=> t \in build.reading
  BY <1>1
<1>5. s \in build'.reading
  BY <1>1
<1> QED
  BY <1>0, <1>1, <1>2, <1>3, <1>4, <1>5, ParseQuiet DEF Stamp

LEMMA ReadSourceQuiet ==
  ASSUME IInv, QuietInv, NEW s \in Sources, ReadSource(s)
  PROVE  QuietInv'
<1>0. /\ build.pc = "parse" /\ DOMAIN build = Fields
      /\ build.docs \in [Sources -> Docs \cup {None}] /\ UNCHANGED inputs
      /\ s \in build.reading /\ build.docs[s] # None /\ source \in [Sources -> Docs \cup {None}]
  BY DEF ReadSource, Memory, IInv, MemoryInv, ParseInv, FilesInv
<1>1. CASE source[s] = None
  <2>1. ~build.quiet
    BY <1>0, <1>1 DEF QuietInv
  <2>2. build' = [build EXCEPT !.reading = @ \ {s}, !.docs[s] = None, !.errors = TRUE]
    BY <1>1 DEF ReadSource
  <2>3. ~build'.quiet
    BY <1>0, <2>1, <2>2, FieldsDef
  <2> QED
    BY <2>3 DEF QuietInv
<1>2. CASE source[s] # None
  <2>0. build' = [build EXCEPT !.reading = @ \ {s}, !.docs[s].body = source[s].body]
    BY <1>2 DEF ReadSource
  <2>1. /\ build'.pc = "parse" /\ build'.todo = build.todo
        /\ build'.reading = build.reading \ {s} /\ build'.recipe = build.recipe
        /\ build'.asset = build.asset /\ build'.quiet = build.quiet
        /\ build'.forced = build.forced /\ build'.errors = build.errors
        /\ build'.written = build.written /\ build'.kept = build.kept
        /\ build'.removed = build.removed
        /\ build'.docs = [build.docs EXCEPT ![s].body = source[s].body]
    BY <1>0, <2>0, FieldsDef
  <2>2. \A t \in Sources \ {s} : build'.docs[t] = build.docs[t]
    BY <1>0, <2>1
  <2>3. build.docs[s].stamp = source[s].stamp => build'.docs[s] = source[s]
    <3>1. build.docs[s] \in Docs /\ source[s] \in Docs
      BY <1>0, <1>2
    <3>2. build'.docs[s] = [build.docs[s] EXCEPT !.body = source[s].body]
      BY <1>0, <2>1
    <3> QED
      BY <3>1, <3>2 DEF Docs
  <2>4. build.quiet => build.docs[s].stamp = source[s].stamp
    BY <1>0 DEF QuietInv
  <2>5. \A t \in Sources \ {s} :
          /\ t \in build'.todo <=> t \in build.todo
          /\ t \in build'.reading <=> t \in build.reading
    BY <2>1
  <2>6. s \notin build'.reading
    BY <2>1
  <2> QED
    BY <1>0, <1>2, <2>1, <2>2, <2>3, <2>4, <2>5, <2>6, ParseQuiet
<1> QED
  BY <1>1, <1>2

(* The cache is read, the templates are listed, the result is checked. *)
LEMMA CheckQuiet ==
  ASSUME IInv, QuietInv, ReadCache \/ StatTemplates \/ ConvertBodies
  PROVE  QuietInv'
<1>0. /\ DOMAIN build = Fields /\ build.docs \in [Sources -> Docs \cup {None}]
      /\ source \in [Sources -> Docs \cup {None}]
      /\ source' = source /\ config' = config /\ asset' = asset /\ template' = template
      /\ cache' = cache
  BY DEF ReadCache, StatTemplates, ConvertBodies, Memory, inputs, disk, IInv, MemoryInv, FilesInv
<1>1. StatsOf(template)' = StatsOf(template)
  BY <1>0 DEF StatsOf
<1>2. CASE ReadCache
  <2>1. /\ build.pc = "parse" /\ build.todo = {} /\ build.reading = {}
        /\ build'.pc = "stat" /\ build'.docs = build.docs /\ build'.recipe = build.recipe
        /\ build'.asset = build.asset /\ build'.quiet = build.quiet
        /\ build'.forced = build.forced /\ build'.errors = build.errors
        /\ build'.written = build.written /\ build'.kept = build.kept
        /\ build'.removed = build.removed
        /\ build'.rows = IF build.forced \/ cache.recipe # build.recipe THEN NoCache ELSE cache
    BY <1>0, <1>2, FieldsDef DEF ReadCache
  <2>2. build.quiet => build.docs = source
    BY <1>0, <2>1 DEF QuietInv
  <2>3. build.quiet => build'.rows = TrustedRows(build.forced, cache, config)'
    BY <1>0, <2>1 DEF QuietInv, TrustedRows
  <2> QED
    BY <1>0, <2>1, <2>2, <2>3 DEF QuietInv, Writing
<1>3. CASE StatTemplates
  <2>1. /\ build.pc = "stat"
        /\ build'.pc = "convert" /\ build'.docs = build.docs /\ build'.recipe = build.recipe
        /\ build'.asset = build.asset /\ build'.quiet = build.quiet
        /\ build'.forced = build.forced /\ build'.errors = build.errors
        /\ build'.written = build.written /\ build'.kept = build.kept
        /\ build'.removed = build.removed /\ build'.rows = build.rows
    BY <1>0, <1>3, FieldsDef DEF StatTemplates
  <2>2. /\ build'.stats = StatsOf(template)
        /\ build'.fresh = FoundIn(build.rows, build.docs, StatsOf(template))
        /\ build'.aggregatesFresh = AllMatch(build.rows, build.docs, StatsOf(template))
    BY <1>0, <1>3, FieldsDef DEF StatTemplates, StatsOf, FoundIn, AllMatch
  <2>3. build.quiet =>
          build.docs = source /\ build'.rows = TrustedRows(build.forced, cache, config)'
    BY <1>0, <2>1 DEF QuietInv
  <2> QED
    BY <1>0, <1>1, <2>1, <2>2, <2>3 DEF QuietInv, Writing
<1>4. CASE ConvertBodies
  <2>0. build.pc = "convert"
    BY <1>4 DEF ConvertBodies
  <2>1. CASE End("rejected")
    <3>1. /\ build'.pc = "ended" /\ build'.recipe = build.recipe /\ build'.asset = build.asset
          /\ build'.quiet = build.quiet /\ build'.forced = build.forced
      BY <1>0, <2>1, FieldsDef DEF End
    <3> QED
      BY <1>0, <2>0, <3>1 DEF QuietInv, Writing
  <2>2. CASE build' = [build EXCEPT !.pc = "empty",
                         !.fresh = WithoutLinkers(build.fresh, build.docs)]
    <3>1. /\ build'.pc = "empty" /\ build'.docs = build.docs /\ build'.stats = build.stats
          /\ build'.recipe = build.recipe /\ build'.asset = build.asset
          /\ build'.quiet = build.quiet /\ build'.forced = build.forced
          /\ build'.errors = build.errors
          /\ build'.written = build.written /\ build'.kept = build.kept
          /\ build'.removed = build.removed
          /\ build'.aggregatesFresh = build.aggregatesFresh
          /\ build'.fresh = WithoutLinkers(build.fresh, build.docs)
      BY <1>0, <2>2, FieldsDef
    <3>2. build.quiet =>
            /\ build'.fresh = FreshNow(build.forced, cache, config, source, template)'
            /\ build'.aggregatesFresh = MatchNow(build.forced, cache, config, source, template)'
      <4> SUFFICES ASSUME build.quiet
                   PROVE  /\ build'.fresh = FreshNow(build.forced, cache, config, source, template)'
                          /\ build'.aggregatesFresh
                               = MatchNow(build.forced, cache, config, source, template)'
        OBVIOUS
      <4>1. /\ build.docs = source /\ build.rows = TrustedRows(build.forced, cache, config)
            /\ build.fresh = FoundIn(build.rows, source, StatsOf(template))
            /\ build.aggregatesFresh = AllMatch(build.rows, source, StatsOf(template))
        BY <2>0 DEF QuietInv
      <4> QED
        BY <1>0, <3>1, <4>1 DEF FreshNow, MatchNow, FreshIn
    <3> QED
      BY <1>0, <1>1, <2>0, <3>1, <3>2 DEF QuietInv
  <2> QED
    BY <1>4, <2>1, <2>2 DEF ConvertBodies, WithoutLinkers
<1> QED
  BY <1>2, <1>3, <1>4

(* Only the write of a build that is no dry run touches the cache. *)
LEMMA CacheStays ==
  ASSUME Write, build.dry
  PROVE  cache' = cache /\ tree' = tree
BY DEF Write, EmptyCache, EndPages, KeepIndex, RenderIndex, CopyAsset, WriteCache, EndPrune, KeepPage,
   RenderPage, RemoveStale, Memory, disk, WriteOutput

LEMMA StepQuiet ==
  ASSUME IInv, QuietInv, [Next]_vars
  PROVE  QuietInv'
<1>1. CASE User
  <2>1. Disturb
    BY <1>1 DEF User, EditSource, DeleteSource, RenameSource, SwapSources, EditTemplate,
       DeleteTemplate, EditConfig, MoveAsset, DeleteOutput
  <2>2. ~build'.quiet
    BY <2>1, FieldsDef DEF Disturb, IInv, MemoryInv
  <2> QED
    BY <2>2 DEF QuietInv
<1>2. CASE Exit \/ Crash
  BY <1>2 DEF Exit, Crash, NoBuild, QuietInv
<1>3. CASE Write
  <2>1. UNCHANGED inputs
    BY <1>3, BuildInputs DEF Build, Write
  <2>2. /\ SameRead /\ build.pc \in Writing
        /\ build'.pc \in (Writing \ {"empty"}) \cup {"ended"}
    BY <1>3, ReadStays DEF IInv, MemoryInv
  <2> QED
    BY <1>3, <2>1, <2>2, CacheStays, QuietStays
<1>4. CASE UNCHANGED vars
  <2>1. /\ source' = source /\ config' = config /\ asset' = asset /\ template' = template
        /\ cache' = cache /\ build' = build
    BY <1>4 DEF vars, inputs, disk
  <2> QED
    BY <2>1 DEF QuietInv
<1>5. CASE Start \/ WalkInputs
  BY <1>5, BeginQuiet
<1>6. CASE ReadCache \/ StatTemplates \/ ConvertBodies
  BY <1>6, CheckQuiet
<1>7. ASSUME NEW s \in Sources, StatSource(s) \/ ReadSource(s) PROVE QuietInv'
  BY <1>7, StatSourceQuiet, ReadSourceQuiet
<1> QED
  BY <1>1, <1>2, <1>3, <1>4, <1>5, <1>6, <1>7 DEF Next, Build, Write

LEMMA InitQuiet == Init => QuietInv
BY DEF Init, NoBuild, QuietInv

(* A build that nothing disturbs knows its inputs. *)
THEOREM QuietKnows == Spec => []QuietInv
BY InitQuiet, StepQuiet, Consistent, PTL DEF Spec

-----------------------------------------------------------------------------
(* What a build does with each output, from what it trusts and from the     *)
(* outputs that are there when it starts.                                   *)
Existing(out) == {o \in Outputs : out[o] # None}

Keeps(docs, s, fresh, there) == fresh[s] # {} /\ Out(docs, s) \in there

KeptPages(docs, done, fresh, there) ==
  {Out(docs, s) : s \in {t \in done : Keeps(docs, t, fresh, there)}}

WrittenPages(docs, done, fresh, there) ==
  {Out(docs, s) : s \in {t \in done : ~Keeps(docs, t, fresh, there)}}

KeepsIndex(match, there) == match /\ Index \in there

KeptIndex(match, there) == {o \in {Index} : KeepsIndex(match, there)}

WrittenIndex(match, there) == {Index} \ KeptIndex(match, there)

(* A render that it cannot do without fails. *)
IsStuck(docs, files, fresh, match, there) ==
  \/ /\ RenderFails(files, ContentTemplate)
     /\ \E s \in Entries(docs) : ~Keeps(docs, s, fresh, there)
  \/ RenderFails(files, IndexTemplate) /\ ~KeepsIndex(match, there)

(* What the end of a dry run, or the plan it leaves, says of such a build.  *)
Foretells(report, docs, path, files, fresh, match, there) ==
  /\ report.outcome \in {"ok", "failed", "rejected"}
  /\ report.outcome = "rejected" <=> IsRejected(docs, path)
  /\ report.outcome = "failed" => IsStuck(docs, files, fresh, match, there)
  /\ report.outcome = "ok" =>
       /\ report.kept = KeptPages(docs, Entries(docs), fresh, there) \cup KeptIndex(match, there)
       /\ report.written = WrittenPages(docs, Entries(docs), fresh, there)
                           \cup WrittenIndex(match, there) \cup ({path} \ {None})
       /\ report.removed = there \ Manifest(docs, path)

(* A site that a completed build left, and nothing touched since. *)
IsComplete(docs, path, fresh, match, there) ==
  /\ there = Manifest(docs, path) /\ match
  /\ \A s \in Entries(docs) : docs[s].body \in AssetLinkers \/ fresh[s] # {}

(* The phases in which a build marks its outputs. *)
Marking == Writing \ {"empty"}

(* The entries whose pages a build is done with. *)
Handled == IF build.pc = "prune" THEN Entries(build.docs) ELSE Entries(build.docs) \ build.todo

IsIndexHandled == build.pc \in {"copy", "rows", "prune"}

(* How far a build without errors has come. *)
IsOnTrack(there) ==
  /\ \A o \in Outputs \ (build.written \cup build.kept \cup build.removed) :
       o \in there <=> tree[o] # None
  /\ \A s \in Handled : Keeps(build.docs, s, build.fresh, there)
                        \/ ~RenderFails(template, ContentTemplate)
  /\ IsIndexHandled =>
       KeepsIndex(build.aggregatesFresh, there) \/ ~RenderFails(template, IndexTemplate)
  /\ build.kept = KeptPages(build.docs, Handled, build.fresh, there)
                  \cup (IF IsIndexHandled THEN KeptIndex(build.aggregatesFresh, there) ELSE {})
  /\ build.written = WrittenPages(build.docs, Handled, build.fresh, there)
                     \cup (IF IsIndexHandled THEN WrittenIndex(build.aggregatesFresh, there) ELSE {})
                     \cup (IF build.pc \in {"rows", "prune"} THEN {build.asset} \ {None} ELSE {})
  /\ build.pc = "prune" =>
       build.todo \cup build.removed = there \ Manifest(build.docs, build.asset)

(* "there" is what was in output_dir when the build began. *)
Progress(there) ==
  /\ build.dry => there = Existing(tree)
  /\ build.errors =>
       /\ build.pc \in {"pages", "prune"}
       /\ build.dry => /\ build.pc = "pages"
                       /\ IsStuck(build.docs, template, build.fresh, build.aggregatesFresh, there)
  /\ ~build.errors => IsOnTrack(there)
  /\ build.pc = "prune" =>
       build.todo \cup build.removed \subseteq there \ Manifest(build.docs, build.asset)

(* The plan and the completed build before this one tell of it. *)
IsTold(there) ==
  /\ plan # NoPlan /\ plan.forced = build.forced =>
       Foretells(plan, source, asset, template, build.fresh, build.aggregatesFresh, there)
  /\ settled /\ ~build.forced =>
       IsComplete(source, asset, build.fresh, build.aggregatesFresh, there)

MarksInv ==
  build.quiet /\ build.pc \in Marking =>
    \E there \in SUBSET Outputs : Progress(there) /\ IsTold(there)

(* Whether the cache and output_dir are as they were when the build began.  *)
IsDiskKept == build.pc \notin Marking \cup {"ended"} \/ build.dry

PlanInv ==
  plan # NoPlan =>
    /\ build.pc # "idle" => build.quiet
    /\ plan.forced \in BOOLEAN
    /\ plan.outcome = "rejected" <=> IsRejected(source, asset)
    /\ IsDiskKept =>
         Foretells(plan, source, asset, template,
                   FreshNow(plan.forced, cache, config, source, template),
                   MatchNow(plan.forced, cache, config, source, template), Existing(tree))

SettledInv ==
  settled =>
    /\ build.pc # "idle" => build.quiet
    /\ ~IsRejected(source, asset)
    /\ IsDiskKept =>
         IsComplete(source, asset, FreshNow(FALSE, cache, config, source, template),
                    MatchNow(FALSE, cache, config, source, template), Existing(tree))

(* A cache that trusts every page and the aggregates. *)
IsCurrent(rows, recipe, docs, files) ==
  rows.recipe = recipe /\ AllMatch(rows, docs, StatsOf(files))

(* What a build that is no dry run has done: no output it marked is missing, *)
(* and once it prunes only what is left to prune is stale.                  *)
LeavesInv ==
  build.quiet /\ build.pc \in Marking =>
    /\ build.aggregatesFresh => TemplateRows(StatsOf(template)) # {}
    /\ ~build.dry /\ ~build.errors =>
         /\ \A o \in build.written \cup build.kept : tree[o] # None
         /\ build.pc = "prune" =>
              /\ Existing(tree) \subseteq Manifest(source, asset) \cup build.todo
              /\ IsCurrent(cache, config, source, template)

EndedInv ==
  build.quiet /\ build.pc = "ended" =>
    /\ build.dry =>
         Foretells(build, source, asset, template,
                   FreshNow(build.forced, cache, config, source, template),
                   MatchNow(build.forced, cache, config, source, template), Existing(tree))
    /\ ~build.dry /\ build.outcome = "ok" =>
         /\ ~IsRejected(source, asset)
         /\ IsComplete(source, asset, FreshNow(FALSE, cache, config, source, template),
                       MatchNow(FALSE, cache, config, source, template), Existing(tree))

PInv ==
  MarksInv /\ PlanInv /\ SettledInv /\ LeavesInv /\ EndedInv /\ DryRunPredicts /\ NothingToDo

-----------------------------------------------------------------------------
LEMMA OneMoreKept ==
  ASSUME NEW docs, NEW done, NEW s, NEW fresh, NEW there, Keeps(docs, s, fresh, there)
  PROVE  /\ KeptPages(docs, done \cup {s}, fresh, there)
              = KeptPages(docs, done, fresh, there) \cup {Out(docs, s)}
         /\ WrittenPages(docs, done \cup {s}, fresh, there)
              = WrittenPages(docs, done, fresh, there)
BY DEF KeptPages, WrittenPages

LEMMA OneMoreWritten ==
  ASSUME NEW docs, NEW done, NEW s, NEW fresh, NEW there, ~Keeps(docs, s, fresh, there)
  PROVE  /\ WrittenPages(docs, done \cup {s}, fresh, there)
              = WrittenPages(docs, done, fresh, there) \cup {Out(docs, s)}
         /\ KeptPages(docs, done \cup {s}, fresh, there) = KeptPages(docs, done, fresh, there)
BY DEF KeptPages, WrittenPages

(* Kept and written, the outputs of a build are those it claims. *)
LEMMA PagesAdd ==
  ASSUME NEW docs, NEW done, NEW fresh, NEW there
  PROVE  KeptPages(docs, done, fresh, there) \cup WrittenPages(docs, done, fresh, there)
           = PagesOf(docs, done)
BY DEF KeptPages, WrittenPages, PagesOf

LEMMA IndexAdds ==
  ASSUME NEW match, NEW there
  PROVE  /\ KeptIndex(match, there) \cup WrittenIndex(match, there) = {Index}
         /\ KeepsIndex(match, there) =>
              KeptIndex(match, there) = {Index} /\ WrittenIndex(match, there) = {}
         /\ ~KeepsIndex(match, there) =>
              KeptIndex(match, there) = {} /\ WrittenIndex(match, there) = {Index}
BY DEF KeptIndex, WrittenIndex

LEMMA OutputWritten ==
  ASSUME NEW o \in Outputs, NEW value, NEW ok \in BOOLEAN, WriteOutput(o, value, ok),
         DOMAIN tree = Outputs, build.dry \in BOOLEAN
  PROVE  /\ \A p \in Outputs \ {o} : tree'[p] = tree[p]
         /\ build.dry => ok /\ tree' = tree
         /\ ok /\ ~build.dry => tree'[o] = value
BY DEF WriteOutput

(* What a step that may write finds and leaves. *)
SameSite ==
  /\ source' = source /\ template' = template /\ config' = config /\ asset' = asset
  /\ plan' = plan /\ settled' = settled
  /\ build'.docs = build.docs /\ build'.asset = build.asset /\ build'.dry = build.dry
  /\ build'.fresh = build.fresh /\ build'.aggregatesFresh = build.aggregatesFresh
  /\ build'.recipe = build.recipe
  /\ build'.quiet = build.quiet /\ build'.forced = build.forced

LEMMA WriteIsSame ==
  ASSUME IInv, Write
  PROVE  /\ SameSite /\ SameRead /\ build.pc \in Writing /\ DOMAIN build = Fields
         /\ build.dry \in BOOLEAN
<1>1. DOMAIN build = Fields /\ build.dry \in BOOLEAN
  BY DEF IInv, MemoryInv
<1>2. SameRead /\ build.pc \in Writing
  BY <1>1, ReadStays
<1>3. UNCHANGED <<inputs, plan, settled>>
  BY WriteKeeps
<1> QED
  BY <1>1, <1>2, <1>3 DEF SameSite, SameRead, SameEntries, inputs

LEMMA ToldStays ==
  ASSUME NEW there, IsTold(there), SameSite
  PROVE  IsTold(there)'
BY DEF IsTold, SameSite

(* The pages that are to be done are not marked yet. *)
LEMMA PageIsUnmarked ==
  ASSUME IInv, TypesInv, build.pc = "pages", NEW s \in build.todo
  PROVE  /\ s \in Entries(build.docs) /\ s \in Sources /\ Page(s) \in Outputs
         /\ Page(s) \notin build.written \cup build.kept \cup build.removed
<1>1. s \in Entries(build.docs) /\ build.pc \in Writing /\ build.todo \subseteq Entries(build.docs)
  BY DEF Writing, TypesInv, TodoTypes
<1>2. /\ build.removed = {}
      /\ build.written \cup build.kept \subseteq PagesOf(build.docs, Entries(build.docs) \ build.todo)
  BY DEF TypesInv, MarkTypes
<1>3. /\ s \in Sources /\ Page(s) \in Outputs
      /\ \A t \in Entries(build.docs) : Page(t) = Page(s) => t = s
  BY <1>1, PageIsNew
<1>4. Page(s) \notin PagesOf(build.docs, Entries(build.docs) \ build.todo)
  BY <1>1, <1>3 DEF PagesOf, Page
<1> QED
  BY <1>1, <1>2, <1>3, <1>4

LEMMA PageProgress ==
  ASSUME IInv, TypesInv, NEW there \in SUBSET Outputs, Progress(there), SameSite,
         build.pc = "pages", Goes("pages"), NEW s \in build.todo, build'.todo = build.todo \ {s},
         build'.removed = build.removed, build.dry => tree' = tree,
         \A o \in Outputs \ {Page(s)} : tree'[o] = tree[o],
         build.errors => build'.errors,
         ~build.errors /\ build'.errors /\ build.dry =>
           RenderFails(template, ContentTemplate) /\ ~Keeps(build.docs, s, build.fresh, there),
         ~build'.errors =>
           \/ /\ Keeps(build.docs, s, build.fresh, there)
              /\ build'.kept = build.kept \cup {Page(s)} /\ build'.written = build.written
           \/ /\ ~Keeps(build.docs, s, build.fresh, there)
              /\ ~RenderFails(template, ContentTemplate)
              /\ build'.written = build.written \cup {Page(s)} /\ build'.kept = build.kept
  PROVE  Progress(there)'
<1>0. /\ s \in Entries(build.docs) /\ s \in Sources /\ Page(s) \in Outputs
      /\ Page(s) \notin build.written \cup build.kept \cup build.removed
  BY PageIsUnmarked
<1>1. /\ build'.pc = "pages" /\ build'.docs = build.docs /\ build'.asset = build.asset
      /\ build'.dry = build.dry /\ template' = template
      /\ build'.fresh = build.fresh /\ build'.aggregatesFresh = build.aggregatesFresh
  BY DEF SameSite, Goes
<1>2. build'.dry => there = Existing(tree')
  BY <1>1 DEF Progress
<1>3. ASSUME build'.errors, build'.dry
      PROVE  IsStuck(build.docs, template, build.fresh, build.aggregatesFresh, there)
  <2>1. CASE build.errors
    BY <1>1, <1>3, <2>1 DEF Progress
  <2>2. CASE ~build.errors
    BY <1>0, <1>1, <1>3, <2>2 DEF IsStuck
  <2> QED
    BY <2>1, <2>2
<1>4. ASSUME ~build'.errors PROVE IsOnTrack(there)'
  <2>0. IsOnTrack(there)
    BY <1>4 DEF Progress
  <2>1. Handled' = Handled \cup {s}
    BY <1>0, <1>1 DEF Handled
  <2>2. build.kept = KeptPages(build.docs, Handled, build.fresh, there)
        /\ build.written = WrittenPages(build.docs, Handled, build.fresh, there)
    BY <2>0 DEF IsOnTrack, IsIndexHandled
  <2>3. /\ build'.kept = KeptPages(build.docs, Handled \cup {s}, build.fresh, there)
        /\ build'.written = WrittenPages(build.docs, Handled \cup {s}, build.fresh, there)
        /\ Page(s) \in build'.kept \cup build'.written
        /\ build.kept \cup build.written \subseteq build'.kept \cup build'.written
    <3>1. Page(s) = Out(build.docs, s)
      BY DEF Page
    <3>2. CASE Keeps(build.docs, s, build.fresh, there)
      <4>1. build'.kept = build.kept \cup {Page(s)} /\ build'.written = build.written
        BY <1>4, <3>2
      <4>2. /\ KeptPages(build.docs, Handled \cup {s}, build.fresh, there)
                 = KeptPages(build.docs, Handled, build.fresh, there) \cup {Page(s)}
            /\ WrittenPages(build.docs, Handled \cup {s}, build.fresh, there)
                 = WrittenPages(build.docs, Handled, build.fresh, there)
        BY <3>1, <3>2, OneMoreKept
      <4> QED
        BY <2>2, <4>1, <4>2
    <3>3. CASE ~Keeps(build.docs, s, build.fresh, there)
      <4>1. build'.written = build.written \cup {Page(s)} /\ build'.kept = build.kept
        BY <1>4, <3>3
      <4>2. /\ WrittenPages(build.docs, Handled \cup {s}, build.fresh, there)
                 = WrittenPages(build.docs, Handled, build.fresh, there) \cup {Page(s)}
            /\ KeptPages(build.docs, Handled \cup {s}, build.fresh, there)
                 = KeptPages(build.docs, Handled, build.fresh, there)
        BY <3>1, <3>3, OneMoreWritten
      <4> QED
        BY <2>2, <4>1, <4>2
    <3> QED
      BY <3>2, <3>3
  <2>4. \A t \in Handled \cup {s} :
          Keeps(build.docs, t, build.fresh, there) \/ ~RenderFails(template, ContentTemplate)
    BY <1>4, <2>0 DEF IsOnTrack
  <2>5. \A o \in Outputs \ (build'.written \cup build'.kept \cup build'.removed) :
          o \in there <=> tree'[o] # None
    <3>1. \A o \in Outputs \ (build.written \cup build.kept \cup build.removed) :
            o \in there <=> tree[o] # None
      BY <2>0 DEF IsOnTrack
    <3> QED
      BY <2>3, <3>1
  <2>6. /\ ~IsIndexHandled' /\ build'.pc \notin {"rows", "prune"}
        /\ \A t \in Handled' : Keeps(build'.docs, t, build'.fresh, there)
                              \/ ~RenderFails(template', ContentTemplate)
    BY <1>1, <2>1, <2>4 DEF IsIndexHandled
  <2>7. /\ build'.kept = KeptPages(build'.docs, Handled', build'.fresh, there)
        /\ build'.written = WrittenPages(build'.docs, Handled', build'.fresh, there)
    BY <1>1, <2>1, <2>3
  <2> QED
    BY <2>5, <2>6, <2>7 DEF IsOnTrack
<1> QED
  BY <1>1, <1>2, <1>3, <1>4 DEF Progress

LEMMA KeepPageProgress ==
  ASSUME IInv, TypesInv, NEW there \in SUBSET Outputs, Progress(there), SameSite,
         NEW s \in Sources, KeepPage(s)
  PROVE  Progress(there)'
<1>0. DOMAIN build = Fields
  BY DEF IInv, MemoryInv
<1>1. /\ build.pc = "pages" /\ s \in build.todo /\ UNCHANGED disk /\ Goes("pages")
      /\ build.fresh[s] # {} /\ tree[Page(s)] # None
      /\ build'.todo = build.todo \ {s} /\ build'.errors = build.errors
      /\ build'.kept = build.kept \cup {Page(s)}
      /\ build'.written = build.written /\ build'.removed = build.removed
  BY <1>0, KeepPageDoes
<1>2. /\ Page(s) \in Outputs
      /\ Page(s) \notin build.written \cup build.kept \cup build.removed
  BY <1>1, PageIsUnmarked
<1>3. ASSUME ~build.errors PROVE Keeps(build.docs, s, build.fresh, there)
  <2>1. Page(s) \in there
    BY <1>1, <1>2, <1>3 DEF Progress, IsOnTrack
  <2> QED
    BY <1>1, <2>1 DEF Keeps, Page
<1> QED
  BY <1>1, <1>3, PageProgress DEF disk

LEMMA RenderPageProgress ==
  ASSUME IInv, TypesInv, NEW there \in SUBSET Outputs, Progress(there), SameSite,
         NEW s \in Sources, RenderPage(s)
  PROVE  Progress(there)'
<1>0. DOMAIN build = Fields /\ DOMAIN tree = Outputs /\ build.dry \in BOOLEAN
  BY DEF IInv, MemoryInv, TypesInv, SiteTypes
<1>1. /\ build.pc = "pages" /\ s \in build.todo /\ Goes("pages")
      /\ build.fresh[s] = {} \/ tree[Page(s)] = None
      /\ build'.todo = build.todo \ {s} /\ build'.kept = build.kept
      /\ build'.removed = build.removed
  BY <1>0, RenderPageDoes
<1>2. /\ Page(s) \in Outputs
      /\ Page(s) \notin build.written \cup build.kept \cup build.removed
  BY <1>1, PageIsUnmarked
<1>3. ASSUME ~build.errors PROVE ~Keeps(build.docs, s, build.fresh, there)
  BY <1>1, <1>2, <1>3 DEF Progress, IsOnTrack, Keeps, Page
<1>4. CASE /\ RenderFails(template, ContentTemplate) /\ build'.errors = TRUE
           /\ UNCHANGED <<tree, faults>>
  BY <1>1, <1>3, <1>4, PageProgress
<1>5. CASE /\ ~RenderFails(template, ContentTemplate)
           /\ \E ok \in BOOLEAN :
                /\ WriteOutput(Page(s),
                     PageOf(build.docs, s, build.asset, template, build.recipe), ok)
                /\ build'.errors = (build.errors \/ ~ok)
                /\ build'.written = build.written \cup {Page(s)}
  <2>1. PICK ok \in BOOLEAN :
          /\ WriteOutput(Page(s), PageOf(build.docs, s, build.asset, template, build.recipe), ok)
          /\ build'.errors = (build.errors \/ ~ok)
          /\ build'.written = build.written \cup {Page(s)}
    BY <1>5
  <2>2. /\ \A o \in Outputs \ {Page(s)} : tree'[o] = tree[o]
        /\ build.dry => ok /\ tree' = tree
    BY <1>0, <1>2, <2>1, OutputWritten
  <2>3. /\ build.errors => build'.errors
        /\ build'.errors /\ build.dry => build.errors
        /\ ~build'.errors => ~build.errors
    BY <2>1, <2>2
  <2> QED
    BY <1>1, <1>3, <1>5, <2>1, <2>2, <2>3, PageProgress
<1> QED
  BY <1>0, <1>4, <1>5, RenderPageDoes


(* The pages are done. *)
LEMMA EndPagesProgress ==
  ASSUME IInv, TypesInv, NEW there \in SUBSET Outputs, Progress(there), SameSite,
         EndPages, build'.pc \in Marking
  PROVE  Progress(there)'
<1>0. DOMAIN build = Fields
  BY DEF IInv, MemoryInv
<1>1. /\ build.pc = "pages" /\ build.todo = {} /\ tree' = tree
      /\ ~build.errors /\ Goes("index") /\ build'.todo = build.todo /\ SameMarks
      /\ build'.errors = build.errors
  BY <1>0, EndPagesDoes DEF Ends, Marking, Writing, disk
<1>2. Handled' = Handled
  BY <1>1 DEF Handled, Goes, SameSite
<1>3. IsOnTrack(there)
  BY <1>1 DEF Progress
<1>4. IsOnTrack(there)'
  BY <1>1, <1>2, <1>3 DEF IsOnTrack, IsIndexHandled, Goes, SameSite, SameMarks
<1> QED
  BY <1>1, <1>4 DEF Progress, Goes, SameSite

(* The index is no page. *)
LEMMA IndexIsUnmarked ==
  ASSUME IInv, TypesInv, build.pc = "index"
  PROVE  Index \in Outputs /\ Index \notin build.written \cup build.kept \cup build.removed
<1>1. build.removed = {} /\ build.pc \in Writing
      /\ build.written \cup build.kept \subseteq PagesOf(build.docs, Entries(build.docs))
  BY DEF TypesInv, MarkTypes, Writing
<1>2. PagesOf(build.docs, Entries(build.docs)) \subseteq Pages
  BY <1>1, ClaimsAreOutputs
<1> QED
  BY <1>1, <1>2, SiteAssumption DEF Outputs

LEMMA IndexProgress ==
  ASSUME IInv, TypesInv, NEW there \in SUBSET Outputs, Progress(there), SameSite,
         build.pc = "index", Goes("copy"), build'.todo = build.todo, build'.errors = build.errors,
         build'.removed = build.removed, build.dry => tree' = tree,
         \A o \in Outputs \ {Index} : tree'[o] = tree[o],
         \/ /\ KeepsIndex(build.aggregatesFresh, there)
            /\ build'.kept = build.kept \cup {Index} /\ build'.written = build.written
         \/ /\ ~KeepsIndex(build.aggregatesFresh, there)
            /\ ~RenderFails(template, IndexTemplate)
            /\ build'.written = build.written \cup {Index} /\ build'.kept = build.kept
  PROVE  Progress(there)'
<1>1. /\ build'.pc = "copy" /\ build'.docs = build.docs /\ build'.asset = build.asset
      /\ build'.dry = build.dry /\ template' = template
      /\ build'.fresh = build.fresh /\ build'.aggregatesFresh = build.aggregatesFresh
  BY DEF SameSite, Goes
<1>2. ~build.errors /\ IsOnTrack(there) /\ (build.dry => there = Existing(tree))
  BY DEF Progress
<1>3. Handled' = Handled /\ IsIndexHandled' /\ ~IsIndexHandled
  BY <1>1 DEF Handled, IsIndexHandled
<1>4. /\ build.kept = KeptPages(build.docs, Handled, build.fresh, there)
      /\ build.written = WrittenPages(build.docs, Handled, build.fresh, there)
  BY <1>2, <1>3 DEF IsOnTrack
<1>5. /\ build'.kept = KeptPages(build.docs, Handled, build.fresh, there)
                       \cup KeptIndex(build.aggregatesFresh, there)
      /\ build'.written = WrittenPages(build.docs, Handled, build.fresh, there)
                          \cup WrittenIndex(build.aggregatesFresh, there)
      /\ Index \in build'.kept \cup build'.written
      /\ build.kept \cup build.written \subseteq build'.kept \cup build'.written
      /\ KeepsIndex(build.aggregatesFresh, there) \/ ~RenderFails(template, IndexTemplate)
  <2>1. CASE /\ KeepsIndex(build.aggregatesFresh, there)
             /\ build'.kept = build.kept \cup {Index} /\ build'.written = build.written
    BY <1>4, <2>1, IndexAdds
  <2>2. CASE /\ ~KeepsIndex(build.aggregatesFresh, there)
             /\ ~RenderFails(template, IndexTemplate)
             /\ build'.written = build.written \cup {Index} /\ build'.kept = build.kept
    BY <1>4, <2>2, IndexAdds
  <2> QED
    BY <2>1, <2>2
<1>6. \A o \in Outputs \ (build'.written \cup build'.kept \cup build'.removed) :
        o \in there <=> tree'[o] # None
  <2>1. \A o \in Outputs \ (build.written \cup build.kept \cup build.removed) :
          o \in there <=> tree[o] # None
    BY <1>2 DEF IsOnTrack
  <2> QED
    BY <1>5, <2>1
<1>7. \A s \in Handled : Keeps(build.docs, s, build.fresh, there)
                         \/ ~RenderFails(template, ContentTemplate)
  BY <1>2 DEF IsOnTrack
<1>8. IsOnTrack(there)'
  BY <1>1, <1>3, <1>5, <1>6, <1>7 DEF IsOnTrack
<1> QED
  BY <1>1, <1>2, <1>8 DEF Progress

LEMMA KeepIndexProgress ==
  ASSUME IInv, TypesInv, NEW there \in SUBSET Outputs, Progress(there), SameSite, KeepIndex
  PROVE  Progress(there)'
<1>0. DOMAIN build = Fields
  BY DEF IInv, MemoryInv
<1>1. /\ build.pc = "index" /\ tree' = tree /\ Goes("copy")
      /\ build.aggregatesFresh /\ tree[Index] # None
      /\ build'.todo = build.todo /\ build'.errors = build.errors
      /\ build'.kept = build.kept \cup {Index}
      /\ build'.written = build.written /\ build'.removed = build.removed
  BY <1>0, KeepIndexDoes DEF disk
<1>2. Index \in Outputs /\ Index \notin build.written \cup build.kept \cup build.removed
  BY <1>1, IndexIsUnmarked
<1>3. KeepsIndex(build.aggregatesFresh, there)
  BY <1>1, <1>2 DEF Progress, IsOnTrack, KeepsIndex
<1> QED
  BY <1>1, <1>3, IndexProgress

LEMMA RenderIndexProgress ==
  ASSUME IInv, TypesInv, NEW there \in SUBSET Outputs, Progress(there), SameSite, RenderIndex,
         build'.pc \in Marking
  PROVE  Progress(there)'
<1>0. DOMAIN build = Fields /\ DOMAIN tree = Outputs /\ build.dry \in BOOLEAN
  BY DEF IInv, MemoryInv, TypesInv, SiteTypes
<1>1. /\ build.pc = "index" /\ (~build.aggregatesFresh \/ tree[Index] = None)
      /\ ~RenderFails(template, IndexTemplate)
      /\ \E ok \in BOOLEAN :
           /\ WriteOutput(Index, IndexOf(build.docs, template, build.recipe), ok)
           /\ ok /\ Goes("copy") /\ build'.todo = build.todo
           /\ build'.errors = build.errors
           /\ build'.written = build.written \cup {Index}
           /\ build'.kept = build.kept /\ build'.removed = build.removed
  BY <1>0, RenderIndexDoes DEF Ends, Marking, Writing
<1>2. Index \in Outputs /\ Index \notin build.written \cup build.kept \cup build.removed
  BY <1>1, IndexIsUnmarked
<1>3. ~KeepsIndex(build.aggregatesFresh, there)
  BY <1>1, <1>2 DEF Progress, IsOnTrack, KeepsIndex
<1>4. (\A o \in Outputs \ {Index} : tree'[o] = tree[o]) /\ (build.dry => tree' = tree)
  BY <1>0, <1>1, <1>2, OutputWritten
<1> QED
  BY <1>1, <1>3, <1>4, IndexProgress

(* The copy of the asset, or its absence. *)
LEMMA CopyAssetProgress ==
  ASSUME IInv, TypesInv, NEW there \in SUBSET Outputs, Progress(there), SameSite, CopyAsset,
         build'.pc \in Marking
  PROVE  Progress(there)'
<1>0. /\ DOMAIN build = Fields /\ DOMAIN tree = Outputs /\ build.dry \in BOOLEAN
      /\ build.asset \in Assets \cup {None}
  BY DEF IInv, MemoryInv, TypesInv, SiteTypes, ReadTypes
<1>1. /\ build.pc = "copy" /\ Goes("rows") /\ build'.todo = build.todo
      /\ build'.errors = build.errors /\ build'.kept = build.kept
      /\ build'.removed = build.removed
      /\ build'.written = build.written \cup ({build.asset} \ {None})
      /\ build.dry => tree' = tree
      /\ \A o \in Outputs \ ({build.asset} \ {None}) : tree'[o] = tree[o]
  <2>1. CASE /\ build.asset = None /\ Goes("rows") /\ build'.todo = build.todo /\ SameMarks
             /\ build'.errors = build.errors /\ UNCHANGED <<tree, faults>>
    BY <1>0, <2>1, CopyAssetDoes DEF SameMarks
  <2>2. CASE /\ build.asset # None
             /\ \E ok \in BOOLEAN :
                  /\ WriteOutput(build.asset, CopyOf(build.asset), ok)
                  /\ ok /\ Goes("rows") /\ build'.todo = build.todo
                  /\ build'.errors = build.errors
                  /\ build'.written = build.written \cup {build.asset}
                  /\ build'.kept = build.kept /\ build'.removed = build.removed
    <3>1. build.asset \in Outputs /\ {build.asset} \ {None} = {build.asset}
      BY <1>0, <2>2 DEF Outputs
    <3>2. (\A o \in Outputs \ {build.asset} : tree'[o] = tree[o]) /\ (build.dry => tree' = tree)
      BY <1>0, <2>2, <3>1, OutputWritten
    <3>3. build.pc = "copy"
      BY <1>0, CopyAssetDoes
    <3> QED
      BY <2>2, <3>1, <3>2, <3>3
  <2> QED
    BY <1>0, <2>1, <2>2, CopyAssetDoes DEF Ends, Marking, Writing
<1>2. /\ build'.pc = "rows" /\ build'.docs = build.docs /\ build'.asset = build.asset
      /\ build'.dry = build.dry /\ template' = template
      /\ build'.fresh = build.fresh /\ build'.aggregatesFresh = build.aggregatesFresh
  BY <1>1 DEF SameSite, Goes
<1>3. ~build.errors /\ IsOnTrack(there) /\ (build.dry => there = Existing(tree))
  BY <1>1 DEF Progress
<1>4. Handled' = Handled /\ IsIndexHandled' /\ IsIndexHandled
  BY <1>1, <1>2 DEF Handled, IsIndexHandled
<1>5. /\ build'.kept = KeptPages(build.docs, Handled, build.fresh, there)
                       \cup KeptIndex(build.aggregatesFresh, there)
      /\ build'.written = WrittenPages(build.docs, Handled, build.fresh, there)
                          \cup WrittenIndex(build.aggregatesFresh, there)
                          \cup ({build.asset} \ {None})
  BY <1>1, <1>3, <1>4 DEF IsOnTrack
<1>6. \A o \in Outputs \ (build'.written \cup build'.kept \cup build'.removed) :
        o \in there <=> tree'[o] # None
  <2>1. \A o \in Outputs \ (build.written \cup build.kept \cup build.removed) :
          o \in there <=> tree[o] # None
    BY <1>3 DEF IsOnTrack
  <2> QED
    BY <1>1, <2>1
<1>7. /\ \A s \in Handled : Keeps(build.docs, s, build.fresh, there)
                            \/ ~RenderFails(template, ContentTemplate)
      /\ KeepsIndex(build.aggregatesFresh, there) \/ ~RenderFails(template, IndexTemplate)
  BY <1>3, <1>4 DEF IsOnTrack
<1>8. IsOnTrack(there)'
  BY <1>2, <1>4, <1>5, <1>6, <1>7 DEF IsOnTrack
<1> QED
  BY <1>1, <1>2, <1>3, <1>8 DEF Progress

(* All a build has marked when it writes the cache is what it claims. *)
LEMMA WriteCacheProgress ==
  ASSUME IInv, TypesInv, NEW there \in SUBSET Outputs, Progress(there), SameSite, WriteCache,
         build'.pc \in Marking
  PROVE  Progress(there)'
<1>0. DOMAIN build = Fields
  BY DEF IInv, MemoryInv
<1>1. /\ build.pc = "rows" /\ tree' = tree /\ Goes("prune") /\ SameMarks
      /\ build'.errors = build.errors
      /\ build'.todo = Existing(tree) \ Manifest(build.docs, build.asset)
  BY <1>0, WriteCacheDoes DEF Ends, Marking, Writing, Existing
<1>2. /\ build'.pc = "prune" /\ build'.docs = build.docs /\ build'.asset = build.asset
      /\ build'.dry = build.dry /\ template' = template
      /\ build'.fresh = build.fresh /\ build'.aggregatesFresh = build.aggregatesFresh
  BY <1>1 DEF SameSite, Goes
<1>3. ~build.errors /\ IsOnTrack(there) /\ (build.dry => there = Existing(tree))
  BY <1>1 DEF Progress
<1>4. /\ build.todo = {} /\ build.removed = {}
      /\ build.written \cup build.kept \subseteq Manifest(build.docs, build.asset)
  BY <1>1 DEF TypesInv, TodoTypes, MarkTypes
<1>5. Handled' = Handled /\ IsIndexHandled' /\ IsIndexHandled
  BY <1>1, <1>2, <1>4 DEF Handled, IsIndexHandled
<1>6. build'.todo \cup build'.removed = there \ Manifest(build.docs, build.asset)
  <2>1. \A o \in Outputs \ (build.written \cup build.kept \cup build.removed) :
          o \in there <=> o \in Existing(tree)
    BY <1>3 DEF IsOnTrack, Existing
  <2>2. \A o \in Outputs \ Manifest(build.docs, build.asset) :
          o \in there <=> o \in Existing(tree)
    BY <1>4, <2>1
  <2>3. Existing(tree) \subseteq Outputs
    BY DEF Existing
  <2>4. build'.removed = {}
    BY <1>1, <1>4 DEF SameMarks
  <2> QED
    BY <1>1, <2>2, <2>3, <2>4
<1>7. IsOnTrack(there)'
  BY <1>1, <1>2, <1>3, <1>5, <1>6 DEF IsOnTrack, SameMarks
<1> QED
  BY <1>1, <1>2, <1>3, <1>6, <1>7 DEF Progress

LEMMA RemoveStaleProgress ==
  ASSUME IInv, TypesInv, NEW there \in SUBSET Outputs, Progress(there), SameSite,
         NEW o \in Outputs, RemoveStale(o)
  PROVE  Progress(there)'
<1>0. DOMAIN build = Fields /\ DOMAIN tree = Outputs
  BY DEF IInv, MemoryInv, TypesInv, SiteTypes
<1>1. /\ build.pc = "prune" /\ o \in build.todo /\ Goes("prune")
      /\ build'.todo = build.todo \ {o}
      /\ build'.written = build.written /\ build'.kept = build.kept
      /\ \/ /\ build'.errors = build.errors /\ build'.removed = build.removed \cup {o}
            /\ tree' = IF build.dry THEN tree ELSE [tree EXCEPT ![o] = None]
         \/ /\ ~build.dry /\ build'.errors = TRUE /\ build'.removed = build.removed
            /\ UNCHANGED tree
  BY <1>0, RemoveStaleDoes
<1>2. /\ build'.pc = "prune" /\ build'.docs = build.docs /\ build'.asset = build.asset
      /\ build'.dry = build.dry /\ template' = template
      /\ build'.fresh = build.fresh /\ build'.aggregatesFresh = build.aggregatesFresh
  BY <1>1 DEF SameSite, Goes
<1>3. /\ build.dry => there = Existing(tree) /\ ~build.errors
      /\ ~build.errors => IsOnTrack(there)
      /\ build.todo \cup build.removed \subseteq there \ Manifest(build.docs, build.asset)
  BY <1>1 DEF Progress
<1>4. /\ build'.dry => there = Existing(tree') /\ ~build'.errors
      /\ build'.todo \cup build'.removed \subseteq there \ Manifest(build.docs, build.asset)
  BY <1>1, <1>2, <1>3
<1>5. ASSUME ~build'.errors PROVE IsOnTrack(there)'
  <2>1. /\ ~build.errors /\ build'.removed = build.removed \cup {o}
        /\ tree' = IF build.dry THEN tree ELSE [tree EXCEPT ![o] = None]
    BY <1>1, <1>5
  <2>2. IsOnTrack(there)
    BY <1>3, <2>1
  <2>3. Handled' = Handled /\ IsIndexHandled' /\ IsIndexHandled
    BY <1>1, <1>2 DEF Handled, IsIndexHandled
  <2>4. \A p \in Outputs \ (build'.written \cup build'.kept \cup build'.removed) :
          p \in there <=> tree'[p] # None
    <3>1. \A p \in Outputs \ {o} : tree'[p] = tree[p]
      BY <1>0, <2>1
    <3>2. \A p \in Outputs \ (build.written \cup build.kept \cup build.removed) :
            p \in there <=> tree[p] # None
      BY <2>2 DEF IsOnTrack
    <3> QED
      BY <1>1, <2>1, <3>1, <3>2
  <2>5. build'.todo \cup build'.removed = there \ Manifest(build.docs, build.asset)
    <3>1. build.todo \cup build.removed = there \ Manifest(build.docs, build.asset)
      BY <1>1, <2>2 DEF IsOnTrack
    <3> QED
      BY <1>1, <2>1, <3>1
  <2> QED
    BY <1>1, <1>2, <2>2, <2>3, <2>4, <2>5 DEF IsOnTrack
<1> QED
  BY <1>2, <1>4, <1>5 DEF Progress

(* Every step of a build that marks outputs carries on with what it began.  *)
LEMMA MarkProgress ==
  ASSUME IInv, TypesInv, NEW there \in SUBSET Outputs, Progress(there), Write,
         build.pc \in Marking, build'.pc \in Marking
  PROVE  Progress(there)'
<1>1. SameSite
  BY WriteIsSame
<1>2. ~EmptyCache
  BY DEF EmptyCache, Marking, Writing
<1>3. ~EndPrune
  BY EndPruneDoes DEF IInv, MemoryInv, Ends, Marking, Writing
<1> QED
  BY <1>1, <1>2, <1>3, EndPagesProgress, KeepIndexProgress, RenderIndexProgress,
     CopyAssetProgress, WriteCacheProgress, KeepPageProgress, RenderPageProgress,
     RemoveStaleProgress DEF Write

(* The first write.                                                         *)
LEMMA FirstProgress ==
  ASSUME IInv, TypesInv, QuietInv, build.quiet, EmptyCache, build'.pc \in Marking
  PROVE  Progress(Existing(tree))'
<1>0. DOMAIN build = Fields /\ SameSite
  BY WriteIsSame DEF Write
<1>1. /\ build.pc = "empty" /\ tree' = tree
      /\ Goes("pages") /\ build'.todo = Entries(build.docs) /\ SameMarks
      /\ build'.errors = build.errors
  BY <1>0, EmptyCacheDoes DEF Ends, Marking, Writing
<1>2. /\ build'.pc = "pages" /\ build'.docs = build.docs
      /\ ~build'.errors /\ build'.written = {} /\ build'.kept = {} /\ build'.removed = {}
  BY <1>0, <1>1 DEF QuietInv, Goes, SameMarks, SameSite
<1>3. Handled' = {} /\ ~IsIndexHandled'
  BY <1>1, <1>2 DEF Handled, IsIndexHandled
<1>4. IsOnTrack(Existing(tree))'
  <2>1. \A o \in Outputs : o \in Existing(tree') <=> tree'[o] # None
    BY DEF Existing
  <2>2. /\ KeptPages(build'.docs, {}, build'.fresh, Existing(tree')) = {}
        /\ WrittenPages(build'.docs, {}, build'.fresh, Existing(tree')) = {}
    BY DEF KeptPages, WrittenPages
  <2> QED
    BY <1>2, <1>3, <2>1, <2>2 DEF IsOnTrack
<1> QED
  BY <1>2, <1>4 DEF Progress

LEMMA FirstTold ==
  ASSUME IInv, QuietInv, PlanInv, SettledInv, build.quiet, EmptyCache
  PROVE  IsTold(Existing(tree))'
<1>0. SameSite /\ tree' = tree /\ build.pc = "empty" /\ DOMAIN build = Fields
  BY WriteIsSame, EmptyCacheDoes DEF Write
<1>1. /\ build.fresh = FreshNow(build.forced, cache, config, source, template)
      /\ build.aggregatesFresh = MatchNow(build.forced, cache, config, source, template)
      /\ build.forced \in BOOLEAN
  BY <1>0 DEF QuietInv
<1>2. IsDiskKept
  BY <1>0 DEF IsDiskKept, Marking, Writing
<1>3. plan # NoPlan /\ plan.forced = build.forced =>
        Foretells(plan, source, asset, template, build.fresh, build.aggregatesFresh,
                  Existing(tree))
  BY <1>1, <1>2 DEF PlanInv
<1>4. settled /\ ~build.forced =>
        IsComplete(source, asset, build.fresh, build.aggregatesFresh, Existing(tree))
  <2> SUFFICES ASSUME settled, ~build.forced
               PROVE  IsComplete(source, asset, build.fresh, build.aggregatesFresh, Existing(tree))
    OBVIOUS
  <2>1. build.forced = FALSE
    BY <1>1
  <2> QED
    BY <1>1, <1>2, <2>1 DEF SettledInv
<1> QED
  BY <1>0, <1>3, <1>4 DEF IsTold, SameSite

LEMMA MarksStay ==
  ASSUME IInv, TypesInv, QuietInv, MarksInv, PlanInv, SettledInv, Write
  PROVE  MarksInv'
<1> SUFFICES ASSUME build'.quiet, build'.pc \in Marking
             PROVE  \E there \in SUBSET Outputs : Progress(there)' /\ IsTold(there)'
  BY DEF MarksInv
<1>1. SameSite /\ build.pc \in Writing
  BY WriteIsSame
<1>2. build.quiet
  BY <1>1 DEF SameSite
<1>3. CASE build.pc = "empty"
  <2>1. EmptyCache
    BY <1>3 DEF Write, EndPages, KeepIndex, RenderIndex, CopyAsset, WriteCache, EndPrune, KeepPage,
       RenderPage, RemoveStale
  <2>2. PICK there : there = Existing(tree')
    OBVIOUS
  <2>3. there \in SUBSET Outputs
    BY <2>2 DEF Existing
  <2>4. Progress(Existing(tree))' /\ IsTold(Existing(tree))'
    BY <1>2, <2>1, FirstProgress, FirstTold
  <2>5. Progress(there)' /\ IsTold(there)'
    BY <2>2, <2>4 DEF Progress, IsOnTrack, IsTold
  <2> QED
    BY <2>3, <2>5
<1>4. CASE build.pc \in Marking
  <2>1. PICK there \in SUBSET Outputs : Progress(there) /\ IsTold(there)
    BY <1>2, <1>4 DEF MarksInv
  <2>2. Progress(there)'
    BY <1>4, <2>1, MarkProgress
  <2>3. IsTold(there)'
    BY <1>1, <2>1, ToldStays
  <2> QED
    BY <2>2, <2>3
<1> QED
  BY <1>1, <1>3, <1>4 DEF Marking

-----------------------------------------------------------------------------
(* The plan and the completed build stay what they were while a build runs. *)
LEMMA PlanStays ==
  ASSUME IInv, PlanInv, SettledInv, Write
  PROVE  PlanInv' /\ SettledInv'
<1>1. SameSite /\ build.pc \in Writing /\ build'.pc \in (Writing \ {"empty"}) \cup {"ended"}
  BY WriteIsSame, ReadStays
<1>2. build.dry => cache' = cache /\ tree' = tree
  BY CacheStays
<1>3. IsDiskKept' => IsDiskKept /\ build.dry
  BY <1>1 DEF IsDiskKept, Marking, SameSite
<1>4. /\ source' = source /\ template' = template /\ config' = config /\ asset' = asset
      /\ plan' = plan /\ settled' = settled /\ build'.quiet = build.quiet
      /\ build.pc # "idle"
  BY <1>1 DEF SameSite, Writing
<1>5. PlanInv'
  BY <1>2, <1>3, <1>4 DEF PlanInv
<1>6. SettledInv'
  BY <1>2, <1>3, <1>4 DEF SettledInv
<1> QED
  BY <1>5, <1>6

-----------------------------------------------------------------------------
(* A render and a copy leave an output.                                     *)
LEMMA RendersAreThere ==
  ASSUME IInv, TypesInv, build.pc \in Writing, build.recipe \in Recipes
  PROVE  /\ \A s \in Entries(build.docs) :
              PageOf(build.docs, s, build.asset, template, build.recipe) # None
         /\ IndexOf(build.docs, template, build.recipe) # None
<1>1. \A root \in Templates : Markup(template, root) \in Marked
  <2> TAKE root \in Templates
  <2>1. template \in [Templates -> TemplateFiles \cup {None}]
    BY DEF TypesInv, SiteTypes
  <2>2. Used(template, root) \in SUBSET Templates
    BY SiteAssumption DEF Used
  <2>3. Markup(template, root) \in [Used(template, root) -> TemplateBodies \cup {None}]
    BY <2>1, <2>2 DEF Markup, TemplateFiles
  <2> QED
    BY <2>2, <2>3 DEF Marked
<1>2. \A s \in Entries(build.docs) : build.docs[s].body \in Bodies /\ Out(build.docs, s) \in Outputs
  <2> TAKE s \in Entries(build.docs)
  <2>1. s \in Sources \ build.reading /\ build.docs[s] # None
    BY DEF IInv, CheckedInv, Entries
  <2> QED
    BY <2>1, PageIsNew DEF TypesInv, ReadTypes, Page
<1>3. \A s \in Entries(build.docs) : LinkUrl(build.docs, s) \in Outputs \cup {None}
  BY <1>2 DEF LinkUrl
<1>4. Listing(build.docs) \in Shown
  BY <1>2, <1>3 DEF Listing, Shown
<1>5. IndexOf(build.docs, template, build.recipe) \in IndexRenders
  BY <1>1, <1>4, SiteAssumption DEF IndexOf, IndexRenders
<1>6. \A s \in Entries(build.docs) :
        PageOf(build.docs, s, build.asset, template, build.recipe) \in PageRenders
  <2> TAKE s \in Entries(build.docs)
  <2>1. build.asset \in Assets \cup {None}
    BY DEF TypesInv, ReadTypes
  <2>2. Markup(template, ContentTemplate) \in Marked
    BY <1>1, SiteAssumption
  <2>3. (IF ReadsList(template, ContentTemplate) THEN Listing(build.docs) ELSE {}) \in Shown
    BY <1>4 DEF Shown
  <2>4. (IF build.docs[s].body \in AssetLinkers THEN build.asset ELSE None) \in Assets \cup {None}
    BY <2>1
  <2> QED
    BY <1>2, <1>3, <2>2, <2>3, <2>4 DEF PageOf, PageRenders
<1> QED
  BY <1>5, <1>6, SiteBuildAssumption

(* A row for every entry, and none else. *)
LEMMA RowsAreCurrent ==
  ASSUME IInv, QuietInv, build.quiet, build.pc \in Writing,
         TemplateRows(StatsOf(template)) # {}
  PROVE  IsCurrent(Rows, config, source, template)
<1>0. /\ build.docs = source /\ build.stats = StatsOf(template) /\ build.recipe = config
      /\ ~Collides(source)
  BY QuietFacts DEF IInv, CheckedInv, IsRejected
<1> DEFINE row == [s \in Entries(source) |->
                     [name  |-> Page(s), stamp |-> build.docs[s].stamp,
                      list  |-> build.flags[s] \/ HasEntryLink(build.docs, s)]]
<1>1. /\ Rows.recipe = build.recipe /\ Rows.templates = TemplateRows(build.stats)
      /\ Rows.content = {row[s] : s \in Entries(source)}
  BY <1>0 DEF Rows
<1>2. \A s \in Entries(source) : row[s].name = Out(source, s) /\ row[s].stamp = source[s].stamp
  BY <1>0 DEF Page
<1>3. DOMAIN row = Entries(source) /\ row = [s \in Entries(source) |-> row[s]]
  OBVIOUS
<1> HIDE DEF row
<1>4. row \in Surjection(Entries(source), Rows.content)
  BY <1>1, <1>3 DEF Surjection
<1>5. row \in Injection(Entries(source), Rows.content)
  <2>1. ASSUME NEW s \in Entries(source), NEW t \in Entries(source), row[s] = row[t] PROVE s = t
    <3>1. Out(source, s) = Out(source, t)
      BY <1>2, <2>1
    <3> QED
      BY <1>0, <3>1 DEF Collides
  <2>2. row \in [Entries(source) -> Rows.content]
    BY <1>4 DEF Surjection
  <2> QED
    BY <2>1, <2>2 DEF Injection, IsInjective
<1>6. IsFiniteSet(Entries(source))
  BY SiteAssumption, FS_Subset DEF Entries
<1>7. Cardinality(Rows.content) = Cardinality(Entries(source))
  BY <1>4, <1>5, <1>6, FS_Surjection
<1>8. \A s \in Entries(source) : row[s] \in RowsOf(Rows, source, s)
  BY <1>1, <1>2 DEF RowsOf
<1>9. EntriesMatch(Rows, source)
  BY <1>7, <1>8 DEF EntriesMatch
<1> QED
  BY <1>0, <1>1, <1>9 DEF IsCurrent, AllMatch, TemplatesMatch

(* A build after one that left such a cache has nothing to do.              *)
LEMMA CurrentIsComplete ==
  ASSUME NEW rows, NEW recipe, NEW docs, NEW path, NEW files, NEW there,
         IsCurrent(rows, recipe, docs, files), there = Manifest(docs, path)
  PROVE  IsComplete(docs, path, FreshNow(FALSE, rows, recipe, docs, files),
                    MatchNow(FALSE, rows, recipe, docs, files), there)
<1>1. TrustedRows(FALSE, rows, recipe) = rows
  BY DEF IsCurrent, TrustedRows
<1>2. AllMatch(rows, docs, StatsOf(files))
  BY DEF IsCurrent
<1>3. MatchNow(FALSE, rows, recipe, docs, files)
  BY <1>1, <1>2 DEF MatchNow
<1>4. ASSUME NEW s \in Entries(docs), docs[s].body \notin AssetLinkers
      PROVE  FreshNow(FALSE, rows, recipe, docs, files)[s] # {}
  <2>1. s \in Sources
    BY DEF Entries
  <2>2. FreshNow(FALSE, rows, recipe, docs, files)[s] = FreshRows(rows, docs, s, StatsOf(files))
    BY <1>1, <1>4, <2>1 DEF FreshNow, FreshIn, WithoutLinkers, FoundIn
  <2>3. FreshRows(rows, docs, s, StatsOf(files)) = RowsOf(rows, docs, s)
    BY <1>2 DEF AllMatch, FreshRows, RowsOf
  <2>4. RowsOf(rows, docs, s) # {}
    BY <1>2 DEF AllMatch, EntriesMatch
  <2> QED
    BY <2>2, <2>3, <2>4
<1> QED
  BY <1>3, <1>4 DEF IsComplete

(* What a step marks is there, and what was marked before it stays.         *)
LEMMA LeavesMore ==
  ASSUME LeavesInv, SameSite, build.quiet, build.pc \in Marking, build'.pc \in Marking \ {"prune"},
         ~build.dry /\ ~build'.errors =>
           /\ ~build.errors
           /\ \A o \in build'.written \cup build'.kept :
                \/ o \in build.written \cup build.kept /\ tree'[o] = tree[o]
                \/ tree'[o] # None
  PROVE  LeavesInv'
<1>1. /\ build'.aggregatesFresh = build.aggregatesFresh /\ template' = template
      /\ build'.dry = build.dry
  BY DEF SameSite
<1>2. build'.aggregatesFresh => TemplateRows(StatsOf(template')) # {}
  BY <1>1 DEF LeavesInv
<1>3. ~build'.dry /\ ~build'.errors =>
        \A o \in build'.written \cup build'.kept : tree'[o] # None
  BY <1>1 DEF LeavesInv
<1> QED
  BY <1>2, <1>3 DEF LeavesInv

(* A write that succeeds leaves an output, and the others as they were.     *)
LEMMA WriteLeaves ==
  ASSUME TypesInv, build.dry \in BOOLEAN, NEW o \in Outputs, NEW value, value # None,
         NEW ok \in BOOLEAN, WriteOutput(o, value, ok), ok, ~build.dry
  PROVE  tree'[o] # None /\ \A p \in Outputs \ {o} : tree'[p] = tree[p]
<1>1. DOMAIN tree = Outputs
  BY DEF TypesInv, SiteTypes
<1> QED
  BY <1>1, OutputWritten

LEMMA FirstLeaves ==
  ASSUME IInv, QuietInv, build.quiet, EmptyCache, build'.pc \in Marking
  PROVE  LeavesInv'
<1>0. DOMAIN build = Fields /\ SameSite
  BY WriteIsSame DEF Write
<1>1. build.pc = "empty" /\ Goes("pages") /\ SameMarks
  BY <1>0, EmptyCacheDoes DEF Ends, Marking, Writing
<1>2. build'.written = {} /\ build'.kept = {} /\ build'.pc = "pages"
  BY <1>1 DEF QuietInv, SameMarks, Goes
<1>3. /\ build'.aggregatesFresh = MatchNow(build.forced, cache, config, source, template)
      /\ template' = template
  BY <1>0, <1>1 DEF QuietInv, SameSite
<1>4. build'.aggregatesFresh => TemplateRows(StatsOf(template')) # {}
  BY <1>3 DEF MatchNow, AllMatch, TemplatesMatch
<1> QED
  BY <1>2, <1>4 DEF LeavesInv

LEMMA PageLeaves ==
  ASSUME IInv, TypesInv, LeavesInv, SameSite, build.quiet, build.recipe \in Recipes,
         NEW s \in Sources, KeepPage(s) \/ RenderPage(s)
  PROVE  LeavesInv'
<1>0. DOMAIN build = Fields /\ build.dry \in BOOLEAN
  BY DEF IInv, MemoryInv
<1>1. CASE KeepPage(s)
  <2>1. /\ build.pc = "pages" /\ Goes("pages") /\ UNCHANGED disk /\ tree[Page(s)] # None
        /\ build'.errors = build.errors /\ build'.kept = build.kept \cup {Page(s)}
        /\ build'.written = build.written
    BY <1>0, <1>1, KeepPageDoes
  <2> QED
    BY <2>1, LeavesMore DEF Marking, Writing, Goes, disk
<1>2. CASE RenderPage(s)
  <2>1. /\ build.pc = "pages" /\ s \in build.todo /\ Goes("pages") /\ build'.kept = build.kept
    BY <1>0, <1>2, RenderPageDoes
  <2>2. /\ s \in Entries(build.docs) /\ Page(s) \in Outputs
        /\ PageOf(build.docs, s, build.asset, template, build.recipe) # None
        /\ build.written \cup build.kept \subseteq Outputs
    BY <2>1, PageIsUnmarked, RendersAreThere DEF Writing, TypesInv, MarkTypes
  <2>3. CASE build'.errors = TRUE
    BY <2>1, <2>3, LeavesMore DEF Marking, Writing, Goes
  <2>4. CASE \E ok \in BOOLEAN :
               /\ WriteOutput(Page(s),
                    PageOf(build.docs, s, build.asset, template, build.recipe), ok)
               /\ build'.errors = (build.errors \/ ~ok)
               /\ build'.written = build.written \cup {Page(s)}
    <3>1. PICK ok \in BOOLEAN :
            /\ WriteOutput(Page(s),
                 PageOf(build.docs, s, build.asset, template, build.recipe), ok)
            /\ build'.errors = (build.errors \/ ~ok)
            /\ build'.written = build.written \cup {Page(s)}
      BY <2>4
    <3>2. ok /\ ~build.dry =>
            tree'[Page(s)] # None /\ \A p \in Outputs \ {Page(s)} : tree'[p] = tree[p]
      <4>1. PICK o, value :
              o = Page(s) /\ value = PageOf(build.docs, s, build.asset, template, build.recipe)
        OBVIOUS
      <4>2. o \in Outputs /\ value # None /\ WriteOutput(o, value, ok)
        BY <2>2, <3>1, <4>1
      <4>3. ok /\ ~build.dry => tree'[o] # None /\ \A p \in Outputs \ {o} : tree'[p] = tree[p]
        BY <1>0, <4>2, WriteLeaves
      <4> QED
        BY <4>1, <4>3
    <3>3. ~build.dry /\ ~build'.errors =>
            /\ ~build.errors
            /\ \A o \in build'.written \cup build'.kept :
                 \/ o \in build.written \cup build.kept /\ tree'[o] = tree[o]
                 \/ tree'[o] # None
      BY <2>1, <2>2, <3>1, <3>2
    <3> QED
      BY <2>1, <3>3, LeavesMore DEF Marking, Writing, Goes
  <2> QED
    BY <1>0, <1>2, <2>3, <2>4, RenderPageDoes
<1> QED
  BY <1>1, <1>2

LEMMA IndexLeaves ==
  ASSUME IInv, TypesInv, LeavesInv, SameSite, build.quiet, build.recipe \in Recipes,
         KeepIndex \/ RenderIndex, build'.pc \in Marking
  PROVE  LeavesInv'
<1>0. DOMAIN build = Fields /\ build.dry \in BOOLEAN
  BY DEF IInv, MemoryInv
<1>1. CASE KeepIndex
  <2>1. /\ build.pc = "index" /\ Goes("copy") /\ UNCHANGED disk /\ tree[Index] # None
        /\ build'.errors = build.errors /\ build'.kept = build.kept \cup {Index}
        /\ build'.written = build.written
    BY <1>0, <1>1, KeepIndexDoes
  <2> QED
    BY <2>1, LeavesMore DEF Marking, Writing, Goes, disk
<1>2. CASE RenderIndex
  <2>1. build.pc = "index" /\ build.pc \in Writing
    BY <1>0, <1>2, RenderIndexDoes DEF Writing
  <2>2. PICK ok \in BOOLEAN :
          /\ WriteOutput(Index, IndexOf(build.docs, template, build.recipe), ok)
          /\ ok /\ Goes("copy") /\ build'.errors = build.errors
          /\ build'.written = build.written \cup {Index} /\ build'.kept = build.kept
    BY <1>0, <1>2, RenderIndexDoes DEF Ends, Marking, Writing
  <2>3. /\ Index \in Outputs /\ IndexOf(build.docs, template, build.recipe) # None
        /\ build.written \cup build.kept \subseteq Outputs
    BY <2>1, IndexIsUnmarked, RendersAreThere DEF TypesInv, MarkTypes
  <2>4. ~build.dry => tree'[Index] # None /\ \A p \in Outputs \ {Index} : tree'[p] = tree[p]
    BY <1>0, <2>2, <2>3, WriteLeaves
  <2> QED
    BY <2>1, <2>2, <2>3, <2>4, LeavesMore DEF Marking, Writing, Goes
<1> QED
  BY <1>1, <1>2

LEMMA CopyLeaves ==
  ASSUME IInv, TypesInv, LeavesInv, SameSite, build.quiet, CopyAsset, build'.pc \in Marking
  PROVE  LeavesInv'
<1>0. /\ DOMAIN build = Fields /\ build.dry \in BOOLEAN /\ build.asset \in Assets \cup {None}
      /\ build.written \cup build.kept \subseteq Outputs
  BY DEF IInv, MemoryInv, TypesInv, ReadTypes, MarkTypes
<1>1. build.pc = "copy"
  BY <1>0, CopyAssetDoes
<1>2. CASE Goes("rows") /\ SameMarks /\ build'.errors = build.errors /\ UNCHANGED <<tree, faults>>
  BY <1>1, <1>2, LeavesMore DEF Marking, Writing, Goes, SameMarks
<1>3. CASE /\ build.asset # None
           /\ \E ok \in BOOLEAN :
                /\ WriteOutput(build.asset, CopyOf(build.asset), ok)
                /\ ok /\ Goes("rows") /\ build'.errors = build.errors
                /\ build'.written = build.written \cup {build.asset} /\ build'.kept = build.kept
  <2>1. PICK ok \in BOOLEAN :
          /\ WriteOutput(build.asset, CopyOf(build.asset), ok)
          /\ ok /\ Goes("rows") /\ build'.errors = build.errors
          /\ build'.written = build.written \cup {build.asset} /\ build'.kept = build.kept
    BY <1>3
  <2>2. build.asset \in Outputs /\ CopyOf(build.asset) # None
    BY <1>0, <1>3, SiteBuildAssumption DEF Outputs
  <2>3. ~build.dry =>
          tree'[build.asset] # None /\ \A p \in Outputs \ {build.asset} : tree'[p] = tree[p]
    BY <1>0, <2>1, <2>2, WriteLeaves
  <2> QED
    BY <1>0, <1>1, <2>1, <2>3, LeavesMore DEF Marking, Writing, Goes
<1> QED
  BY <1>0, <1>2, <1>3, CopyAssetDoes DEF Ends, Marking, Writing

(* The new cache vouches for every page, for a build with no template at    *)
(* all has neither kept nor rendered its index.                             *)
LEMMA CacheLeaves ==
  ASSUME IInv, TypesInv, QuietInv, MarksInv, LeavesInv, build.quiet, WriteCache,
         build'.pc \in Marking
  PROVE  LeavesInv'
<1>0. DOMAIN build = Fields /\ SameSite
  BY WriteIsSame DEF Write
<1>1. /\ build.pc = "rows" /\ tree' = tree /\ Goes("prune") /\ SameMarks
      /\ build'.errors = build.errors
      /\ build'.todo = Existing(tree) \ Manifest(build.docs, build.asset)
      /\ cache' = IF build.dry THEN cache ELSE Rows
  BY <1>0, WriteCacheDoes DEF Ends, Marking, Writing, Existing
<1>2. /\ build'.pc = "prune" /\ build'.dry = build.dry /\ template' = template
      /\ source' = source /\ asset' = asset /\ config' = config
      /\ build'.aggregatesFresh = build.aggregatesFresh
      /\ build'.written = build.written /\ build'.kept = build.kept
  BY <1>0, <1>1 DEF SameSite, Goes, SameMarks
<1>3. /\ build.docs = source /\ build.asset = asset /\ build.pc \in Writing
  BY <1>1, QuietFacts DEF Writing
<1>4. build.aggregatesFresh => TemplateRows(StatsOf(template)) # {}
  BY <1>1 DEF LeavesInv, Marking, Writing
<1>5. PICK there \in SUBSET Outputs : Progress(there)
  BY <1>1 DEF MarksInv, Marking, Writing
<1>6. KeepsIndex(build.aggregatesFresh, there) \/ ~RenderFails(template, IndexTemplate)
  BY <1>1, <1>5 DEF Progress, IsOnTrack, IsIndexHandled
<1>7. TemplateRows(StatsOf(template)) # {}
  <2>1. CASE ~RenderFails(template, IndexTemplate)
    <3>1. IndexTemplate \in Templates /\ template[IndexTemplate] # None
      BY <2>1, SiteAssumption DEF RenderFails, Used
    <3>2. template[IndexTemplate] \in TemplateFiles
      BY <3>1 DEF TypesInv, SiteTypes
    <3>3. StatsOf(template)[IndexTemplate] # None
      BY <3>1, <3>2, SiteBuildAssumption DEF StatsOf, Stamp, TemplateFiles
    <3> QED
      BY <3>1, <3>3 DEF TemplateRows
  <2> QED
    BY <1>4, <1>6, <2>1 DEF KeepsIndex
<1>8. IsCurrent(Rows, config, source, template)
  BY <1>3, <1>7, RowsAreCurrent
<1>9. ~build'.dry /\ ~build'.errors =>
        /\ \A o \in build'.written \cup build'.kept : tree'[o] # None
        /\ Existing(tree') \subseteq Manifest(source', asset') \cup build'.todo
        /\ IsCurrent(cache', config', source', template')
  <2> SUFFICES ASSUME ~build'.dry, ~build'.errors
               PROVE  /\ \A o \in build'.written \cup build'.kept : tree'[o] # None
                      /\ Existing(tree') \subseteq Manifest(source', asset') \cup build'.todo
                      /\ IsCurrent(cache', config', source', template')
    OBVIOUS
  <2>1. \A o \in build'.written \cup build'.kept : tree'[o] # None
    BY <1>1, <1>2 DEF LeavesInv, Marking, Writing
  <2>2. Existing(tree') \subseteq Manifest(source', asset') \cup build'.todo
    BY <1>1, <1>2, <1>3
  <2>3. cache' = Rows
    BY <1>1, <1>2
  <2>4. IsCurrent(cache', config', source', template')
    <3>1. PICK rows : rows = Rows
      OBVIOUS
    <3> QED
      BY <1>2, <1>8, <2>3, <3>1
  <2> QED
    BY <2>1, <2>2, <2>4
<1>10. build'.aggregatesFresh => TemplateRows(StatsOf(template')) # {}
  BY <1>2, <1>7
<1> QED
  BY <1>2, <1>9, <1>10 DEF LeavesInv

LEMMA RemoveLeaves ==
  ASSUME IInv, TypesInv, LeavesInv, SameSite, build.quiet, NEW o \in Outputs, RemoveStale(o)
  PROVE  LeavesInv'
<1>0. DOMAIN build = Fields /\ DOMAIN tree = Outputs
  BY DEF IInv, MemoryInv, TypesInv, SiteTypes
<1>1. /\ build.pc = "prune" /\ o \in build.todo /\ cache' = cache /\ Goes("prune")
      /\ build'.todo = build.todo \ {o}
      /\ build'.written = build.written /\ build'.kept = build.kept
      /\ \/ /\ build'.errors = build.errors
            /\ tree' = IF build.dry THEN tree ELSE [tree EXCEPT ![o] = None]
         \/ build'.errors = TRUE
  BY <1>0, RemoveStaleDoes
<1>2. /\ build'.pc = "prune" /\ build'.dry = build.dry /\ template' = template
      /\ source' = source /\ asset' = asset /\ config' = config
      /\ build'.aggregatesFresh = build.aggregatesFresh
  BY <1>1 DEF SameSite, Goes
<1>3. o \notin build.written \cup build.kept
  BY <1>1 DEF TypesInv, TodoTypes, MarkTypes
<1>4. ~build'.dry /\ ~build'.errors =>
        /\ \A p \in build'.written \cup build'.kept : tree'[p] # None
        /\ Existing(tree') \subseteq Manifest(source', asset') \cup build'.todo
        /\ IsCurrent(cache', config', source', template')
  <2> SUFFICES ASSUME ~build'.dry, ~build'.errors
               PROVE  /\ \A p \in build'.written \cup build'.kept : tree'[p] # None
                      /\ Existing(tree') \subseteq Manifest(source', asset') \cup build'.todo
                      /\ IsCurrent(cache', config', source', template')
    OBVIOUS
  <2>0. ~build.errors /\ ~build.dry /\ tree' = [tree EXCEPT ![o] = None]
    BY <1>1, <1>2
  <2>1. /\ \A p \in build.written \cup build.kept : tree[p] # None
        /\ Existing(tree) \subseteq Manifest(source, asset) \cup build.todo
        /\ IsCurrent(cache, config, source, template)
    BY <1>1, <2>0 DEF LeavesInv, Marking, Writing
  <2>2. build.written \cup build.kept \subseteq Outputs
    BY DEF TypesInv, MarkTypes
  <2>3. /\ \A p \in Outputs \ {o} : tree'[p] = tree[p]
        /\ tree'[o] = None
    BY <1>0, <2>0
  <2>4. Existing(tree') \subseteq Existing(tree) \ {o}
    BY <2>3 DEF Existing
  <2>5. \A p \in build'.written \cup build'.kept : tree'[p] # None
    BY <1>1, <1>3, <2>1, <2>2, <2>3
  <2>6. Existing(tree') \subseteq Manifest(source', asset') \cup build'.todo
    BY <1>1, <1>2, <2>1, <2>4
  <2> QED
    BY <1>1, <1>2, <2>1, <2>5, <2>6
<1>5. build'.aggregatesFresh => TemplateRows(StatsOf(template')) # {}
  BY <1>1, <1>2 DEF LeavesInv, Marking, Writing
<1> QED
  BY <1>2, <1>4, <1>5 DEF LeavesInv

LEMMA LeavesStay ==
  ASSUME IInv, TypesInv, QuietInv, MarksInv, LeavesInv, Write
  PROVE  LeavesInv'
<1> SUFFICES ASSUME build'.quiet, build'.pc \in Marking PROVE LeavesInv'
  BY DEF LeavesInv
<1>1. SameSite /\ build.pc \in Writing /\ DOMAIN build = Fields
  BY WriteIsSame
<1>2. build.quiet /\ build.recipe \in Recipes
  BY <1>1, QuietFacts DEF SameSite, TypesInv, SiteTypes
<1>3. ASSUME EndPages PROVE LeavesInv'
  <2>1. build.pc = "pages" /\ tree' = tree /\ Goes("index") /\ SameMarks
        /\ build'.errors = build.errors
    BY <1>1, <1>3, EndPagesDoes DEF Ends, Marking, Writing, disk
  <2> QED
    BY <1>1, <1>2, <2>1, LeavesMore DEF Marking, Writing, Goes, SameMarks
<1>4. ~EndPrune
  BY <1>1, EndPruneDoes DEF Ends, Marking, Writing
<1> QED
  BY <1>1, <1>2, <1>3, <1>4, FirstLeaves, PageLeaves, IndexLeaves, CopyLeaves, CacheLeaves,
     RemoveLeaves DEF Write

-----------------------------------------------------------------------------
(* What the end of a build says.                                            *)
LEMMA WritesUnrejected ==
  ASSUME IInv, QuietInv, build.quiet, build.pc \in Writing
  PROVE  ~IsRejected(source, asset)
BY QuietFacts DEF IInv, CheckedInv

(* All that a build has marked at its end is what it claims.                *)
LEMMA EndMarks ==
  ASSUME IInv, TypesInv, NEW there, build.pc = "prune", IsOnTrack(there), build.todo = {}
  PROVE  /\ build.kept = KeptPages(build.docs, Entries(build.docs), build.fresh, there)
                         \cup KeptIndex(build.aggregatesFresh, there)
         /\ build.written = WrittenPages(build.docs, Entries(build.docs), build.fresh, there)
                            \cup WrittenIndex(build.aggregatesFresh, there)
                            \cup ({build.asset} \ {None})
         /\ build.removed = there \ Manifest(build.docs, build.asset)
         /\ build.written \cup build.kept = Manifest(build.docs, build.asset)
         /\ ~IsStuck(build.docs, template, build.fresh, build.aggregatesFresh, there)
<1>1. Handled = Entries(build.docs) /\ IsIndexHandled
  BY DEF Handled, IsIndexHandled
<1>2. build.kept = KeptPages(build.docs, Entries(build.docs), build.fresh, there)
                   \cup KeptIndex(build.aggregatesFresh, there)
  BY <1>1 DEF IsOnTrack
<1>3. build.written = WrittenPages(build.docs, Entries(build.docs), build.fresh, there)
                      \cup WrittenIndex(build.aggregatesFresh, there)
                      \cup ({build.asset} \ {None})
  BY <1>1 DEF IsOnTrack
<1>4. build.removed = there \ Manifest(build.docs, build.asset)
  BY DEF IsOnTrack
<1>5. build.written \cup build.kept = Manifest(build.docs, build.asset)
  <2>1. build.written \cup build.kept
          = PagesOf(build.docs, Entries(build.docs)) \cup {Index} \cup ({build.asset} \ {None})
    BY <1>2, <1>3, PagesAdd, IndexAdds
  <2> QED
    BY <2>1, ClaimsAreOutputs DEF Writing
<1>6. ~IsStuck(build.docs, template, build.fresh, build.aggregatesFresh, there)
  BY <1>1 DEF IsOnTrack, IsStuck
<1> QED
  BY <1>2, <1>3, <1>4, <1>5, <1>6

(* What failed in a dry run is what the build cannot do without.            *)
LEMMA DryRunIsStuck ==
  ASSUME IInv, TypesInv, QuietInv, MarksInv, build.quiet, build.dry, Write, Ends("failed")
  PROVE  IsStuck(source, template, build.fresh, build.aggregatesFresh, Existing(tree))
<1>0. DOMAIN build = Fields /\ build.dry \in BOOLEAN /\ build.pc \in Writing
  BY WriteIsSame
<1>1. build.docs = source /\ build.asset = asset
  BY <1>0, QuietFacts
<1>2. ASSUME EndPages
      PROVE  IsStuck(source, template, build.fresh, build.aggregatesFresh, Existing(tree))
  <2>1. build.pc = "pages" /\ build.errors
    BY <1>0, <1>2, EndPagesDoes DEF Ends, Goes
  <2>2. PICK there \in SUBSET Outputs : Progress(there)
    BY <2>1 DEF MarksInv, Marking, Writing
  <2> QED
    BY <1>1, <2>1, <2>2 DEF Progress
<1>3. ASSUME RenderIndex
      PROVE  IsStuck(source, template, build.fresh, build.aggregatesFresh, Existing(tree))
  <2>1. RenderFails(template, IndexTemplate)
    <3>1. CASE \E ok \in BOOLEAN :
                 /\ WriteOutput(Index, IndexOf(build.docs, template, build.recipe), ok)
                 /\ \/ ok /\ Goes("copy")
                    \/ ~ok /\ Ends("failed")
      BY <3>1 DEF WriteOutput, Ends, Goes
    <3> QED
      BY <1>0, <1>3, <3>1, RenderIndexDoes
  <2>2. ~build.aggregatesFresh \/ tree[Index] = None
    BY <1>0, <1>3, RenderIndexDoes
  <2> QED
    BY <2>1, <2>2 DEF IsStuck, KeepsIndex, Existing
<1>4. ASSUME EndPrune PROVE FALSE
  <2>1. /\ build.pc = "prune" /\ build.todo = {}
        /\ build.errors \/ build.written \cup build.kept # Manifest(build.docs, build.asset)
    BY <1>0, <1>4, EndPruneDoes DEF Ends
  <2>2. PICK there \in SUBSET Outputs : Progress(there)
    BY <2>1 DEF MarksInv, Marking, Writing
  <2>3. ~build.errors /\ IsOnTrack(there)
    BY <2>1, <2>2 DEF Progress
  <2> QED
    BY <2>1, <2>3, EndMarks
<1>5. ~EmptyCache /\ ~WriteCache /\ ~KeepIndex
  BY <1>0, EmptyCacheDoes, WriteCacheDoes, KeepIndexDoes DEF Ends, Goes
<1>6. ~CopyAsset
  <2>1. ASSUME NEW ok \in BOOLEAN, WriteOutput(build.asset, CopyOf(build.asset), ok) PROVE ok
    BY <2>1 DEF WriteOutput
  <2> QED
    BY <1>0, <2>1, CopyAssetDoes DEF Ends, Goes
<1>7. /\ \A s \in Sources : ~KeepPage(s) /\ ~RenderPage(s)
      /\ \A o \in Outputs : ~RemoveStale(o)
  BY <1>0, KeepPageDoes, RenderPageDoes, RemoveStaleDoes DEF Ends, Goes
<1> QED
  BY <1>2, <1>3, <1>4, <1>5, <1>6, <1>7 DEF Write

(* A build after one that completed has removed nothing.                    *)
LEMMA NothingRemoved ==
  ASSUME IInv, TypesInv, QuietInv, MarksInv, SettledInv, build.pc \in Writing,
         settled, ~build.forced
  PROVE  build.removed = {}
<1>1. build.quiet
  BY DEF SettledInv, Writing
<1>2. build.docs = source /\ build.asset = asset
  BY <1>1, QuietFacts
<1>3. CASE build.pc = "prune"
  <2>1. PICK there \in SUBSET Outputs : Progress(there) /\ IsTold(there)
    BY <1>1, <1>3 DEF MarksInv, Marking, Writing
  <2>2. there = Manifest(source, asset)
    BY <2>1 DEF IsTold, IsComplete
  <2>3. build.removed \subseteq there \ Manifest(build.docs, build.asset)
    BY <1>3, <2>1 DEF Progress
  <2> QED
    BY <1>2, <2>2, <2>3
<1>4. CASE build.pc # "prune"
  BY <1>4 DEF TypesInv, MarkTypes, Writing
<1> QED
  BY <1>3, <1>4

LEMMA FailedEnd ==
  ASSUME IInv, TypesInv, QuietInv, MarksInv, PlanInv, SettledInv, Write, Ends("failed")
  PROVE  EndedInv' /\ DryRunPredicts' /\ NothingToDo'
<1>1. SameSite /\ build.pc \in Writing /\ build.pc # "idle"
  BY WriteIsSame DEF Writing
<1>2. /\ source' = source /\ template' = template /\ config' = config /\ asset' = asset
      /\ plan' = plan /\ settled' = settled /\ build'.forced = build.forced
      /\ build'.quiet = build.quiet /\ build'.dry = build.dry
      /\ build'.outcome = "failed" /\ build'.pc = "ended" /\ build'.removed = build.removed
  BY <1>1 DEF SameSite, Ends, SameMarks
<1>3. EndedInv'
  <2>1. ASSUME build.quiet, build.dry
        PROVE  Foretells(build', source, asset, template,
                         FreshNow(build.forced, cache, config, source, template),
                         MatchNow(build.forced, cache, config, source, template), Existing(tree))
    <3>1. /\ build.fresh = FreshNow(build.forced, cache, config, source, template)
          /\ build.aggregatesFresh = MatchNow(build.forced, cache, config, source, template)
      BY <1>1, <2>1 DEF QuietInv
    <3>2. IsStuck(source, template, build.fresh, build.aggregatesFresh, Existing(tree))
      BY <2>1, DryRunIsStuck
    <3>3. ~IsRejected(source, asset)
      BY <1>1, <2>1, WritesUnrejected
    <3> QED
      BY <1>2, <3>1, <3>2, <3>3 DEF Foretells
  <2>2. build.dry => cache' = cache /\ tree' = tree
    BY CacheStays
  <2> QED
    BY <1>2, <2>1, <2>2 DEF EndedInv
<1>4. DryRunPredicts'
  <2>1. plan # NoPlan => plan.outcome # "rejected"
    BY <1>1, WritesUnrejected DEF PlanInv
  <2> QED
    BY <1>2, <2>1 DEF DryRunPredicts
<1>5. NothingToDo'
  BY <1>1, <1>2, NothingRemoved DEF NothingToDo
<1> QED
  BY <1>3, <1>4, <1>5

LEMMA GoodEnd ==
  ASSUME IInv, TypesInv, QuietInv, MarksInv, PlanInv, SettledInv, LeavesInv, EndPrune, Ends("ok")
  PROVE  EndedInv' /\ DryRunPredicts' /\ NothingToDo'
<1>0. Write
  BY DEF Write
<1>1. SameSite /\ build.pc \in Writing /\ build.pc # "idle" /\ DOMAIN build = Fields
  BY <1>0, WriteIsSame DEF Writing
<1>2. /\ source' = source /\ template' = template /\ config' = config /\ asset' = asset
      /\ plan' = plan /\ settled' = settled /\ build'.forced = build.forced
      /\ build'.quiet = build.quiet /\ build'.dry = build.dry
      /\ build'.outcome = "ok" /\ build'.pc = "ended" /\ build'.removed = build.removed
      /\ build'.written = build.written /\ build'.kept = build.kept
  BY <1>1 DEF SameSite, Ends, SameMarks
<1>3. /\ build.pc = "prune" /\ build.todo = {} /\ ~build.errors
      /\ tree' = tree /\ cache' = cache
  BY <1>1, EndPruneDoes DEF Ends, disk
<1>4. CASE ~build.quiet
  <2>1. plan = NoPlan /\ ~settled
    BY <1>1, <1>4 DEF PlanInv, SettledInv
  <2> QED
    BY <1>2, <1>4, <2>1 DEF EndedInv, DryRunPredicts, NothingToDo
<1>5. CASE build.quiet
  <2>0. build.docs = source /\ build.asset = asset /\ ~IsRejected(source, asset)
        /\ build.forced \in BOOLEAN
    BY <1>1, <1>5, QuietFacts, WritesUnrejected
  <2>1. PICK there \in SUBSET Outputs : Progress(there) /\ IsTold(there)
    BY <1>3, <1>5 DEF MarksInv, Marking, Writing
  <2>2. IsOnTrack(there) /\ (build.dry => there = Existing(tree))
    BY <1>3, <2>1 DEF Progress
  <2> DEFINE kept == KeptPages(source, Entries(source), build.fresh, there)
                     \cup KeptIndex(build.aggregatesFresh, there)
             written == WrittenPages(source, Entries(source), build.fresh, there)
                        \cup WrittenIndex(build.aggregatesFresh, there) \cup ({asset} \ {None})
  <2>3. /\ build.kept = kept /\ build.written = written
        /\ build.removed = there \ Manifest(source, asset)
        /\ build.written \cup build.kept = Manifest(source, asset)
        /\ ~IsStuck(source, template, build.fresh, build.aggregatesFresh, there)
    BY <1>3, <2>0, <2>2, EndMarks
  <2>4. EndedInv'
    <3>1. ASSUME build.dry
          PROVE  Foretells(build', source, asset, template,
                           FreshNow(build.forced, cache, config, source, template),
                           MatchNow(build.forced, cache, config, source, template), Existing(tree))
      <4>1. /\ build.fresh = FreshNow(build.forced, cache, config, source, template)
            /\ build.aggregatesFresh = MatchNow(build.forced, cache, config, source, template)
        BY <1>1, <1>5, <3>1 DEF QuietInv
      <4>2. Foretells(build', source, asset, template, build.fresh, build.aggregatesFresh, there)
        BY <1>2, <2>0, <2>3 DEF Foretells
      <4> QED
        BY <2>2, <3>1, <4>1, <4>2
    <3>2. ASSUME ~build.dry
          PROVE  IsComplete(source, asset, FreshNow(FALSE, cache, config, source, template),
                            MatchNow(FALSE, cache, config, source, template), Existing(tree))
      <4>1. /\ \A o \in Manifest(source, asset) : tree[o] # None
            /\ Existing(tree) \subseteq Manifest(source, asset)
            /\ IsCurrent(cache, config, source, template)
        BY <1>3, <1>5, <2>3, <3>2 DEF LeavesInv, Marking, Writing
      <4>2. Manifest(source, asset) \subseteq Outputs
        BY <1>1, <2>0, ClaimsAreOutputs
      <4>3. Existing(tree) = Manifest(source, asset)
        BY <4>1, <4>2 DEF Existing
      <4> QED
        BY <4>1, <4>3, CurrentIsComplete
    <3> QED
      BY <1>2, <1>3, <2>0, <3>1, <3>2 DEF EndedInv
  <2>5. DryRunPredicts'
    <3> SUFFICES ASSUME plan # NoPlan, plan.forced = build.forced
                 PROVE  /\ plan.outcome = "ok" /\ plan.written = build.written
                        /\ plan.kept = build.kept /\ plan.removed = build.removed
      BY <1>2 DEF DryRunPredicts
    <3>1. Foretells(plan, source, asset, template, build.fresh, build.aggregatesFresh, there)
      BY <2>1 DEF IsTold
    <3>2. plan.outcome = "ok"
      BY <2>0, <2>3, <3>1 DEF Foretells
    <3> QED
      BY <2>3, <3>1, <3>2 DEF Foretells
  <2>6. NothingToDo'
    <3> SUFFICES ASSUME settled, ~build.forced
                 PROVE  /\ build.removed = {}
                        /\ \A o \in build.written \ Assets :
                             \E s \in Entries(source) :
                               o = Out(source, s) /\ source[s].body \in AssetLinkers
      BY <1>2 DEF NothingToDo
    <3>1. IsComplete(source, asset, build.fresh, build.aggregatesFresh, there)
      BY <2>1 DEF IsTold
    <3>2. there = Manifest(source, asset) /\ build.aggregatesFresh
      BY <3>1 DEF IsComplete
    <3>3. WrittenIndex(build.aggregatesFresh, there) = {}
      BY <3>2, IndexAdds DEF KeepsIndex, Manifest
    <3>4. asset \in Assets \cup {None}
      BY DEF TypesInv, SiteTypes
    <3>5. ASSUME NEW o \in build.written \ Assets
          PROVE  \E s \in Entries(source) :
                   o = Out(source, s) /\ source[s].body \in AssetLinkers
      <4>1. o \in WrittenPages(source, Entries(source), build.fresh, there)
        BY <2>3, <3>3, <3>4, <3>5
      <4>2. PICK s \in Entries(source) :
              o = Out(source, s) /\ ~Keeps(source, s, build.fresh, there)
        BY <4>1 DEF WrittenPages
      <4>3. Out(source, s) \in there
        BY <3>2 DEF Manifest
      <4> QED
        BY <3>1, <4>2, <4>3 DEF IsComplete, Keeps
    <3> QED
      BY <2>3, <3>2, <3>5
  <2> QED
    BY <2>4, <2>5, <2>6
<1> QED
  BY <1>4, <1>5

(* A build is rejected by its inputs alone.                                 *)
LEMMA RejectedEnd ==
  ASSUME IInv, TypesInv, QuietInv, PlanInv, SettledInv, ConvertBodies, build'.pc = "ended"
  PROVE  EndedInv' /\ DryRunPredicts' /\ NothingToDo'
<1>0. DOMAIN build = Fields /\ build.dry \in BOOLEAN /\ build.pc = "convert"
  BY DEF IInv, MemoryInv, ConvertBodies
<1>1. /\ source' = source /\ template' = template /\ config' = config /\ asset' = asset
      /\ plan' = plan /\ settled' = settled /\ cache' = cache /\ tree' = tree
  BY DEF ConvertBodies, Memory, inputs, disk
<1>2. build.errors \/ IsRejected(build.docs, build.asset)
  <2>1. CASE \E fresh : build' = [build EXCEPT !.pc = "empty", !.fresh = fresh]
    BY <1>0, <2>1, FieldsDef
  <2> QED
    BY <2>1 DEF ConvertBodies
<1>3. Ends("rejected") /\ build'.quiet = build.quiet /\ build'.forced = build.forced
  <2>1. End("rejected")
    BY <1>2 DEF ConvertBodies
  <2> QED
    BY <1>0, <2>1, EndDoes, FieldsDef DEF End
<1>4. build.quiet => IsRejected(source, asset) /\ build.removed = {}
  BY <1>0, <1>2 DEF QuietInv
<1>5. EndedInv'
  <2>1. build.quiet => \A fresh, match, there :
          Foretells(build', source, asset, template, fresh, match, there)
    BY <1>3, <1>4 DEF Foretells, Ends
  <2> QED
    BY <1>1, <1>3, <2>1 DEF EndedInv, Ends
<1>6. DryRunPredicts'
  BY <1>0, <1>1, <1>3, <1>4 DEF DryRunPredicts, PlanInv, Ends
<1>7. NothingToDo'
  BY <1>0, <1>1, <1>3, <1>4 DEF NothingToDo, SettledInv
<1> QED
  BY <1>5, <1>6, <1>7

-----------------------------------------------------------------------------
(* Away from the writes and the end there is nothing to tell.               *)
LEMMA QuietElsewhere ==
  ASSUME build'.pc \notin Marking \cup {"ended"} \/ ~build'.quiet
  PROVE  /\ MarksInv' /\ LeavesInv' /\ EndedInv'
         /\ plan' = NoPlan /\ ~settled' => DryRunPredicts' /\ NothingToDo'
         /\ build'.pc # "ended" => DryRunPredicts' /\ NothingToDo'
BY DEF MarksInv, LeavesInv, EndedInv, DryRunPredicts, NothingToDo

(* The steps before the first write, which leave everything but the memory. *)
LEMMA ReadingPlan ==
  ASSUME PlanInv, SettledInv, Memory, build'.quiet = build.quiet \/ build'.quiet = TRUE,
         build.pc \notin Marking \cup {"ended"}, build'.pc \notin Marking \cup {"ended"},
         build.pc = "idle" => build'.quiet = TRUE
  PROVE  PlanInv' /\ SettledInv'
<1>1. /\ source' = source /\ template' = template /\ config' = config /\ asset' = asset
      /\ cache' = cache /\ tree' = tree /\ plan' = plan /\ settled' = settled
  BY DEF Memory, inputs, disk
<1>2. IsDiskKept
  BY DEF IsDiskKept
<1>3. /\ plan # NoPlan => build'.quiet
      /\ settled => build'.quiet
  BY DEF PlanInv, SettledInv
<1>4. PlanInv'
  BY <1>1, <1>2, <1>3 DEF PlanInv
<1>5. SettledInv'
  BY <1>1, <1>2, <1>3 DEF SettledInv
<1> QED
  BY <1>4, <1>5

LEMMA ReadingStep ==
  ASSUME IInv, \/ Start \/ WalkInputs \/ ReadCache \/ StatTemplates
               \/ ConvertBodies /\ build'.pc # "ended"
               \/ \E s \in Sources : StatSource(s) \/ ReadSource(s)
  PROVE  /\ Memory /\ (build'.quiet = build.quiet \/ build'.quiet = TRUE)
         /\ build.pc \notin Marking \cup {"ended"} /\ build'.pc \notin Marking \cup {"ended"}
         /\ build.pc = "idle" => build'.quiet = TRUE
<1>0. DOMAIN build = Fields
  BY DEF IInv, MemoryInv
<1>1. CASE Start
  <2>1. build.pc = "idle" /\ Memory
    BY <1>1 DEF Start
  <2>2. PICK mode \in Modes :
          build' = [NoBuild EXCEPT !.pc = "walk", !.forced = mode.forced, !.dry = mode.dry,
                                   !.quiet = TRUE, !.recipe = config]
    BY <1>1 DEF Start
  <2>3. build'.pc = "walk" /\ build'.quiet = TRUE
    BY <2>2 DEF NoBuild
  <2> QED
    BY <2>1, <2>3 DEF Marking, Writing
<1>2. CASE WalkInputs
  BY <1>0, <1>2, FieldsDef DEF WalkInputs, Marking, Writing
<1>3. CASE ReadCache
  BY <1>0, <1>3, FieldsDef DEF ReadCache, Marking, Writing
<1>4. CASE StatTemplates
  BY <1>0, <1>4, FieldsDef DEF StatTemplates, Marking, Writing
<1>5. CASE ConvertBodies /\ build'.pc # "ended"
  <2>1. build.pc = "convert" /\ Memory
    BY <1>5 DEF ConvertBodies
  <2>2. ~End("rejected")
    BY <1>0, <1>5, FieldsDef DEF End
  <2>3. PICK fresh : build' = [build EXCEPT !.pc = "empty", !.fresh = fresh]
    BY <1>5, <2>2 DEF ConvertBodies
  <2>4. build'.pc = "empty" /\ build'.quiet = build.quiet
    BY <1>0, <2>3, FieldsDef
  <2> QED
    BY <2>1, <2>4 DEF Marking, Writing
<1>6. ASSUME NEW s \in Sources, StatSource(s)
      PROVE  /\ Memory /\ build'.quiet = build.quiet /\ build.pc = "parse" /\ build'.pc = "parse"
  BY <1>0, <1>6, FieldsDef DEF StatSource
<1>7. ASSUME NEW s \in Sources, ReadSource(s)
      PROVE  /\ Memory /\ build'.quiet = build.quiet /\ build.pc = "parse" /\ build'.pc = "parse"
  <2>1. build.pc = "parse" /\ Memory
    BY <1>7 DEF ReadSource
  <2>2. CASE build' = [build EXCEPT !.reading = @ \ {s}, !.docs[s] = None, !.errors = TRUE]
    BY <1>0, <2>1, <2>2, FieldsDef
  <2>3. CASE build' = [build EXCEPT !.reading = @ \ {s}, !.docs[s].body = source[s].body]
    BY <1>0, <2>1, <2>3, FieldsDef
  <2> QED
    BY <1>7, <2>2, <2>3 DEF ReadSource
<1> QED
  BY <1>1, <1>2, <1>3, <1>4, <1>5, <1>6, <1>7 DEF Marking, Writing

(* The list that a dry run leaves, and a build that completed.              *)
LEMMA ExitPlan ==
  ASSUME IInv, QuietInv, PlanInv, SettledInv, EndedInv, Exit
  PROVE  PInv'
<1>1. /\ build.pc = "ended" /\ build'.pc = "idle"
      /\ source' = source /\ template' = template /\ config' = config /\ asset' = asset
      /\ cache' = cache /\ tree' = tree
  BY DEF Exit, NoBuild, inputs, disk
<1>2. build.dry => IsDiskKept
  BY DEF IsDiskKept
<1>3. ASSUME build.dry, build.quiet
      PROVE  /\ plan'.forced = build.forced /\ plan'.outcome = build.outcome
             /\ Foretells(plan', source, asset, template,
                          FreshNow(build.forced, cache, config, source, template),
                          MatchNow(build.forced, cache, config, source, template), Existing(tree))
  <2>1. plan' = [outcome |-> build.outcome, forced |-> build.forced, written |-> build.written,
                 kept |-> build.kept, removed |-> build.removed]
    BY <1>3 DEF Exit
  <2>2. Foretells(build, source, asset, template,
                  FreshNow(build.forced, cache, config, source, template),
                  MatchNow(build.forced, cache, config, source, template), Existing(tree))
    BY <1>1, <1>3 DEF EndedInv
  <2> QED
    BY <2>1, <2>2 DEF Foretells
<1>4. PlanInv'
  <2>1. CASE build.dry /\ build.quiet
    <3>1. build.forced \in BOOLEAN
      BY <2>1 DEF QuietInv
    <3>2. build.outcome = "rejected" <=> IsRejected(source, asset)
      BY <1>3, <2>1 DEF Foretells
    <3> QED
      BY <1>1, <1>3, <2>1, <3>1, <3>2 DEF PlanInv
  <2>2. CASE ~(build.dry /\ build.quiet)
    BY <2>2 DEF Exit, PlanInv
  <2> QED
    BY <2>1, <2>2
<1>5. SettledInv'
  <2>1. CASE build.dry /\ settled
    BY <1>1, <1>2, <2>1 DEF SettledInv
  <2>2. CASE ~build.dry /\ build.outcome = "ok" /\ build.quiet
    BY <1>1, <2>2 DEF SettledInv, EndedInv
  <2>3. CASE ~settled'
    BY <2>3 DEF SettledInv
  <2> QED
    BY <2>1, <2>2, <2>3 DEF Exit
<1> QED
  BY <1>1, <1>4, <1>5, QuietElsewhere DEF PInv, Marking, Writing

LEMMA WritePlan ==
  ASSUME IInv, TypesInv, QuietInv, PInv, Write
  PROVE  PInv'
<1>1. /\ MarksInv' /\ PlanInv' /\ SettledInv' /\ LeavesInv'
  BY MarksStay, PlanStays, LeavesStay DEF PInv
<1>2. EndedInv' /\ DryRunPredicts' /\ NothingToDo'
  <2>1. CASE build'.pc # "ended"
    BY <2>1 DEF EndedInv, DryRunPredicts, NothingToDo
  <2>2. CASE build'.pc = "ended"
    <3>0. DOMAIN build = Fields
      BY DEF IInv, MemoryInv
    <3>1. CASE Ends("failed")
      BY <3>1, FailedEnd DEF PInv
    <3>2. CASE EndPrune /\ Ends("ok")
      BY <3>2, GoodEnd DEF PInv
    <3>3. /\ ~KeepIndex
          /\ \A s \in Sources : ~KeepPage(s) /\ ~RenderPage(s)
          /\ \A o \in Outputs : ~RemoveStale(o)
      BY <2>2, <3>0, KeepIndexDoes, KeepPageDoes, RenderPageDoes, RemoveStaleDoes DEF Goes
    <3>4. EmptyCache \/ EndPages \/ RenderIndex => Ends("failed")
      BY <2>2, <3>0, EmptyCacheDoes, EndPagesDoes, RenderIndexDoes DEF Goes
    <3>5. CopyAsset \/ WriteCache => Ends("failed")
      BY <2>2, <3>0, CopyAssetDoes, WriteCacheDoes DEF Goes
    <3>6. EndPrune => Ends("failed") \/ Ends("ok")
      BY <3>0, EndPruneDoes
    <3> QED
      BY <3>1, <3>2, <3>3, <3>4, <3>5, <3>6 DEF Write
  <2> QED
    BY <2>1, <2>2
<1> QED
  BY <1>1, <1>2 DEF PInv

LEMMA StepPlan == IInv /\ TypesInv /\ QuietInv /\ PInv /\ [Next]_vars => PInv'
<1> SUFFICES ASSUME IInv, TypesInv, QuietInv, PInv, [Next]_vars PROVE PInv'
  OBVIOUS
<1>0. /\ MarksInv /\ PlanInv /\ SettledInv /\ LeavesInv /\ EndedInv
      /\ DryRunPredicts /\ NothingToDo
  BY DEF PInv
<1>1. CASE User
  <2>1. Disturb
    BY <1>1 DEF User, EditSource, DeleteSource, RenameSource, SwapSources, EditTemplate,
       DeleteTemplate, EditConfig, MoveAsset, DeleteOutput
  <2>2. ~build'.quiet /\ plan' = NoPlan /\ ~settled'
    BY <2>1, FieldsDef DEF Disturb, IInv, MemoryInv
  <2> QED
    BY <2>2, QuietElsewhere DEF PInv, PlanInv, SettledInv
<1>2. CASE Crash
  <2>1. build'.pc = "idle" /\ plan' = NoPlan /\ ~settled'
    BY <1>2 DEF Crash, NoBuild
  <2> QED
    BY <2>1, QuietElsewhere DEF PInv, PlanInv, SettledInv, Marking, Writing
<1>3. CASE Exit
  BY <1>0, <1>3, ExitPlan
<1>4. CASE Write
  BY <1>4, WritePlan
<1>5. CASE ConvertBodies /\ build'.pc = "ended"
  <2>1. EndedInv' /\ DryRunPredicts' /\ NothingToDo'
    BY <1>0, <1>5, RejectedEnd
  <2>2. /\ source' = source /\ template' = template /\ config' = config /\ asset' = asset
        /\ cache' = cache /\ tree' = tree /\ plan' = plan /\ settled' = settled
        /\ build.pc = "convert"
    BY <1>5 DEF ConvertBodies, Memory, inputs, disk
  <2>3. build'.quiet = build.quiet
    <3>1. DOMAIN build = Fields
      BY DEF IInv, MemoryInv
    <3>2. CASE End("rejected")
      BY <3>1, <3>2, FieldsDef DEF End
    <3>3. CASE \E fresh : build' = [build EXCEPT !.pc = "empty", !.fresh = fresh]
      BY <3>1, <3>3, FieldsDef
    <3> QED
      BY <1>5, <3>2, <3>3 DEF ConvertBodies
  <2>4. IsDiskKept
    BY <2>2 DEF IsDiskKept, Marking, Writing
  <2>5. PlanInv' /\ SettledInv'
    BY <1>0, <2>2, <2>3, <2>4 DEF PlanInv, SettledInv
  <2>6. MarksInv' /\ LeavesInv'
    BY <1>5 DEF MarksInv, LeavesInv, Marking, Writing
  <2> QED
    BY <2>1, <2>5, <2>6 DEF PInv
<1>6. CASE \/ Start \/ WalkInputs \/ ReadCache \/ StatTemplates
           \/ ConvertBodies /\ build'.pc # "ended"
           \/ \E s \in Sources : StatSource(s) \/ ReadSource(s)
  <2>1. PlanInv' /\ SettledInv' /\ build'.pc \notin Marking \cup {"ended"}
    BY <1>0, <1>6, ReadingStep, ReadingPlan
  <2> QED
    BY <2>1, QuietElsewhere DEF PInv
<1>7. CASE UNCHANGED vars
  <2>1. /\ source' = source /\ template' = template /\ config' = config /\ asset' = asset
        /\ cache' = cache /\ tree' = tree /\ plan' = plan /\ settled' = settled /\ build' = build
    BY <1>7 DEF vars, inputs, disk
  <2>2. MarksInv'
    BY <1>0, <2>1 DEF MarksInv, Progress, IsOnTrack, Handled, IsIndexHandled, IsTold
  <2>3. PlanInv' /\ SettledInv'
    BY <1>0, <2>1 DEF PlanInv, SettledInv, IsDiskKept
  <2>4. LeavesInv' /\ EndedInv'
    BY <1>0, <2>1 DEF LeavesInv, EndedInv
  <2>5. DryRunPredicts' /\ NothingToDo'
    BY <1>0, <2>1 DEF DryRunPredicts, NothingToDo
  <2> QED
    BY <2>2, <2>3, <2>4, <2>5 DEF PInv
<1> QED
  BY <1>1, <1>2, <1>3, <1>4, <1>5, <1>6, <1>7 DEF Next, Build, Write

LEMMA InitPlan == Init => PInv
<1> SUFFICES ASSUME Init PROVE PInv
  OBVIOUS
<1>1. build.pc = "idle" /\ plan = NoPlan /\ ~settled
  BY DEF Init, NoBuild
<1>2. MarksInv /\ LeavesInv /\ EndedInv
  BY <1>1 DEF MarksInv, LeavesInv, EndedInv, Marking, Writing
<1>3. PlanInv /\ SettledInv
  BY <1>1 DEF PlanInv, SettledInv
<1>4. DryRunPredicts /\ NothingToDo
  BY <1>1 DEF DryRunPredicts, NothingToDo
<1> QED
  BY <1>2, <1>3, <1>4 DEF PInv

(* Every build carries out what the dry run before it, and the completed    *)
(* build before it, foretold.                                               *)
THEOREM PlansHold == Spec => []PInv
BY InitPlan, StepPlan, Consistent, TypesStay, QuietKnows, PTL DEF Spec

(* For every site, and any history of edits, faults and crashes: a dry run  *)
(* lists what the next build writes, keeps and removes when nothing changes *)
(* in between, and is rejected exactly when that build is (output_writer.h: *)
(* "a dry run cannot miss one").                                            *)
THEOREM DryRunsForetell == Spec => []DryRunPredicts
<1>1. PInv => DryRunPredicts
  BY DEF PInv
<1> QED
  BY <1>1, PlansHold, PTL

(* For every such history: the build after one that completed, with nothing *)
(* changed since, keeps every aggregate and every page but those that link  *)
(* an asset, and finds nothing stale.                                       *)
THEOREM NothingLeftToDo == Spec => []NothingToDo
<1>1. PInv => NothingToDo
  BY DEF PInv
<1> QED
  BY <1>1, PlansHold, PTL

=============================================================================
