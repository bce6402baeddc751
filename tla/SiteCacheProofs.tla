-------------------------- MODULE SiteCacheProofs --------------------------
(***************************************************************************)
(* For every site: what the build cache vouches for is current, and a build *)
(* that succeeds undisturbed leaves what a build of everything would.  The  *)
(* edits are those under which the code promises it: contents change, files *)
(* come and go, outputs are deleted and the asset moves, while no file      *)
(* takes another's name, no template appears, and no cut cache parses.      *)
(***************************************************************************)
EXTENDS SiteBuildProofs

PlainEdits ==
  /\ Edits \subseteq {"source", "template", "config", "asset", "output"}
  /\ ~AllowCut

(* The stamps handed out so far. *)
Known == FirstStamps \cup 1..clock

TemplateStats == [t \in Templates |-> Stamp(template[t])]

StampsInv ==
  /\ source \in [Sources -> Files \cup {None}]
  /\ \A s \in Sources : source[s] # None => source[s].stamp \in Known
  /\ \A s, t \in Sources :
       source[s] # None /\ source[t] # None /\ source[s].stamp = source[t].stamp => s = t
  /\ \A t \in Templates : template[t] # None => template[t].stamp \in Known
  /\ DOMAIN template = Templates /\ DOMAIN tree = Outputs
  /\ asset \in Assets \cup {None}

(* The file that an entry was parsed from is still there. *)
IsAlive(s) ==
  build.docs[s] # None /\ source[s] # None /\ source[s].stamp = build.docs[s].stamp

AreAllAlive == \A s \in Entries(build.docs) : IsAlive(s)

(* No other file has the stamp of an entry, and a read under an unchanged   *)
(* stamp is the file.                                                       *)
DocsInv ==
  \A s \in Sources : build.docs[s] # None =>
    /\ build.docs[s].stamp \in Known \cup {None}
    /\ \A t \in Sources : source[t] # None /\ source[t].stamp = build.docs[s].stamp => t = s
    /\ s \notin build.reading =>
         /\ build.docs[s].body \in Bodies
         /\ IsAlive(s) => build.docs[s] = source[s]

(* What was missing when the templates were listed is missing still. *)
StatsInv ==
  build.pc \in {"convert"} \cup Writing =>
    /\ build.stats \in [Templates -> Known \cup {None}]
    /\ \A t \in Templates : build.stats[t] = None => template[t] = None

RowsInv ==
  /\ build.pc \in {"stat", "convert", "empty"} =>
       build.rows = NoCache \/ (build.rows = cache /\ cache.recipe = build.recipe)
  /\ build.pc \in {"convert", "empty"} =>
       /\ \A s \in Entries(build.docs) :
            build.fresh[s] \subseteq FreshRows(build.rows, build.docs, s, build.stats)
       /\ build.aggregatesFresh =>
            TemplatesMatch(build.rows, build.stats) /\ EntriesMatch(build.rows, build.docs)

(* The sources that a row stands for. *)
Vouched(rows) ==
  [s \in Sources |->
     IF source[s] # None /\ \E r \in rows : r.stamp = source[s].stamp THEN source[s] ELSE None]

AllVouch(rows) ==
  \A r \in rows : \E s \in Sources : source[s] # None /\ source[s].stamp = r.stamp

CacheTypeInv ==
  /\ IsFiniteSet(cache.content)
  /\ \A r \in cache.content : r.stamp \in Known \cup {None} /\ r.name \in Pages
  /\ \A r \in cache.templates : r.stamp \in Known
  /\ cache.templates # {} =>
       \A t \in Templates : template[t] # None => \E r \in cache.templates : r.name = t

(* A row that stands for a source vouches for its page. *)
CachePagesInv ==
  TemplatesMatch(cache, TemplateStats) =>
    \A r \in cache.content, s \in Sources :
      /\ source[s] # None /\ source[s].stamp = r.stamp /\ source[s].body \notin AssetLinkers
      /\ r.list => AllVouch(cache.content)
      /\ tree[r.name] # None
      => /\ tree[r.name] = PageOf(Vouched(cache.content), s, None, template, cache.recipe)
         /\ r.list \/ (~ReadsList(template, ContentTemplate) /\ ~HasEntryLink(source, s))

CacheIndexInv ==
  /\ TemplatesMatch(cache, TemplateStats) /\ AllVouch(cache.content) /\ tree[Index] # None
  => tree[Index] = IndexOf(Vouched(cache.content), template, cache.recipe)

(* What a build knows of the page of s, once it is kept or rendered with    *)
(* the flag "list".                                                         *)
IsPageSound(s, list) ==
  /\ IsAlive(s) /\ build.docs[s].body \notin AssetLinkers
  /\ build.stats = TemplateStats
  /\ list \/ HasEntryLink(build.docs, s) => AreAllAlive
  /\ tree[Page(s)] # None
  => /\ tree[Page(s)] = PageOf(build.docs, s, None, template, build.recipe)
     /\ list \/ ~ReadsList(template, ContentTemplate)

IsIndexSound ==
  build.stats = TemplateStats /\ AreAllAlive /\ tree[Index] # None =>
    tree[Index] = IndexOf(build.docs, template, build.recipe)

Rendering == {"pages", "index", "copy", "rows"}

PagesInv ==
  build.pc \in Rendering /\ ~build.dry =>
    /\ cache = NoCache /\ build.todo \subseteq Entries(build.docs)
    /\ build.pc # "pages" => build.todo = {} /\ ~build.errors
    /\ \A s \in Entries(build.docs) :
         /\ s \in build.todo => \A row \in build.fresh[s] : IsPageSound(s, row.list)
         /\ s \notin build.todo /\ ~build.errors => IsPageSound(s, build.flags[s])
    /\ (build.pc \in {"pages", "index"} => build.aggregatesFresh) => IsIndexSound

CInv == CacheTypeInv /\ CachePagesInv /\ CacheIndexInv
TaskInv == DOMAIN build.flags = Sources /\ build.asset \in Assets \cup {None}

BInv == TaskInv /\ DocsInv /\ StatsInv /\ RowsInv /\ PagesInv
CacheInv == StampsInv /\ CInv /\ BInv

-----------------------------------------------------------------------------
(* Two views of the sources that have the same entries make the same pages. *)
AgreeOnEntries(docs, others) ==
  /\ Entries(docs) = Entries(others)
  /\ \A s \in Entries(docs) : docs[s] = others[s]

LEMMA AgreeingLinks ==
  ASSUME NEW docs, NEW others, AgreeOnEntries(docs, others), NEW s \in Entries(docs)
  PROVE  /\ LinkUrl(docs, s) = LinkUrl(others, s) /\ Out(docs, s) = Out(others, s)
         /\ HasEntryLink(docs, s) = HasEntryLink(others, s)
BY DEF AgreeOnEntries, LinkUrl, Out, HasEntryLink

LEMMA AgreeingPages ==
  ASSUME NEW docs, NEW others, AgreeOnEntries(docs, others), NEW files, NEW recipe, NEW a
  PROVE  /\ \A s \in Entries(docs) :
              PageOf(docs, s, a, files, recipe) = PageOf(others, s, a, files, recipe)
         /\ IndexOf(docs, files, recipe) = IndexOf(others, files, recipe)
<1>1. Entries(docs) = Entries(others)
      /\ \A s \in Entries(docs) : docs[s] = others[s]
  BY DEF AgreeOnEntries
<1>2. \A s \in Entries(docs) :
        LinkUrl(docs, s) = LinkUrl(others, s) /\ Out(docs, s) = Out(others, s)
  BY AgreeingLinks
<1>3. Listing(docs) = Listing(others)
  BY <1>1, <1>2 DEF Listing
<1> QED
  BY <1>1, <1>2, <1>3 DEF PageOf, IndexOf

(* The page of an entry that neither lists nor links is made of its own     *)
(* file.                                                                    *)
LEMMA PlainPage ==
  ASSUME NEW docs, NEW others, NEW s \in Sources, docs[s] = others[s], NEW files, NEW recipe,
         NEW a, ~ReadsList(files, ContentTemplate), ~HasEntryLink(docs, s)
  PROVE  PageOf(docs, s, a, files, recipe) = PageOf(others, s, a, files, recipe)
<1>1. None \notin Entries(docs) /\ None \notin Entries(others)
  BY SiteAssumption DEF Entries
<1>2. LinkUrl(docs, s) = None /\ LinkUrl(others, s) = None
  BY <1>1 DEF LinkUrl, HasEntryLink
<1> QED
  BY <1>2 DEF PageOf

LEMMA AssetFree ==
  ASSUME NEW docs, NEW s, NEW files, NEW recipe, NEW a, docs[s].body \notin AssetLinkers
  PROVE  PageOf(docs, s, a, files, recipe) = PageOf(docs, s, None, files, recipe)
BY DEF PageOf

LEMMA FiniteEntries ==
  ASSUME NEW docs
  PROVE  IsFiniteSet(Entries(docs))
BY SiteAssumption, FS_Subset DEF Entries

(* is_every_entry_unchanged: as many rows as entries and a row for each     *)
(* leave no row without its entry.                                          *)
LEMMA EveryRowIsOfAnEntry ==
  ASSUME NEW rows, NEW docs, ~Collides(docs), IsFiniteSet(rows.content),
         EntriesMatch(rows, docs)
  PROVE  \A r \in rows.content : \E s \in Entries(docs) : r \in RowsOf(rows, docs, s)
<1> DEFINE row == [s \in Entries(docs) |-> CHOOSE r \in RowsOf(rows, docs, s) : TRUE]
<1>1. \A s \in Entries(docs) : row[s] \in RowsOf(rows, docs, s)
  BY DEF EntriesMatch
<1>2. row \in Injection(Entries(docs), rows.content)
  <2>1. row \in [Entries(docs) -> rows.content]
    BY <1>1 DEF RowsOf
  <2>2. ASSUME NEW s \in Entries(docs), NEW t \in Entries(docs), row[s] = row[t] PROVE s = t
    <3>1. Out(docs, s) = Out(docs, t)
      BY <1>1, <2>2 DEF RowsOf
    <3> QED
      BY <3>1 DEF Collides
  <2> HIDE DEF row
  <2> QED
    BY <2>1, <2>2 DEF Injection, IsInjective
<1> HIDE DEF row
<1>3. row \in Surjection(Entries(docs), rows.content)
  BY <1>2, FS_Injection DEF EntriesMatch
<1> QED
  BY <1>1, <1>3 DEF Surjection

LEMMA RowsTellStats ==
  ASSUME NEW stats, NEW others, stats = [t \in Templates |-> stats[t]],
         others = [t \in Templates |-> others[t]], TemplateRows(stats) = TemplateRows(others)
  PROVE  stats = others
<1>1. ASSUME NEW t \in Templates PROVE stats[t] = others[t]
  <2>1. CASE stats[t] # None
    <3>1. [name |-> t, stamp |-> stats[t]] \in TemplateRows(others)
      BY <2>1 DEF TemplateRows
    <3> QED
      BY <3>1 DEF TemplateRows
  <2>2. CASE others[t] # None
    <3>1. [name |-> t, stamp |-> others[t]] \in TemplateRows(stats)
      BY <2>2 DEF TemplateRows
    <3> QED
      BY <3>1 DEF TemplateRows
  <2> QED
    BY <2>1, <2>2
<1> QED
  BY <1>1

(* Rows that stand for the entries of docs, all of them on disk, vouch for  *)
(* exactly these entries.                                                   *)
LEMMA VouchedEntries ==
  ASSUME StampsInv, NEW rows, NEW docs,
         \A s \in Entries(docs) : source[s] # None /\ docs[s] = source[s],
         \A r \in rows : \E s \in Entries(docs) : r.stamp = docs[s].stamp,
         \A s \in Entries(docs) : \E r \in rows : r.stamp = docs[s].stamp
  PROVE  AgreeOnEntries(Vouched(rows), docs)
<1> DEFINE seen == Vouched(rows)
<1>1. ASSUME NEW s \in Entries(docs) PROVE seen[s] = docs[s] /\ s \in Entries(seen)
  <2>1. s \in Sources /\ docs[s] = source[s] /\ source[s] # None
    BY DEF Entries
  <2>2. seen[s] = docs[s]
    BY <2>1 DEF Vouched
  <2> QED
    BY <2>1, <2>2 DEF Entries
<1>2. ASSUME NEW s \in Entries(seen) PROVE s \in Entries(docs)
  <2>1. PICK r \in rows : source[s] # None /\ r.stamp = source[s].stamp
    BY DEF Entries, Vouched
  <2>2. PICK t \in Entries(docs) : r.stamp = docs[t].stamp
    OBVIOUS
  <2>3. s \in Sources /\ t \in Sources
    BY DEF Entries
  <2>4. s = t
    BY <2>1, <2>2, <2>3 DEF StampsInv
  <2> QED
    BY <2>4
<1> QED
  BY <1>1, <1>2 DEF AgreeOnEntries

-----------------------------------------------------------------------------
(* What an edit does to the inputs: no path gets a file with an old stamp   *)
(* but the one it has, and no template appears.                             *)
InputsAge ==
  /\ Known \subseteq Known'
  /\ \A s \in Sources :
       source'[s] = source[s] \/ source'[s] = None \/ source'[s].stamp \notin Known \cup {None}
  /\ \A t \in Templates : template'[t] # None => template[t] # None
  /\ \/ template' = template
     \/ \E t \in Templates :
          /\ template[t] # None
          /\ template'[t] = None \/ template'[t].stamp \notin Known \cup {None}

(* Outputs stay or go. *)
OutputsGo == \A o \in Outputs : tree'[o] = tree[o] \/ tree'[o] = None

LEMMA FreshStamp ==
  ASSUME FilesInv, clock < MaxClock, clock' = clock + 1
  PROVE  /\ Known \subseteq Known' /\ clock + 1 \in Known' /\ clock + 1 \in Stamps
         /\ clock + 1 \notin Known \cup {None}
BY SiteBuildAssumption DEF FilesInv, Known, Stamps

LEMMA FileShape ==
  ASSUME NEW body \in Bodies, FilesInv, clock < MaxClock
  PROVE  Save(body) \in Files /\ Save(body) # None /\ Save(body).stamp = clock + 1
<1>1. Save(body) \in Files /\ Save(body).stamp = clock + 1
  BY SiteBuildAssumption DEF Save, Files, Stamps, FilesInv
<1>2. Files \subseteq Docs
  BY DEF Files, Docs
<1> QED
  BY <1>1, <1>2, SiteBuildAssumption

LEMMA SourceEdited ==
  ASSUME StampsInv, FilesInv, clock < MaxClock, clock' = clock + 1, NEW s \in Sources,
         NEW file \in Files \cup {None}, file # None => file.stamp = clock + 1,
         source' = [source EXCEPT ![s] = file], UNCHANGED <<template, asset, tree>>
  PROVE  StampsInv' /\ InputsAge /\ OutputsGo
<1>1. \A t \in Sources : source'[t] = IF t = s THEN file ELSE source[t]
  BY DEF StampsInv
<1>2. /\ Known \subseteq Known' /\ clock + 1 \in Known'
      /\ clock + 1 \notin Known \cup {None}
  BY FreshStamp
<1>3. source' \in [Sources -> Files \cup {None}]
  BY DEF StampsInv
<1>4. ASSUME NEW t \in Sources, NEW u \in Sources, source'[t] # None, source'[u] # None,
             source'[t].stamp = source'[u].stamp
      PROVE  t = u
  BY <1>1, <1>2, <1>4 DEF StampsInv
<1>5. \A t \in Sources : source'[t] # None => source'[t].stamp \in Known'
  BY <1>1, <1>2 DEF StampsInv
<1>6. StampsInv'
  BY <1>2, <1>3, <1>4, <1>5 DEF StampsInv
<1> QED
  BY <1>1, <1>2, <1>6 DEF InputsAge, OutputsGo

LEMMA TemplateEdited ==
  ASSUME StampsInv, FilesInv, clock < MaxClock, clock' = clock + 1, NEW t \in Templates,
         NEW file, file # None => file.stamp = clock + 1, template[t] # None,
         template' = [template EXCEPT ![t] = file], UNCHANGED <<source, asset, tree>>
  PROVE  StampsInv' /\ InputsAge /\ OutputsGo
<1>1. \A u \in Templates : template'[u] = IF u = t THEN file ELSE template[u]
  BY DEF StampsInv
<1>2. /\ Known \subseteq Known' /\ clock + 1 \in Known'
      /\ clock + 1 \notin Known \cup {None}
  BY FreshStamp
<1>3. StampsInv'
  BY <1>1, <1>2 DEF StampsInv
<1>4. InputsAge
  BY <1>1, <1>2 DEF InputsAge
<1> QED
  BY <1>3, <1>4 DEF OutputsGo

(* Every edit ages the inputs. *)
LEMMA UserAges ==
  ASSUME PlainEdits, StampsInv, FilesInv, User
  PROVE  StampsInv' /\ InputsAge /\ OutputsGo /\ cache' = cache /\ Disturb
<1>1. ASSUME NEW s \in Sources, EditSource(s) PROVE StampsInv' /\ InputsAge /\ OutputsGo
  <2>1. PICK body \in Bodies : source' = [source EXCEPT ![s] = Save(body)]
    BY <1>1 DEF EditSource
  <2>2. Save(body) \in Files /\ Save(body).stamp = clock + 1
    BY <1>1, FileShape DEF EditSource
  <2> QED
    BY <1>1, <2>1, <2>2, SourceEdited DEF EditSource, disk
<1>2. ASSUME NEW s \in Sources, DeleteSource(s) PROVE StampsInv' /\ InputsAge /\ OutputsGo
  BY <1>2, SourceEdited DEF DeleteSource, disk
<1>3. ASSUME NEW s \in Sources, NEW t \in Sources PROVE ~RenameSource(s, t) /\ ~SwapSources(s, t)
  BY DEF PlainEdits, RenameSource, SwapSources
<1>4. ASSUME NEW t \in Templates, EditTemplate(t) PROVE StampsInv' /\ InputsAge /\ OutputsGo
  <2>1. PICK body \in TemplateBodies : template' = [template EXCEPT ![t] = Save(body)]
    BY <1>4 DEF EditTemplate
  <2>2. template[t] # None /\ Save(body).stamp = clock + 1
    BY <1>4 DEF EditTemplate, PlainEdits, Save
  <2> QED
    BY <1>4, <2>1, <2>2, TemplateEdited DEF EditTemplate, disk
<1>5. ASSUME NEW t \in Templates, DeleteTemplate(t) PROVE StampsInv' /\ InputsAge /\ OutputsGo
  BY <1>5, TemplateEdited DEF DeleteTemplate, disk
<1>6. ASSUME clock < MaxClock, clock' = clock + 1, UNCHANGED <<source, template>>,
             asset' \in Assets \cup {None},
             \/ tree' = tree
             \/ \E o \in Outputs : tree' = [tree EXCEPT ![o] = None]
      PROVE  StampsInv' /\ InputsAge /\ OutputsGo
  <2>1. Known \subseteq Known'
    BY <1>6, FreshStamp
  <2> QED
    BY <1>6, <2>1 DEF StampsInv, InputsAge, OutputsGo
<1>7. CASE EditConfig \/ MoveAsset
  BY <1>6, <1>7 DEF EditConfig, MoveAsset, disk, StampsInv
<1>8. ASSUME NEW o \in Outputs, DeleteOutput(o) PROVE StampsInv' /\ InputsAge /\ OutputsGo
  BY <1>6, <1>8 DEF DeleteOutput, StampsInv
<1>9. cache' = cache /\ Disturb
  BY DEF User, EditSource, DeleteSource, RenameSource, SwapSources, EditTemplate, DeleteTemplate,
     EditConfig, MoveAsset, DeleteOutput, disk
<1> QED
  BY <1>1, <1>2, <1>3, <1>4, <1>5, <1>7, <1>8, <1>9 DEF User

(* Rows that an edit has overtaken never match again. *)
LEMMA StatsAge ==
  ASSUME InputsAge, StampsInv, NEW stats \in [Templates -> Known \cup {None}],
         \A t \in Templates : stats[t] = None => template[t] = None,
         stats = TemplateStats'
  PROVE  template' = template
<1>1. ASSUME NEW t \in Templates, template[t] # None,
             template'[t] = None \/ template'[t].stamp \notin Known \cup {None}
      PROVE  FALSE
  <2>1. stats[t] = Stamp(template'[t])
    BY DEF TemplateStats
  <2> QED
    BY <1>1, <2>1 DEF Stamp
<1> QED
  BY <1>1 DEF InputsAge

LEMMA TemplateRowsAge ==
  ASSUME InputsAge, StampsInv, CacheTypeInv, TemplatesMatch(cache, TemplateStats')
  PROVE  template' = template
<1>1. ASSUME NEW t \in Templates, template[t] # None,
             template'[t] = None \/ template'[t].stamp \notin Known \cup {None}
      PROVE  FALSE
  <2>1. PICK r \in cache.templates : r.name = t
    BY <1>1 DEF CacheTypeInv, TemplatesMatch
  <2>2. r.stamp \in Known
    BY <2>1 DEF CacheTypeInv
  <2>3. r \in TemplateRows(TemplateStats')
    BY <2>1 DEF TemplatesMatch
  <2>4. TemplateStats'[t] # None /\ r.stamp = TemplateStats'[t]
    BY <2>1, <2>3 DEF TemplateRows
  <2>5. TemplateStats'[t] = Stamp(template'[t])
    BY DEF TemplateStats
  <2> QED
    BY <1>1, <2>2, <2>4, <2>5 DEF Stamp
<1> QED
  BY <1>1 DEF InputsAge

(* While every row stands for a source, the rows stand for what they did.   *)
LEMMA VouchedAge ==
  ASSUME StampsInv, InputsAge, NEW rows, \A r \in rows : r.stamp \in Known \cup {None},
         AllVouch(rows)'
  PROVE  AllVouch(rows) /\ Vouched(rows)' = Vouched(rows)
<1>1. ASSUME NEW r \in rows, NEW s \in Sources, source'[s] # None, source'[s].stamp = r.stamp
      PROVE  source'[s] = source[s]
  BY <1>1 DEF InputsAge
<1>2. \A r \in rows : \E s \in Sources :
        source'[s] = source[s] /\ source'[s] # None /\ source'[s].stamp = r.stamp
  BY <1>1 DEF AllVouch
<1>3. AllVouch(rows)
  BY <1>2 DEF AllVouch
<1>4. ASSUME NEW s \in Sources PROVE Vouched(rows)'[s] = Vouched(rows)[s]
  <2>1. CASE source'[s] = source[s]
    BY <2>1 DEF Vouched
  <2>2. CASE source'[s] # source[s]
    <3>1. Vouched(rows)'[s] = None
      BY <1>1, <2>2 DEF Vouched
    <3>2. ASSUME NEW r \in rows, source[s] # None, r.stamp = source[s].stamp PROVE FALSE
      <4>1. PICK t \in Sources :
              source'[t] = source[t] /\ source'[t] # None /\ source'[t].stamp = r.stamp
        BY <1>2
      <4>2. t = s
        BY <3>2, <4>1 DEF StampsInv
      <4> QED
        BY <2>2, <4>1, <4>2
    <3>3. Vouched(rows)[s] = None
      BY <3>2 DEF Vouched
    <3> QED
      BY <3>1, <3>3
  <2> QED
    BY <2>1, <2>2
<1> QED
  BY <1>3, <1>4 DEF Vouched

(* What the cache vouches for stays sound while its inputs age. *)
LEMMA CacheAges ==
  ASSUME StampsInv, InputsAge, OutputsGo, CInv, cache' = cache
  PROVE  CInv'
<1>0. CacheTypeInv /\ CachePagesInv /\ CacheIndexInv
  BY DEF CInv
<1>1. CacheTypeInv'
  BY <1>0 DEF CacheTypeInv, InputsAge
<1>2. TemplatesMatch(cache, TemplateStats)' =>
        template' = template /\ TemplatesMatch(cache, TemplateStats)
  <2>1. TemplatesMatch(cache, TemplateStats)' => TemplatesMatch(cache, TemplateStats')
    BY DEF TemplatesMatch
  <2>2. template' = template => TemplateStats' = TemplateStats
    BY DEF TemplateStats
  <2> QED
    BY <1>0, <2>1, <2>2, TemplateRowsAge
<1>3. ASSUME TemplatesMatch(cache, TemplateStats)', NEW r \in cache.content, NEW s \in Sources,
             source'[s] # None, source'[s].stamp = r.stamp, source'[s].body \notin AssetLinkers,
             r.list => AllVouch(cache.content)', tree'[r.name] # None
      PROVE  /\ tree'[r.name] =
                  PageOf(Vouched(cache.content)', s, None, template', cache.recipe)
             /\ r.list \/ (~ReadsList(template', ContentTemplate) /\ ~HasEntryLink(source', s))
  <2>1. source'[s] = source[s]
    BY <1>0, <1>3 DEF InputsAge, CacheTypeInv
  <2>2. tree[r.name] = tree'[r.name]
    BY <1>0, <1>3 DEF OutputsGo, CacheTypeInv, Outputs
  <2>3. template' = template /\ TemplatesMatch(cache, TemplateStats)
    BY <1>2, <1>3
  <2>4. \A x \in cache.content : x.stamp \in Known \cup {None}
    BY <1>0 DEF CacheTypeInv
  <2>5. r.list => AllVouch(cache.content) /\ Vouched(cache.content)' = Vouched(cache.content)
    BY <1>3, <2>4, VouchedAge
  <2>6. /\ tree[r.name] = PageOf(Vouched(cache.content), s, None, template, cache.recipe)
        /\ r.list \/ (~ReadsList(template, ContentTemplate) /\ ~HasEntryLink(source, s))
    BY <1>0, <1>3, <2>1, <2>2, <2>3, <2>5 DEF CachePagesInv
  <2>7. CASE r.list
    BY <2>2, <2>3, <2>5, <2>6, <2>7
  <2>8. CASE ~r.list
    <3>1. Vouched(cache.content)[s] = source[s] /\ Vouched(cache.content)'[s] = source[s]
      BY <1>3, <2>1 DEF Vouched
    <3>2. ~HasEntryLink(Vouched(cache.content), s) /\ ~HasEntryLink(source', s)
      BY <2>1, <2>6, <2>8, <3>1 DEF HasEntryLink
    <3>3. PageOf(Vouched(cache.content), s, None, template, cache.recipe) =
            PageOf(Vouched(cache.content)', s, None, template, cache.recipe)
      BY <2>6, <2>8, <3>1, <3>2, PlainPage
    <3> QED
      BY <2>2, <2>3, <2>6, <2>8, <3>2, <3>3
  <2> QED
    BY <2>7, <2>8
<1>4. CachePagesInv'
  BY <1>3 DEF CachePagesInv
<1>5. ASSUME TemplatesMatch(cache, TemplateStats)', AllVouch(cache.content)', tree'[Index] # None
      PROVE  tree'[Index] = IndexOf(Vouched(cache.content)', template', cache.recipe)
  <2>1. tree[Index] = tree'[Index]
    BY <1>5 DEF OutputsGo, Outputs
  <2>2. AllVouch(cache.content) /\ Vouched(cache.content)' = Vouched(cache.content)
    BY <1>0, <1>5, VouchedAge DEF CacheTypeInv
  <2>3. template' = template /\ TemplatesMatch(cache, TemplateStats)
    BY <1>2, <1>5
  <2> QED
    BY <1>0, <1>5, <2>1, <2>2, <2>3 DEF CacheIndexInv
<1>6. CacheIndexInv'
  BY <1>5 DEF CacheIndexInv
<1> QED
  BY <1>1, <1>4, <1>6 DEF CInv

-----------------------------------------------------------------------------
(* Steps that leave the inputs alone. *)
LEMMA StillAges ==
  ASSUME StampsInv, UNCHANGED inputs, DOMAIN tree' = Outputs
  PROVE  StampsInv' /\ InputsAge
BY DEF StampsInv, InputsAge, inputs, Known

LEMMA NoCacheSound ==
  ASSUME cache' = NoCache
  PROVE  CInv'
<1>1. /\ cache'.content = {} /\ cache'.templates = {}
  BY DEF NoCache
<1>2. IsFiniteSet(cache'.content)
  BY <1>1, FS_EmptySet
<1>3. ~TemplatesMatch(cache, TemplateStats)'
  BY <1>1 DEF TemplatesMatch
<1> QED
  BY <1>1, <1>2, <1>3 DEF CInv, CacheTypeInv, CachePagesInv, CacheIndexInv

(* A step that changes no file, or empties the cache. *)
LEMMA DiskStays ==
  ASSUME StampsInv, CInv, UNCHANGED inputs, DOMAIN tree' = Outputs,
         (cache' = cache /\ OutputsGo) \/ cache' = NoCache
  PROVE  StampsInv' /\ CInv'
BY StillAges, CacheAges, NoCacheSound

LEMMA MemoryStays ==
  ASSUME StampsInv, CInv, Memory
  PROVE  StampsInv' /\ CInv' /\ InputsAge
<1>1. UNCHANGED inputs /\ cache' = cache /\ tree' = tree
  BY DEF Memory, disk
<1>2. OutputsGo /\ DOMAIN tree' = Outputs
  BY <1>1 DEF OutputsGo, StampsInv
<1> QED
  BY <1>1, <1>2, DiskStays, StillAges

LEMMA DocsAge ==
  ASSUME InputsAge, DocsInv, build'.docs = build.docs, build'.reading = build.reading
  PROVE  DocsInv'
<1> SUFFICES ASSUME NEW s \in Sources, build.docs[s] # None
             PROVE  /\ build.docs[s].stamp \in Known' \cup {None}
                    /\ \A t \in Sources :
                         source'[t] # None /\ source'[t].stamp = build.docs[s].stamp => t = s
                    /\ s \notin build.reading =>
                         /\ build.docs[s].body \in Bodies
                         /\ IsAlive(s)' => build.docs[s] = source'[s]
  BY DEF DocsInv
<1>1. build.docs[s].stamp \in Known \cup {None}
  BY DEF DocsInv
<1>2. \A t \in Sources :
        source'[t] # None /\ source'[t].stamp = build.docs[s].stamp => source'[t] = source[t]
  BY <1>1 DEF InputsAge
<1>3. IsAlive(s)' => IsAlive(s) /\ source'[s] = source[s]
  BY <1>2 DEF IsAlive
<1> QED
  BY <1>1, <1>2, <1>3 DEF DocsInv, InputsAge

LEMMA AliveAges ==
  ASSUME InputsAge, DocsInv, build'.docs = build.docs, NEW s \in Sources, IsAlive(s)'
  PROVE  IsAlive(s)
BY DEF InputsAge, DocsInv, IsAlive

LEMMA AllAliveAges ==
  ASSUME InputsAge, DocsInv, build'.docs = build.docs, AreAllAlive'
  PROVE  AreAllAlive
<1>1. Entries(build'.docs) = Entries(build.docs)
  BY DEF Entries
<1> QED
  BY <1>1, AliveAges DEF AreAllAlive, Entries

LEMMA StatsStay ==
  ASSUME InputsAge, StatsInv, build'.stats = build.stats,
         build.pc \in {"convert"} \cup Writing
  PROVE  StatsInv'
BY DEF InputsAge, StatsInv

(* What the build works on, from the parse on. *)
SameTask ==
  /\ SameEntries
  /\ build'.recipe = build.recipe /\ build'.stats = build.stats
  /\ build'.fresh = build.fresh /\ build'.aggregatesFresh = build.aggregatesFresh

LEMMA PageSoundAges ==
  ASSUME InputsAge, StampsInv, DocsInv, StatsInv, build.pc \in Writing, SameTask,
         NEW s \in Sources, NEW list, tree'[Page(s)] = tree[Page(s)] \/ tree'[Page(s)] = None,
         IsPageSound(s, list)
  PROVE  IsPageSound(s, list)'
<1>1. /\ build'.docs = build.docs /\ build'.recipe = build.recipe /\ build'.stats = build.stats
  BY DEF SameTask, SameEntries
<1>2. Page(s)' = Page(s) /\ HasEntryLink(build.docs, s)' = HasEntryLink(build.docs, s)
  BY <1>1 DEF Page, Out, HasEntryLink
<1>3. IsAlive(s)' => IsAlive(s)
  BY <1>1, AliveAges
<1>4. AreAllAlive' => AreAllAlive
  BY <1>1, AllAliveAges
<1>5. build.stats = TemplateStats' => template' = template /\ build.stats = TemplateStats
  <2>1. build.stats = TemplateStats' => template' = template
    BY StatsAge DEF StatsInv
  <2> QED
    BY <2>1 DEF TemplateStats
<1> QED
  BY <1>1, <1>2, <1>3, <1>4, <1>5 DEF IsPageSound

LEMMA IndexSoundAges ==
  ASSUME InputsAge, StampsInv, DocsInv, StatsInv, build.pc \in Writing, SameTask,
         tree'[Index] = tree[Index] \/ tree'[Index] = None, IsIndexSound
  PROVE  IsIndexSound'
<1>1. /\ build'.docs = build.docs /\ build'.recipe = build.recipe /\ build'.stats = build.stats
  BY DEF SameTask, SameEntries
<1>2. AreAllAlive' => AreAllAlive
  BY <1>1, AllAliveAges
<1>3. build.stats = TemplateStats' => template' = template /\ build.stats = TemplateStats
  <2>1. build.stats = TemplateStats' => template' = template
    BY StatsAge DEF StatsInv
  <2> QED
    BY <2>1 DEF TemplateStats
<1> QED
  BY <1>1, <1>2, <1>3 DEF IsIndexSound

LEMMA PageIsOutput ==
  ASSUME IInv, DocsInv, build.pc \in Writing, NEW s \in Entries(build.docs)
  PROVE  s \in Sources /\ Page(s) \in Pages /\ Page(s) \in Outputs \ {Index}
<1>1. s \in Sources /\ build.docs[s] # None /\ s \notin build.reading
  BY DEF Entries, IInv, CheckedInv
<1>2. Page(s) \in Pages
  BY <1>1 DEF DocsInv, Page, Out, Pages
<1> QED
  BY <1>1, <1>2, SiteAssumption DEF Outputs

LEMMA PagesDiffer ==
  ASSUME IInv, build.pc \in Writing,
         NEW s \in Entries(build.docs), NEW t \in Entries(build.docs), Page(s) = Page(t)
  PROVE  s = t
BY DEF IInv, CheckedInv, IsRejected, Collides, Page

(* The build does nothing. *)
SameWork ==
  /\ SameTask /\ build'.pc = build.pc /\ build'.todo = build.todo
  /\ build'.errors = build.errors /\ build'.rows = build.rows /\ build'.flags = build.flags

(* What a build knows stays true while it does nothing and its inputs age.  *)
LEMMA BuildAges ==
  ASSUME IInv, StampsInv, BInv, InputsAge, OutputsGo, cache' = cache, SameWork
  PROVE  BInv'
<1>0. TaskInv /\ DocsInv /\ StatsInv /\ RowsInv /\ PagesInv
  BY DEF BInv
<1>1. /\ SameTask /\ build'.pc = build.pc /\ build'.todo = build.todo
      /\ build'.errors = build.errors /\ build'.rows = build.rows /\ build'.flags = build.flags
  BY DEF SameWork
<1>2. /\ build'.docs = build.docs /\ build'.reading = build.reading
      /\ build'.stats = build.stats /\ build'.dry = build.dry /\ build'.recipe = build.recipe
      /\ build'.fresh = build.fresh /\ build'.aggregatesFresh = build.aggregatesFresh
  BY <1>1 DEF SameTask, SameEntries
<1>3. DocsInv'
  BY <1>0, <1>2, DocsAge
<1>4. StatsInv'
  BY <1>0, <1>1, <1>2, StatsStay DEF StatsInv
<1>5. Entries(build'.docs) = Entries(build.docs)
  BY <1>2 DEF Entries
<1>6. RowsInv'
  BY <1>0, <1>1, <1>2, <1>5 DEF RowsInv, FreshRows, RowsOf, EntriesMatch, Out
<1>7. PagesInv'
  <2> SUFFICES ASSUME build.pc \in Rendering, ~build.dry PROVE PagesInv'
    BY <1>1, <1>2 DEF PagesInv
  <2>0. build.pc \in Writing
    BY DEF Rendering, Writing
  <2>1. ASSUME NEW s \in Entries(build.docs)
        PROVE  tree'[Page(s)] = tree[Page(s)] \/ tree'[Page(s)] = None
    BY <1>0, <2>0, PageIsOutput DEF OutputsGo
  <2>2. ASSUME NEW s \in Entries(build.docs), NEW list, IsPageSound(s, list)
        PROVE  IsPageSound(s, list)'
    BY <1>0, <1>1, <2>0, <2>1, <2>2, PageSoundAges DEF Entries
  <2>3. IsIndexSound => IsIndexSound'
    BY <1>0, <1>1, <2>0, IndexSoundAges DEF OutputsGo, Outputs
  <2>4. \A s \in Entries(build.docs) :
         /\ s \in build.todo => \A row \in build'.fresh[s] : IsPageSound(s, row.list)'
         /\ s \notin build.todo /\ ~build.errors => IsPageSound(s, build.flags[s])'
    BY <1>0, <1>1, <1>2, <2>2 DEF PagesInv
  <2> QED
    BY <1>0, <1>1, <1>2, <1>5, <2>3, <2>4 DEF PagesInv
<1>8. TaskInv'
  BY <1>0, <1>1 DEF TaskInv, SameTask, SameEntries
<1> QED
  BY <1>3, <1>4, <1>6, <1>7, <1>8 DEF BInv

LEMMA UserCacheStep ==
  ASSUME PlainEdits, IInv, CacheInv, User
  PROVE  CacheInv'
<1>1. StampsInv /\ CInv /\ BInv /\ FilesInv
  BY DEF CacheInv, IInv
<1>2. StampsInv' /\ InputsAge /\ OutputsGo /\ cache' = cache /\ Disturb
  BY <1>1, UserAges
<1>3. SameWork
  BY <1>2, FieldsDef DEF Disturb, IInv, MemoryInv, SameWork, SameTask, SameEntries
<1> QED
  BY <1>1, <1>2, <1>3, CacheAges, BuildAges DEF CacheInv

-----------------------------------------------------------------------------
(* The steps up to the first write. *)
LEMMA PhaseInv ==
  /\ build'.pc \notin {"convert"} \cup Writing => StatsInv'
  /\ build'.pc \notin {"stat", "convert", "empty"} => RowsInv'
  /\ build'.pc \notin Rendering => PagesInv'
BY DEF StatsInv, RowsInv, PagesInv

LEMMA KnownStamps ==
  ASSUME FilesInv
  PROVE  Known \subseteq Stamps /\ None \notin Known
BY SiteBuildAssumption DEF FilesInv, Known, Stamps

LEMMA BeginStep ==
  ASSUME IInv, CacheInv, Start \/ WalkInputs
  PROVE  BInv'
<1>0. TaskInv /\ DocsInv /\ StampsInv /\ InputsAge
  BY MemoryStays DEF CacheInv, BInv, Start, WalkInputs
<1>1. CASE Start
  <2>0. PICK mode \in Modes :
          build' = [NoBuild EXCEPT !.pc = "walk", !.forced = mode.forced, !.dry = mode.dry,
                                   !.quiet = TRUE, !.recipe = config]
    BY <1>1 DEF Start
  <2>1. /\ build'.pc = "walk" /\ build'.docs = [s \in Sources |-> None]
        /\ build'.flags = [s \in Sources |-> FALSE] /\ build'.asset = None
    BY <2>0 DEF NoBuild
  <2>2. DocsInv' /\ TaskInv'
    BY <2>1 DEF DocsInv, TaskInv
  <2> QED
    BY <2>1, <2>2, PhaseInv DEF BInv, Writing, Rendering
<1>2. CASE WalkInputs
  <2>1. /\ build'.pc = "parse" /\ build'.docs = build.docs /\ build'.reading = build.reading
        /\ build'.flags = build.flags /\ build'.asset = asset
    BY <1>2, FieldsDef DEF WalkInputs, IInv, MemoryInv
  <2>2. DocsInv' /\ TaskInv'
    BY <1>0, <2>1, DocsAge DEF TaskInv, StampsInv
  <2> QED
    BY <2>1, <2>2, PhaseInv DEF BInv, Writing, Rendering
<1> QED
  BY <1>1, <1>2

LEMMA StatSourceDocs ==
  ASSUME IInv, CacheInv, NEW s \in Sources, StatSource(s)
  PROVE  BInv'
<1> DEFINE doc == [stamp |-> Stamp(source[s]), body |-> None]
<1>0. /\ TaskInv /\ DocsInv /\ StampsInv /\ FilesInv /\ UNCHANGED inputs
      /\ build.docs \in [Sources -> Docs \cup {None}]
  BY DEF CacheInv, BInv, StatSource, Memory, IInv, MemoryInv
<1>1. /\ build'.pc = "parse" /\ build'.flags = build.flags /\ build'.asset = build.asset
      /\ build'.reading = build.reading \cup {s} /\ build'.docs = [build.docs EXCEPT ![s] = doc]
  BY FieldsDef DEF StatSource, IInv, MemoryInv
<1>2. Known' = Known /\ source' = source
  BY <1>0 DEF inputs, Known
<1>3. doc.stamp \in Known \cup {None} /\ None \notin Known
      /\ \A t \in Sources : source[t] # None /\ source[t].stamp = doc.stamp => t = s
  BY <1>0, KnownStamps DEF StampsInv, Stamp
<1>4. \A u \in Sources : build'.docs[u] = IF u = s THEN doc ELSE build.docs[u]
  BY <1>0, <1>1
<1>5. DocsInv'
  <2> SUFFICES ASSUME NEW u \in Sources, build'.docs[u] # None
               PROVE  /\ build'.docs[u].stamp \in Known \cup {None}
                      /\ \A t \in Sources :
                           source[t] # None /\ source[t].stamp = build'.docs[u].stamp => t = u
                      /\ u \notin build'.reading =>
                           /\ build'.docs[u].body \in Bodies
                           /\ IsAlive(u)' => build'.docs[u] = source[u]
    BY <1>2 DEF DocsInv
  <2>1. CASE u = s
    BY <1>1, <1>3, <1>4, <2>1
  <2>2. CASE u # s
    <3>1. build'.docs[u] = build.docs[u] /\ (u \notin build'.reading => u \notin build.reading)
      BY <1>1, <1>4, <2>2
    <3>2. IsAlive(u)' <=> IsAlive(u)
      BY <1>2, <3>1 DEF IsAlive
    <3> QED
      BY <1>0, <3>1, <3>2 DEF DocsInv
  <2> QED
    BY <2>1, <2>2
<1>6. TaskInv'
  BY <1>0, <1>1 DEF TaskInv
<1> QED
  BY <1>1, <1>5, <1>6, PhaseInv DEF BInv, Writing, Rendering

LEMMA ReadSourceDocs ==
  ASSUME IInv, CacheInv, NEW s \in Sources, ReadSource(s)
  PROVE  BInv'
<1> DEFINE doc == IF source[s] = None THEN None ELSE [build.docs[s] EXCEPT !.body = source[s].body]
<1>0. /\ TaskInv /\ DocsInv /\ StampsInv /\ FilesInv /\ UNCHANGED inputs
      /\ build.docs \in [Sources -> Docs \cup {None}]
  BY DEF CacheInv, BInv, ReadSource, Memory, IInv, MemoryInv
<1>1. /\ build'.pc = "parse" /\ build'.flags = build.flags /\ build'.asset = build.asset
      /\ build'.reading = build.reading \ {s} /\ build'.docs = [build.docs EXCEPT ![s] = doc]
      /\ build.pc = "parse" /\ s \in build.reading
  BY FieldsDef DEF ReadSource, IInv, MemoryInv
<1>2. Known' = Known /\ source' = source
  BY <1>0 DEF inputs, Known
<1>3. build.docs[s] \in Docs /\ build.docs[s] # None
  BY <1>0, <1>1 DEF IInv, ParseInv
<1>4. \A u \in Sources : build'.docs[u] = IF u = s THEN doc ELSE build.docs[u]
  BY <1>0, <1>1
<1>5. ASSUME doc # None
      PROVE  /\ doc.stamp = build.docs[s].stamp /\ doc.body = source[s].body
             /\ source[s] \in Files /\ doc.body \in Bodies
             /\ doc.stamp = source[s].stamp => doc = source[s]
  <2>1. source[s] # None /\ source[s] \in Files
    BY <1>0, <1>5 DEF StampsInv
  <2> QED
    BY <1>3, <2>1 DEF Docs, Files
<1> HIDE DEF doc
<1>6. DocsInv'
  <2> SUFFICES ASSUME NEW u \in Sources, build'.docs[u] # None
               PROVE  /\ build'.docs[u].stamp \in Known \cup {None}
                      /\ \A t \in Sources :
                           source[t] # None /\ source[t].stamp = build'.docs[u].stamp => t = u
                      /\ u \notin build'.reading =>
                           /\ build'.docs[u].body \in Bodies
                           /\ IsAlive(u)' => build'.docs[u] = source[u]
    BY <1>2 DEF DocsInv
  <2>1. CASE u = s
    <3>1. build'.docs[u] = doc /\ doc # None
      BY <1>4, <2>1
    <3>2. IsAlive(u)' => doc.stamp = source[u].stamp
      BY <1>2, <3>1 DEF IsAlive
    <3> QED
      BY <1>0, <1>3, <1>5, <2>1, <3>1, <3>2 DEF DocsInv
  <2>2. CASE u # s
    <3>1. build'.docs[u] = build.docs[u] /\ (u \notin build'.reading => u \notin build.reading)
      BY <1>1, <1>4, <2>2
    <3>2. IsAlive(u)' <=> IsAlive(u)
      BY <1>2, <3>1 DEF IsAlive
    <3> QED
      BY <1>0, <3>1, <3>2 DEF DocsInv
  <2> QED
    BY <2>1, <2>2
<1>7. TaskInv'
  BY <1>0, <1>1 DEF TaskInv
<1> QED
  BY <1>1, <1>6, <1>7, PhaseInv DEF BInv, Writing, Rendering

LEMMA CheckPhases ==
  ASSUME IInv, CacheInv, ReadCache \/ StatTemplates \/ ConvertBodies
  PROVE  BInv'
<1>0. /\ TaskInv /\ DocsInv /\ StatsInv /\ RowsInv /\ StampsInv /\ InputsAge /\ FilesInv
      /\ UNCHANGED inputs /\ cache' = cache /\ DOMAIN build = Fields
  BY MemoryStays
     DEF CacheInv, BInv, ReadCache, StatTemplates, ConvertBodies, IInv, MemoryInv, Memory, disk
<1>1. CASE ReadCache
  <2>1. /\ build'.pc = "stat" /\ build'.docs = build.docs /\ build'.reading = build.reading
        /\ build'.flags = build.flags /\ build'.asset = build.asset
        /\ build'.recipe = build.recipe
        /\ build'.rows = IF build.forced \/ cache.recipe # build.recipe THEN NoCache ELSE cache
    BY <1>0, <1>1, FieldsDef DEF ReadCache
  <2>2. RowsInv'
    BY <1>0, <2>1 DEF RowsInv
  <2>3. DocsInv' /\ TaskInv'
    BY <1>0, <2>1, DocsAge DEF TaskInv
  <2> QED
    BY <2>1, <2>2, <2>3, PhaseInv DEF BInv, Writing, Rendering
<1>2. CASE StatTemplates
  <2>1. /\ build.pc = "stat" /\ build'.pc = "convert"
        /\ build'.docs = build.docs /\ build'.reading = build.reading
        /\ build'.flags = build.flags /\ build'.asset = build.asset
        /\ build'.recipe = build.recipe /\ build'.rows = build.rows
        /\ build'.stats = TemplateStats
        /\ build'.fresh = [s \in Sources |->
             IF s \in Entries(build.docs)
             THEN FreshRows(build.rows, build.docs, s, TemplateStats) ELSE {}]
        /\ build'.aggregatesFresh = (TemplatesMatch(build.rows, TemplateStats)
                                     /\ EntriesMatch(build.rows, build.docs))
    BY <1>0, <1>2, FieldsDef DEF StatTemplates, TemplateStats
  <2>2. TemplateStats \in [Templates -> Known \cup {None}]
        /\ \A t \in Templates : TemplateStats[t] = None => template[t] = None
    BY <1>0, KnownStamps DEF TemplateStats, StampsInv, Stamp
  <2>3. StatsInv'
    BY <1>0, <2>1, <2>2 DEF StatsInv, inputs, Known
  <2>4. Entries(build'.docs) = Entries(build.docs) /\ Entries(build.docs) \subseteq Sources
    BY <2>1 DEF Entries
  <2>5. \A s \in Entries(build.docs) :
          build'.fresh[s] \subseteq FreshRows(build'.rows, build'.docs, s, build'.stats)
    BY <2>1, <2>4
  <2>6. RowsInv'
    BY <1>0, <2>1, <2>4, <2>5 DEF RowsInv
  <2>7. DocsInv' /\ TaskInv'
    BY <1>0, <2>1, DocsAge DEF TaskInv
  <2> QED
    BY <2>1, <2>3, <2>6, <2>7, PhaseInv DEF BInv, Rendering
<1>3. CASE ConvertBodies
  <2>1. /\ build.pc = "convert" /\ build'.pc \in {"empty", "ended"}
        /\ build'.docs = build.docs /\ build'.reading = build.reading
        /\ build'.flags = build.flags /\ build'.asset = build.asset
        /\ build'.recipe = build.recipe /\ build'.rows = build.rows
        /\ build'.stats = build.stats /\ build'.aggregatesFresh = build.aggregatesFresh
        /\ \A s \in Sources : build'.pc = "empty" => build'.fresh[s] \subseteq build.fresh[s]
    <3>1. CASE build.errors \/ IsRejected(build.docs, build.asset)
      BY <1>0, <1>3, <3>1, FieldsDef DEF ConvertBodies, End
    <3>2. CASE ~(build.errors \/ IsRejected(build.docs, build.asset))
      <4>1. build' = [build EXCEPT !.pc = "empty",
                        !.fresh = [s \in Sources |->
                                     IF s \in Entries(build.docs)
                                        /\ build.docs[s].body \in AssetLinkers
                                     THEN {} ELSE build.fresh[s]]]
        BY <1>3, <3>2 DEF ConvertBodies
      <4>2. build'.fresh = [s \in Sources |-> IF s \in Entries(build.docs)
                                                /\ build.docs[s].body \in AssetLinkers
                                             THEN {} ELSE build.fresh[s]]
        BY <1>0, <4>1, FieldsDef
      <4>3. \A s \in Sources : build'.fresh[s] \subseteq build.fresh[s]
        BY <4>2
      <4> QED
        BY <1>0, <1>3, <4>1, <4>3, FieldsDef DEF ConvertBodies
    <3> QED
      BY <3>1, <3>2
  <2>2. Entries(build'.docs) = Entries(build.docs) /\ Entries(build.docs) \subseteq Sources
    BY <2>1 DEF Entries
  <2>3. RowsInv'
    <3>1. build'.pc = "empty" =>
            \A s \in Entries(build.docs) :
              build'.fresh[s] \subseteq FreshRows(build'.rows, build'.docs, s, build'.stats)
      BY <1>0, <2>1, <2>2 DEF RowsInv
    <3> QED
      BY <1>0, <2>1, <2>2, <3>1 DEF RowsInv
  <2>4. DocsInv' /\ TaskInv' /\ StatsInv'
    BY <1>0, <2>1, DocsAge, StatsStay DEF TaskInv
  <2> QED
    BY <2>1, <2>3, <2>4, PhaseInv DEF BInv, Rendering
<1> QED
  BY <1>1, <1>2, <1>3

-----------------------------------------------------------------------------
(* From the empty cache to the new one. *)

(* The rows of the old cache, as the build matched them with its entries.   *)
LEMMA MatchedRows ==
  ASSUME IInv, CacheInv, build.pc = "empty", EntriesMatch(build.rows, build.docs),
         build.rows = cache, AreAllAlive
  PROVE  /\ AllVouch(cache.content)
         /\ AgreeOnEntries(Vouched(cache.content), build.docs)
<1>0. /\ StampsInv /\ DocsInv /\ IsFiniteSet(cache.content) /\ ~Collides(build.docs)
      /\ build.reading = {}
  BY DEF CacheInv, BInv, CInv, CacheTypeInv, IInv, CheckedInv, Writing, IsRejected
<1>1. \A r \in cache.content : \E s \in Entries(build.docs) : r.stamp = build.docs[s].stamp
  BY <1>0, EveryRowIsOfAnEntry DEF RowsOf
<1>2. \A s \in Entries(build.docs) : \E r \in cache.content : r.stamp = build.docs[s].stamp
  BY DEF EntriesMatch, RowsOf
<1>3. \A s \in Entries(build.docs) :
        s \in Sources /\ source[s] # None /\ build.docs[s] = source[s]
        /\ source[s].stamp = build.docs[s].stamp
  BY <1>0 DEF AreAllAlive, IsAlive, DocsInv, Entries
<1>4. AllVouch(cache.content)
  BY <1>1, <1>3 DEF AllVouch
<1> QED
  BY <1>0, <1>1, <1>2, <1>3, <1>4, VouchedEntries

LEMMA KeptPage ==
  ASSUME IInv, CacheInv, build.pc = "empty", NEW s \in Entries(build.docs),
         NEW row \in build.fresh[s]
  PROVE  IsPageSound(s, row.list)
<1> SUFFICES ASSUME IsAlive(s), build.docs[s].body \notin AssetLinkers,
                    build.stats = TemplateStats,
                    row.list \/ HasEntryLink(build.docs, s) => AreAllAlive,
                    tree[Page(s)] # None
             PROVE  /\ tree[Page(s)] = PageOf(build.docs, s, None, template, build.recipe)
                    /\ row.list \/ ~ReadsList(template, ContentTemplate)
  BY DEF IsPageSound
<1>0. /\ StampsInv /\ DocsInv /\ RowsInv /\ CachePagesInv /\ build.reading = {}
  BY DEF CacheInv, BInv, CInv, IInv, CheckedInv, Writing
<1>1. row \in FreshRows(build.rows, build.docs, s, build.stats)
  BY <1>0 DEF RowsInv
<1>2. /\ row \in build.rows.content /\ row.name = Page(s) /\ row.stamp = build.docs[s].stamp
      /\ TemplatesMatch(build.rows, build.stats)
      /\ row.list => EntriesMatch(build.rows, build.docs)
  BY <1>1 DEF FreshRows, RowsOf, Page
<1>3. build.rows = cache /\ cache.recipe = build.recipe
  BY <1>0, <1>2 DEF RowsInv, NoCache
<1>4. /\ s \in Sources /\ source[s] # None /\ source[s] = build.docs[s]
      /\ source[s].stamp = row.stamp
  BY <1>0, <1>2 DEF IsAlive, DocsInv, Entries
<1>5. row.list => /\ AllVouch(cache.content)
                  /\ AgreeOnEntries(Vouched(cache.content), build.docs)
  BY <1>2, <1>3, MatchedRows
<1>6. /\ tree[Page(s)] = PageOf(Vouched(cache.content), s, None, template, cache.recipe)
      /\ row.list \/ (~ReadsList(template, ContentTemplate) /\ ~HasEntryLink(source, s))
  BY <1>0, <1>2, <1>3, <1>4, <1>5 DEF CachePagesInv
<1>7. CASE row.list
  <2>1. s \in Entries(Vouched(cache.content))
    BY <1>5, <1>7 DEF AgreeOnEntries
  <2> QED
    BY <1>3, <1>5, <1>6, <1>7, <2>1, AgreeingPages
<1>8. CASE ~row.list
  <2>1. Vouched(cache.content)[s] = build.docs[s]
    BY <1>2, <1>3, <1>4 DEF Vouched
  <2>2. ~HasEntryLink(Vouched(cache.content), s)
    BY <1>4, <1>6, <1>8, <2>1 DEF HasEntryLink
  <2>3. PageOf(Vouched(cache.content), s, None, template, cache.recipe) =
          PageOf(build.docs, s, None, template, cache.recipe)
    BY <1>4, <1>6, <1>8, <2>1, <2>2, PlainPage
  <2> QED
    BY <1>3, <1>6, <1>8, <2>3
<1> QED
  BY <1>7, <1>8

LEMMA KeptIndexIsSound ==
  ASSUME IInv, CacheInv, build.pc = "empty", build.aggregatesFresh
  PROVE  IsIndexSound
<1> SUFFICES ASSUME build.stats = TemplateStats, AreAllAlive, tree[Index] # None
             PROVE  tree[Index] = IndexOf(build.docs, template, build.recipe)
  BY DEF IsIndexSound
<1>1. RowsInv /\ CacheIndexInv
  BY DEF CacheInv, BInv, CInv
<1>2. TemplatesMatch(build.rows, build.stats) /\ EntriesMatch(build.rows, build.docs)
  BY <1>1 DEF RowsInv
<1>3. build.rows = cache /\ cache.recipe = build.recipe
  BY <1>1, <1>2 DEF RowsInv, NoCache, TemplatesMatch
<1>4. AllVouch(cache.content) /\ AgreeOnEntries(Vouched(cache.content), build.docs)
  BY <1>2, <1>3, MatchedRows
<1> QED
  BY <1>1, <1>2, <1>3, <1>4, AgreeingPages DEF CacheIndexInv

(* What one step of the writing phases leaves to show. *)
LEMMA WritingKeeps ==
  ASSUME IInv, CacheInv, build.pc \in Writing, SameTask,
         DOMAIN build'.flags = DOMAIN build.flags, UNCHANGED inputs, DOMAIN tree' = Outputs
  PROVE  /\ StampsInv' /\ InputsAge /\ TaskInv' /\ DocsInv' /\ StatsInv'
         /\ Entries(build'.docs) = Entries(build.docs)
<1>1. StampsInv' /\ InputsAge
  BY StillAges DEF CacheInv
<1>2. TaskInv /\ DocsInv /\ StatsInv
  BY DEF CacheInv, BInv
<1>3. DocsInv' /\ StatsInv'
  BY <1>1, <1>2, DocsAge, StatsStay DEF SameTask, SameEntries
<1> QED
  BY <1>1, <1>2, <1>3 DEF TaskInv, SameTask, SameEntries, Entries

LEMMA EmptyCacheStep ==
  ASSUME IInv, CacheInv, EmptyCache
  PROVE  CacheInv'
<1>0. /\ build.pc = "empty" /\ build.pc \in Writing /\ UNCHANGED inputs /\ tree' = tree
      /\ DOMAIN build = Fields /\ StampsInv /\ CInv /\ DocsInv /\ StatsInv
      /\ cache' \in {cache, NoCache}
  BY DEF EmptyCache, Writing, IInv, MemoryInv, CacheInv, BInv
<1>1. /\ SameTask /\ build'.flags = build.flags
      /\ \/ build'.pc = "ended"
         \/ /\ build'.pc = "pages" /\ build'.todo = Entries(build.docs)
            /\ build.dry \/ cache' = NoCache
  <2> DEFINE pages == [build EXCEPT !.pc = "pages", !.todo = Entries(build.docs)]
  <2>1. CASE build' = pages /\ (build.dry \/ cache' = NoCache)
    BY <1>0, <2>1, FieldsDef DEF SameTask, SameEntries
  <2>2. CASE End("failed")
    BY <1>0, <2>2, FieldsDef DEF End, SameTask, SameEntries
  <2> QED
    BY <2>1, <2>2 DEF EmptyCache
<1>2. DOMAIN tree' = Outputs /\ OutputsGo
  BY <1>0 DEF StampsInv, OutputsGo
<1>3. StampsInv' /\ CInv'
  BY <1>0, <1>2, DiskStays
<1>4. /\ InputsAge /\ TaskInv' /\ DocsInv' /\ StatsInv'
      /\ Entries(build'.docs) = Entries(build.docs)
  BY <1>0, <1>1, <1>2, WritingKeeps
<1>5. PagesInv'
  <2> SUFFICES ASSUME build'.pc = "pages", ~build.dry PROVE PagesInv'
    BY <1>1 DEF PagesInv, Rendering, SameTask, SameEntries
  <2>1. ASSUME NEW s \in Entries(build.docs), NEW row \in build.fresh[s]
        PROVE  IsPageSound(s, row.list)'
    <3>1. s \in Sources /\ tree'[Page(s)] = tree[Page(s)]
      BY <1>0 DEF Entries
    <3> QED
      BY <1>0, <1>1, <1>4, <3>1, KeptPage, PageSoundAges
  <2>2. build.aggregatesFresh => IsIndexSound'
    BY <1>0, <1>1, <1>4, KeptIndexIsSound, IndexSoundAges
  <2>3. build'.fresh = build.fresh /\ build'.aggregatesFresh = build.aggregatesFresh
    BY <1>1 DEF SameTask
  <2> QED
    BY <1>0, <1>1, <1>4, <2>1, <2>2, <2>3 DEF PagesInv
<1>6. RowsInv'
  BY <1>1, PhaseInv
<1> QED
  BY <1>3, <1>4, <1>5, <1>6 DEF CacheInv, BInv

(* A step between the empty cache and the new one leaves the cache alone.   *)
LEMMA RenderingKeeps ==
  ASSUME IInv, CacheInv, build.pc \in Rendering, SameTask,
         DOMAIN build'.flags = DOMAIN build.flags, UNCHANGED inputs, DOMAIN tree' = Outputs,
         cache' = cache, build.dry => tree' = tree, build'.pc \in Rendering \cup {"ended"}
  PROVE  /\ StampsInv' /\ CInv' /\ TaskInv' /\ DocsInv' /\ StatsInv' /\ RowsInv' /\ InputsAge
         /\ Entries(build'.docs) = Entries(build.docs)
<1>0. build.pc \in Writing /\ StampsInv /\ CInv /\ PagesInv /\ build.dry \in BOOLEAN
  BY DEF Rendering, Writing, CacheInv, BInv, IInv, MemoryInv
<1>1. (cache' = cache /\ OutputsGo) \/ cache' = NoCache
  BY <1>0 DEF PagesInv, OutputsGo
<1>2. StampsInv' /\ CInv'
  BY <1>0, <1>1, DiskStays
<1>3. RowsInv'
  BY PhaseInv DEF Rendering
<1> QED
  BY <1>0, <1>2, <1>3, WritingKeeps

(* A page is kept or rendered: its job ends, and only its output changes.   *)
LEMMA PageStep ==
  ASSUME IInv, CacheInv, build.pc = "pages", build'.pc = "pages", SameTask, UNCHANGED inputs,
         DOMAIN tree' = Outputs, cache' = cache, build.dry => tree' = tree,
         NEW s \in Sources, s \in build.todo, build'.todo = build.todo \ {s},
         NEW list, build'.flags = [build.flags EXCEPT ![s] = list] \/ build'.errors,
         DOMAIN build'.flags = DOMAIN build.flags, build.errors => build'.errors,
         ~build.dry /\ ~build'.errors => IsPageSound(s, list)',
         \A o \in Outputs \ {Page(s)} : tree'[o] = tree[o]
  PROVE  CacheInv'
<1>0. build.pc \in Writing /\ build.pc \in Rendering /\ build'.pc \in Rendering
  BY DEF Writing, Rendering
<1>1. /\ StampsInv' /\ CInv' /\ TaskInv' /\ DocsInv' /\ StatsInv' /\ RowsInv' /\ InputsAge
      /\ Entries(build'.docs) = Entries(build.docs)
  BY <1>0, RenderingKeeps
<1>2. PagesInv'
  <2> SUFFICES ASSUME ~build.dry PROVE PagesInv'
    BY DEF PagesInv, SameTask, SameEntries
  <2>0. /\ PagesInv /\ StampsInv /\ DocsInv /\ StatsInv
        /\ build'.fresh = build.fresh /\ build'.aggregatesFresh = build.aggregatesFresh
        /\ DOMAIN build.flags = Sources
    BY DEF CacheInv, BInv, SameTask, TaskInv
  <2>1. cache = NoCache /\ build.todo \subseteq Entries(build.docs)
    BY <1>0, <2>0 DEF PagesInv
  <2>2. ASSUME NEW t \in Entries(build.docs), t # s
        PROVE  t \in Sources /\ tree'[Page(t)] = tree[Page(t)]
    BY <1>0, <2>0, <2>1, <2>2, PageIsOutput, PagesDiffer
  <2>3. ASSUME NEW t \in Entries(build.docs), t # s, NEW l, IsPageSound(t, l)
        PROVE  IsPageSound(t, l)'
    BY <1>0, <1>1, <2>0, <2>2, <2>3, PageSoundAges
  <2>4. IsIndexSound => IsIndexSound'
    <3>1. tree'[Index] = tree[Index]
      BY <1>0, <2>0, <2>1, PageIsOutput DEF Outputs
    <3> QED
      BY <1>0, <1>1, <2>0, <3>1, IndexSoundAges
  <2>5. ASSUME NEW t \in Entries(build.docs), t \in build'.todo, NEW row \in build'.fresh[t]
        PROVE  IsPageSound(t, row.list)'
    BY <1>0, <2>0, <2>3, <2>5 DEF PagesInv
  <2>6. ASSUME NEW t \in Entries(build.docs), t \notin build'.todo, ~build'.errors
        PROVE  IsPageSound(t, build.flags[t])'
    <3>1. build'.flags = [build.flags EXCEPT ![s] = list]
      BY <2>6
    <3>2. CASE t = s
      <4>1. build'.flags[t] = list
        BY <2>0, <3>1, <3>2
      <4> QED
        BY <2>6, <3>2, <4>1
    <3>3. CASE t # s
      <4>1. build'.flags[t] = build.flags[t] /\ t \notin build.todo /\ ~build.errors
        BY <2>0, <2>6, <3>1, <3>3
      <4>2. IsPageSound(t, build.flags[t])
        BY <1>0, <2>0, <4>1 DEF PagesInv
      <4> QED
        BY <2>3, <3>3, <4>1, <4>2
    <3> QED
      BY <3>2, <3>3
  <2> QED
    BY <1>0, <1>1, <2>0, <2>1, <2>4, <2>5, <2>6 DEF PagesInv
<1> QED
  BY <1>1, <1>2 DEF CacheInv, BInv

LEMMA KeepPageStep ==
  ASSUME IInv, CacheInv, NEW s \in Sources, KeepPage(s)
  PROVE  CacheInv'
<1>0. /\ build.pc = "pages" /\ build.pc \in Writing /\ s \in build.todo /\ UNCHANGED inputs
      /\ tree' = tree /\ cache' = cache /\ DOMAIN tree = Outputs
      /\ DOMAIN build = Fields /\ DOMAIN build.flags = Sources
      /\ StampsInv /\ DocsInv /\ StatsInv /\ PagesInv
  BY DEF KeepPage, Memory, disk, Writing, CacheInv, BInv, StampsInv, IInv, MemoryInv, TaskInv
<1>1. PICK row \in build.fresh[s] :
        build' = [build EXCEPT !.todo = @ \ {s}, !.kept = @ \cup {Page(s)},
                               !.flags[s] = row.list]
  BY DEF KeepPage
<1>2. /\ SameTask /\ build'.pc = "pages" /\ build'.todo = build.todo \ {s}
      /\ build'.errors = build.errors /\ build'.flags = [build.flags EXCEPT ![s] = row.list]
  BY <1>0, <1>1, FieldsDef DEF SameTask, SameEntries
<1>3. ~build.dry => IsPageSound(s, row.list)'
  <2> SUFFICES ASSUME ~build.dry PROVE IsPageSound(s, row.list)'
    OBVIOUS
  <2>1. IsPageSound(s, row.list)
    BY <1>0 DEF PagesInv, Rendering
  <2>2. InputsAge
    BY <1>0, StillAges
  <2>3. tree'[Page(s)] = tree[Page(s)]
    BY <1>0
  <2> QED
    BY <1>0, <1>2, <2>1, <2>2, <2>3, PageSoundAges
<1> QED
  BY <1>0, <1>2, <1>3, PageStep

LEMMA Written ==
  ASSUME NEW o \in Outputs, NEW value, NEW ok \in BOOLEAN, WriteOutput(o, value, ok),
         DOMAIN tree = Outputs, build.dry \in BOOLEAN
  PROVE  /\ DOMAIN tree' = Outputs
         /\ \A p \in Outputs \ {o} : tree'[p] = tree[p]
         /\ build.dry => ok /\ tree' = tree
         /\ ok /\ ~build.dry => tree'[o] = value
BY DEF WriteOutput

LEMMA RenderPageStep ==
  ASSUME IInv, CacheInv, NEW s \in Sources, RenderPage(s)
  PROVE  CacheInv'
<1>0. /\ build.pc = "pages" /\ build.pc \in Writing /\ s \in build.todo /\ UNCHANGED inputs
      /\ cache' = cache /\ DOMAIN tree = Outputs /\ build.dry \in BOOLEAN
      /\ DOMAIN build = Fields /\ DOMAIN build.flags = Sources
      /\ StampsInv /\ DocsInv /\ StatsInv /\ PagesInv
  BY DEF RenderPage, Memory, Writing, CacheInv, BInv, StampsInv, IInv, MemoryInv, TaskInv
<1>1. CASE RenderFails(template, ContentTemplate)
  <2>1. build' = [build EXCEPT !.todo = @ \ {s}, !.errors = TRUE] /\ tree' = tree
    BY <1>1 DEF RenderPage
  <2>2. /\ SameTask /\ build'.pc = "pages" /\ build'.todo = build.todo \ {s}
        /\ build'.errors /\ build'.flags = build.flags
    BY <1>0, <2>1, FieldsDef DEF SameTask, SameEntries
  <2>3. /\ DOMAIN tree' = Outputs /\ (build.dry => tree' = tree)
        /\ \A o \in Outputs \ {Page(s)} : tree'[o] = tree[o]
        /\ DOMAIN build'.flags = DOMAIN build.flags
    BY <1>0, <2>1, <2>2
  <2> QED
    BY <1>0, <2>2, <2>3, PageStep
<1>2. CASE ~RenderFails(template, ContentTemplate)
  <2> DEFINE page == PageOf(build.docs, s, build.asset, template, build.recipe)
  <2>0. PICK list \in BOOLEAN : list = ReadsList(template, ContentTemplate)
    BY DEF ReadsList
  <2>1. PICK ok \in BOOLEAN :
          /\ WriteOutput(Page(s), page, ok)
          /\ build' = [build EXCEPT !.todo = @ \ {s}, !.errors = @ \/ ~ok,
                         !.written = @ \cup {Page(s)}, !.flags[s] = list]
    BY <1>2, <2>0 DEF RenderPage
  <2>2. /\ SameTask /\ build'.pc = "pages" /\ build'.todo = build.todo \ {s}
        /\ build'.errors = (build.errors \/ ~ok)
        /\ build'.flags = [build.flags EXCEPT ![s] = list]
    BY <1>0, <2>1, FieldsDef DEF SameTask, SameEntries
  <2>3. CASE build.dry
    <3>1. tree' = tree
      BY <2>1, <2>3 DEF WriteOutput
    <3>2. DOMAIN tree' = Outputs /\ \A o \in Outputs \ {Page(s)} : tree'[o] = tree[o]
      BY <1>0, <3>1
    <3>3. DOMAIN build'.flags = DOMAIN build.flags
      BY <2>2
    <3> QED
      BY <1>0, <2>2, <2>3, <3>1, <3>2, <3>3, PageStep
  <2>4. CASE ~build.dry
    <3>1. s \in Entries(build.docs)
      BY <1>0, <2>4 DEF PagesInv, Rendering
    <3>2. Page(s) \in Outputs
      BY <1>0, <3>1, PageIsOutput
    <3>3. /\ DOMAIN tree' = Outputs /\ \A o \in Outputs \ {Page(s)} : tree'[o] = tree[o]
          /\ ok => tree'[Page(s)] = page
      BY <1>0, <2>1, <2>4, <3>2, Written
    <3>4. ok => IsPageSound(s, list)'
      <4>1. /\ build'.docs = build.docs /\ build'.recipe = build.recipe /\ template' = template
            /\ Page(s)' = Page(s)
        BY <1>0, <2>2 DEF SameTask, SameEntries, inputs, Page
      <4>2. build.docs[s].body \notin AssetLinkers =>
              page = PageOf(build.docs, s, None, template, build.recipe)
        BY AssetFree
      <4>3. list = ReadsList(template, ContentTemplate)'
        BY <2>0, <4>1 DEF ReadsList, Used
      <4> QED
        BY <3>3, <4>1, <4>2, <4>3 DEF IsPageSound
    <3>5. DOMAIN build'.flags = DOMAIN build.flags
      BY <2>2
    <3> QED
      BY <1>0, <2>2, <2>4, <3>3, <3>4, <3>5, PageStep
  <2> QED
    BY <1>0, <2>3, <2>4
<1> QED
  BY <1>1, <1>2

(* The steps after the pages change no page. *)
LEMMA TailStep ==
  ASSUME IInv, CacheInv, build.pc \in Rendering, build'.pc \in {"index", "copy", "rows", "ended"},
         SameTask, UNCHANGED inputs, DOMAIN tree' = Outputs, cache' = cache,
         build.dry => tree' = tree, build'.todo = build.todo, build'.errors = build.errors,
         build'.flags = build.flags,
         ~build.dry /\ build'.pc # "ended" => build.todo = {} /\ ~build.errors,
         \A o \in Pages : tree'[o] = tree[o],
         ~build.dry /\ build'.pc # "ended" /\ (build'.pc = "index" => build.aggregatesFresh) =>
           IsIndexSound'
  PROVE  CacheInv'
<1>0. /\ build.pc \in Writing /\ build'.pc \in Rendering \cup {"ended"}
      /\ PagesInv /\ StampsInv /\ DocsInv /\ StatsInv
  BY DEF Writing, Rendering, CacheInv, BInv
<1>1. /\ StampsInv' /\ CInv' /\ TaskInv' /\ DocsInv' /\ StatsInv' /\ RowsInv' /\ InputsAge
      /\ Entries(build'.docs) = Entries(build.docs)
  BY <1>0, RenderingKeeps
<1>2. PagesInv'
  <2> SUFFICES ASSUME ~build.dry, build'.pc # "ended" PROVE PagesInv'
    BY DEF PagesInv, SameTask, SameEntries, Rendering
  <2>1. cache = NoCache /\ build.todo = {} /\ ~build.errors
        /\ build'.fresh = build.fresh /\ build'.aggregatesFresh = build.aggregatesFresh
    BY <1>0 DEF PagesInv, SameTask
  <2>2. ASSUME NEW s \in Entries(build.docs) PROVE IsPageSound(s, build.flags[s])'
    <3>1. IsPageSound(s, build.flags[s])
      BY <1>0, <2>1 DEF PagesInv
    <3>2. s \in Sources /\ tree'[Page(s)] = tree[Page(s)]
      BY <1>0, PageIsOutput
    <3>3. PICK list : list = build.flags[s]
      OBVIOUS
    <3>4. IsPageSound(s, list)'
      BY <1>0, <1>1, <3>1, <3>2, <3>3, PageSoundAges
    <3> QED
      BY <3>3, <3>4
  <2> QED
    BY <1>0, <1>1, <2>1, <2>2 DEF PagesInv
<1> QED
  BY <1>1, <1>2 DEF CacheInv, BInv

(* What the tail of a build begins with. *)
LEMMA TailFacts ==
  ASSUME IInv, CacheInv, build.pc \in Rendering
  PROVE  /\ DOMAIN build = Fields /\ DOMAIN tree = Outputs /\ build.dry \in BOOLEAN
         /\ build.pc \in Writing /\ StampsInv /\ DocsInv /\ StatsInv /\ TaskInv
         /\ Pages \subseteq Outputs /\ Index \in Outputs \ Pages
         /\ ~build.dry =>
              /\ build.pc # "pages" => build.todo = {} /\ ~build.errors
              /\ (build.pc \in {"pages", "index"} => build.aggregatesFresh) => IsIndexSound
BY SiteAssumption
   DEF IInv, MemoryInv, CacheInv, BInv, StampsInv, Rendering, Writing, Outputs, PagesInv

LEMMA StillIndex ==
  ASSUME IInv, CacheInv, build.pc \in Rendering, SameTask, UNCHANGED inputs,
         DOMAIN tree' = Outputs, tree'[Index] = tree[Index], IsIndexSound
  PROVE  IsIndexSound'
BY TailFacts, StillAges, IndexSoundAges

LEMMA EndPagesStep ==
  ASSUME IInv, CacheInv, EndPages
  PROVE  CacheInv'
<1>0. /\ build.pc = "pages" /\ build.pc \in Rendering /\ build.todo = {}
      /\ UNCHANGED inputs /\ tree' = tree /\ cache' = cache
  BY DEF EndPages, Memory, disk, Rendering
<1>1. DOMAIN build = Fields
  BY <1>0, TailFacts
<1>2. /\ SameTask /\ build'.todo = build.todo /\ build'.errors = build.errors
      /\ build'.flags = build.flags /\ build'.pc \in {"index", "ended"}
      /\ build'.pc # "ended" => ~build.errors
  <2>1. CASE End("failed")
    BY <1>0, <1>1, <2>1, FieldsDef DEF End, SameTask, SameEntries
  <2>2. CASE ~build.errors /\ build' = [build EXCEPT !.pc = "index"]
    BY <1>0, <1>1, <2>2, FieldsDef DEF SameTask, SameEntries
  <2> QED
    BY <2>1, <2>2 DEF EndPages
<1>3. /\ DOMAIN tree' = Outputs /\ tree'[Index] = tree[Index]
      /\ \A o \in Pages : tree'[o] = tree[o]
  BY <1>0, TailFacts
<1>4. ~build.dry /\ build.aggregatesFresh => IsIndexSound'
  BY <1>0, <1>2, <1>3, TailFacts, StillIndex
<1> QED
  BY <1>0, <1>2, <1>3, <1>4, TailStep

LEMMA KeepIndexStep ==
  ASSUME IInv, CacheInv, KeepIndex
  PROVE  CacheInv'
<1>0. /\ build.pc = "index" /\ build.pc \in Rendering /\ build.aggregatesFresh
      /\ UNCHANGED inputs /\ tree' = tree /\ cache' = cache
  BY DEF KeepIndex, Memory, disk, Rendering
<1>1. DOMAIN build = Fields
  BY <1>0, TailFacts
<1>2. /\ SameTask /\ build'.todo = build.todo /\ build'.errors = build.errors
      /\ build'.flags = build.flags /\ build'.pc = "copy"
  BY <1>1, FieldsDef DEF KeepIndex, SameTask, SameEntries
<1>3. /\ DOMAIN tree' = Outputs /\ tree'[Index] = tree[Index]
      /\ \A o \in Pages : tree'[o] = tree[o]
  BY <1>0, TailFacts
<1>4. ~build.dry => IsIndexSound'
  BY <1>0, <1>2, <1>3, TailFacts, StillIndex
<1> QED
  BY <1>0, <1>2, <1>3, <1>4, TailFacts, TailStep

LEMMA RenderIndexStep ==
  ASSUME IInv, CacheInv, RenderIndex
  PROVE  CacheInv'
<1>0. /\ build.pc = "index" /\ build.pc \in Rendering
      /\ UNCHANGED inputs /\ cache' = cache
  BY DEF RenderIndex, Rendering
<1>1. DOMAIN build = Fields /\ DOMAIN tree = Outputs /\ build.dry \in BOOLEAN /\ Index \in Outputs
  BY <1>0, TailFacts
<1>2. CASE RenderFails(template, IndexTemplate)
  <2>1. End("failed") /\ tree' = tree
    BY <1>2 DEF RenderIndex
  <2>2. /\ SameTask /\ build'.todo = build.todo /\ build'.errors = build.errors
        /\ build'.flags = build.flags /\ build'.pc = "ended"
    BY <1>1, <2>1, FieldsDef DEF End, SameTask, SameEntries
  <2>3. DOMAIN tree' = Outputs /\ \A o \in Pages : tree'[o] = tree[o]
    BY <1>1, <2>1
  <2> QED
    BY <1>0, <2>1, <2>2, <2>3, TailStep
<1>3. CASE ~RenderFails(template, IndexTemplate)
  <2>1. PICK ok \in BOOLEAN :
          /\ WriteOutput(Index, IndexOf(build.docs, template, build.recipe), ok)
          /\ IF ok THEN build' = [build EXCEPT !.pc = "copy", !.written = @ \cup {Index}]
                   ELSE End("failed")
    BY <1>3 DEF RenderIndex
  <2>2. /\ SameTask /\ build'.todo = build.todo /\ build'.errors = build.errors
        /\ build'.flags = build.flags /\ build'.pc \in {"copy", "ended"}
        /\ build'.pc # "ended" => ok
    BY <1>1, <2>1, FieldsDef DEF End, SameTask, SameEntries
  <2>3. /\ DOMAIN tree' = Outputs /\ \A o \in Outputs \ {Index} : tree'[o] = tree[o]
        /\ build.dry => tree' = tree
        /\ ok /\ ~build.dry => tree'[Index] = IndexOf(build.docs, template, build.recipe)
    BY <1>1, <2>1, Written
  <2>4. ~build.dry /\ build'.pc # "ended" => IsIndexSound'
    <3>1. build'.docs = build.docs /\ build'.recipe = build.recipe /\ template' = template
      BY <1>0, <2>2 DEF SameTask, SameEntries, inputs
    <3> QED
      BY <2>2, <2>3, <3>1 DEF IsIndexSound
  <2>5. \A o \in Pages : tree'[o] = tree[o]
    BY <1>0, <2>3, TailFacts
  <2> QED
    BY <1>0, <2>2, <2>3, <2>4, <2>5, TailFacts, TailStep
<1> QED
  BY <1>2, <1>3

LEMMA CopyAssetStep ==
  ASSUME IInv, CacheInv, CopyAsset
  PROVE  CacheInv'
<1>0. /\ build.pc = "copy" /\ build.pc \in Rendering
      /\ UNCHANGED inputs /\ cache' = cache
  BY DEF CopyAsset, Rendering
<1>1. DOMAIN build = Fields /\ DOMAIN tree = Outputs /\ build.dry \in BOOLEAN
      /\ build.asset \in Assets \cup {None}
  BY <1>0, TailFacts DEF TaskInv
<1>2. /\ SameTask /\ build'.todo = build.todo /\ build'.errors = build.errors
      /\ build'.flags = build.flags /\ build'.pc \in {"rows", "ended"}
  <2>1. CASE End("failed")
    BY <1>1, <2>1, FieldsDef DEF End, SameTask, SameEntries
  <2>2. CASE build' = [build EXCEPT !.pc = "rows"]
    BY <1>1, <2>2, FieldsDef DEF SameTask, SameEntries
  <2>3. CASE build' = [build EXCEPT !.pc = "rows", !.written = @ \cup {build.asset}]
    BY <1>1, <2>3, FieldsDef DEF SameTask, SameEntries
  <2> QED
    BY <2>1, <2>2, <2>3 DEF CopyAsset
<1>3. /\ DOMAIN tree' = Outputs /\ (build.dry => tree' = tree)
      /\ \A o \in Pages \cup {Index} : tree'[o] = tree[o]
  <2>1. CASE tree' = tree
    BY <1>1, <2>1
  <2>2. ASSUME NEW ok \in BOOLEAN, build.asset # None,
               WriteOutput(build.asset, CopyOf(build.asset), ok)
        PROVE  /\ DOMAIN tree' = Outputs /\ (build.dry => tree' = tree)
               /\ \A o \in Pages \cup {Index} : tree'[o] = tree[o]
    <3>1. build.asset \in Assets /\ build.asset \in Outputs
      BY <1>1, <2>2 DEF Outputs
    <3>2. /\ DOMAIN tree' = Outputs /\ (build.dry => tree' = tree)
          /\ \A o \in Outputs \ {build.asset} : tree'[o] = tree[o]
      BY <1>1, <2>2, <3>1, Written
    <3> QED
      BY <3>1, <3>2, SiteAssumption DEF Outputs
  <2> QED
    BY <2>1, <2>2 DEF CopyAsset
<1>4. ~build.dry => IsIndexSound'
  BY <1>0, <1>2, <1>3, TailFacts, StillIndex
<1> QED
  BY <1>0, <1>2, <1>3, <1>4, TailFacts, TailStep

-----------------------------------------------------------------------------
(* The new cache. *)
LEMMA RowFields ==
  /\ Rows.recipe = build.recipe /\ Rows.templates = TemplateRows(build.stats)
  /\ Rows.content = {[name  |-> Page(s), stamp |-> build.docs[s].stamp,
                      list  |-> build.flags[s] \/ HasEntryLink(build.docs, s)] :
                        s \in Entries(build.docs)}
BY DEF Rows

LEMMA RowOfEntry ==
  ASSUME NEW s \in Entries(build.docs)
  PROVE  \E r \in Rows.content :
           /\ r.name = Page(s) /\ r.stamp = build.docs[s].stamp
           /\ r.list = (build.flags[s] \/ HasEntryLink(build.docs, s))
<1> DEFINE row == [name  |-> Page(s), stamp |-> build.docs[s].stamp,
                   list  |-> build.flags[s] \/ HasEntryLink(build.docs, s)]
<1>1. row \in Rows.content
  BY RowFields
<1> QED
  BY <1>1

LEMMA FiniteRows == IsFiniteSet(Rows.content)
<1> DEFINE row == [s \in Entries(build.docs) |->
                     [name  |-> Page(s), stamp |-> build.docs[s].stamp,
                      list  |-> build.flags[s] \/ HasEntryLink(build.docs, s)]]
<1>1. row \in Surjection(Entries(build.docs), Rows.content)
  BY RowFields DEF Surjection
<1> QED
  BY <1>1, FiniteEntries, FS_Surjection

LEMMA NewCacheTypes ==
  ASSUME IInv, CacheInv, build.pc = "rows", ~build.dry, UNCHANGED inputs, cache' = Rows
  PROVE  CacheTypeInv'
<1>0. StatsInv /\ DocsInv /\ build.pc \in Writing /\ Known' = Known /\ template' = template
  BY DEF CacheInv, BInv, Writing, inputs, Known
<1>1. ASSUME NEW r \in Rows.content
      PROVE  r.stamp \in Known \cup {None} /\ r.name \in Pages
  <2>1. PICK s \in Entries(build.docs) : r.name = Page(s) /\ r.stamp = build.docs[s].stamp
    BY RowFields
  <2> QED
    BY <1>0, <2>1, PageIsOutput DEF DocsInv, Entries
<1>2. \A r \in Rows.templates : r.stamp \in Known
  BY <1>0, RowFields DEF TemplateRows, StatsInv
<1>3. ASSUME NEW t \in Templates, template[t] # None
      PROVE  \E r \in Rows.templates : r.name = t
  <2>1. build.stats[t] # None
    BY <1>0, <1>3 DEF StatsInv
  <2>2. [name |-> t, stamp |-> build.stats[t]] \in Rows.templates
    BY <2>1, RowFields DEF TemplateRows
  <2> QED
    BY <2>2
<1> QED
  BY <1>0, <1>1, <1>2, <1>3, FiniteRows DEF CacheTypeInv

LEMMA NewRowsMatch ==
  ASSUME IInv, CacheInv, build.pc = "rows", TemplatesMatch(Rows, TemplateStats)
  PROVE  build.stats = TemplateStats
<1>1. build.stats \in [Templates -> Known \cup {None}]
  BY DEF CacheInv, BInv, StatsInv, Writing
<1>2. TemplateRows(build.stats) = TemplateRows(TemplateStats)
  BY RowFields DEF TemplatesMatch
<1>3. TemplateStats = [t \in Templates |-> TemplateStats[t]]
  BY DEF TemplateStats
<1> QED
  BY <1>1, <1>2, <1>3, RowsTellStats

LEMMA NewRowsVouch ==
  ASSUME IInv, CacheInv, build.pc = "rows", AllVouch(Rows.content)
  PROVE  AreAllAlive /\ AgreeOnEntries(Vouched(Rows.content), build.docs)
<1>0. StampsInv /\ DocsInv /\ build.reading = {}
  BY DEF CacheInv, BInv, IInv, CheckedInv, Writing
<1>1. ASSUME NEW s \in Entries(build.docs) PROVE IsAlive(s)
  <2>1. \E r \in Rows.content : r.stamp = build.docs[s].stamp
    BY RowOfEntry
  <2>2. PICK t \in Sources : source[t] # None /\ source[t].stamp = build.docs[s].stamp
    BY <2>1 DEF AllVouch
  <2>3. s \in Sources /\ build.docs[s] # None
    BY DEF Entries
  <2> QED
    BY <1>0, <2>2, <2>3 DEF DocsInv, IsAlive
<1>2. \A s \in Entries(build.docs) : source[s] # None /\ build.docs[s] = source[s]
  BY <1>0, <1>1 DEF DocsInv, IsAlive, Entries
<1>3. \A r \in Rows.content : \E s \in Entries(build.docs) : r.stamp = build.docs[s].stamp
  BY RowFields
<1>4. \A s \in Entries(build.docs) : \E r \in Rows.content : r.stamp = build.docs[s].stamp
  BY RowOfEntry
<1> QED
  BY <1>0, <1>1, <1>2, <1>3, <1>4, VouchedEntries DEF AreAllAlive

LEMMA NewCachePages ==
  ASSUME IInv, CacheInv, build.pc = "rows", ~build.dry, TemplatesMatch(Rows, TemplateStats),
         NEW r \in Rows.content, NEW s \in Sources,
         source[s] # None, source[s].stamp = r.stamp, source[s].body \notin AssetLinkers,
         r.list => AllVouch(Rows.content), tree[r.name] # None
  PROVE  /\ tree[r.name] = PageOf(Vouched(Rows.content), s, None, template, Rows.recipe)
         /\ r.list \/ (~ReadsList(template, ContentTemplate) /\ ~HasEntryLink(source, s))
<1>0. /\ DocsInv /\ PagesInv /\ build.reading = {} /\ build.stats = TemplateStats
      /\ build.pc \in Rendering /\ Rows.recipe = build.recipe
  BY NewRowsMatch, RowFields DEF CacheInv, BInv, IInv, CheckedInv, Writing, Rendering
<1>1. PICK u \in Entries(build.docs) :
        /\ r.name = Page(u) /\ r.stamp = build.docs[u].stamp
        /\ r.list = (build.flags[u] \/ HasEntryLink(build.docs, u))
  BY RowFields
<1>2. u \in Sources /\ build.docs[u] # None
  BY DEF Entries
<1>3. u = s
  BY <1>0, <1>1, <1>2 DEF DocsInv
<1>4. IsAlive(s) /\ source[s] = build.docs[s]
  BY <1>0, <1>1, <1>2, <1>3 DEF IsAlive, DocsInv
<1>5. r.list => AreAllAlive /\ AgreeOnEntries(Vouched(Rows.content), build.docs)
  BY NewRowsVouch
<1>6. IsPageSound(s, build.flags[s])
  BY <1>0, <1>1, <1>3 DEF PagesInv
<1>7. /\ tree[r.name] = PageOf(build.docs, s, None, template, build.recipe)
      /\ build.flags[s] \/ ~ReadsList(template, ContentTemplate)
  BY <1>0, <1>1, <1>3, <1>4, <1>5, <1>6 DEF IsPageSound
<1>8. CASE r.list
  <2>1. s \in Entries(Vouched(Rows.content))
    BY <1>1, <1>3, <1>5, <1>8 DEF AgreeOnEntries
  <2> QED
    BY <1>0, <1>5, <1>7, <1>8, <2>1, AgreeingPages
<1>9. CASE ~r.list
  <2>1. ~build.flags[s] /\ ~HasEntryLink(build.docs, s)
    BY <1>1, <1>3, <1>9
  <2>2. Vouched(Rows.content)[s] = build.docs[s]
    BY <1>4 DEF Vouched
  <2>3. PageOf(build.docs, s, None, template, build.recipe) =
          PageOf(Vouched(Rows.content), s, None, template, build.recipe)
    BY <1>7, <2>1, <2>2, PlainPage
  <2>4. ~HasEntryLink(source, s)
    BY <1>4, <2>1 DEF HasEntryLink
  <2> QED
    BY <1>0, <1>7, <2>1, <2>3, <2>4
<1> QED
  BY <1>8, <1>9

LEMMA NewCacheIndex ==
  ASSUME IInv, CacheInv, build.pc = "rows", ~build.dry, TemplatesMatch(Rows, TemplateStats),
         AllVouch(Rows.content), tree[Index] # None
  PROVE  tree[Index] = IndexOf(Vouched(Rows.content), template, Rows.recipe)
<1>1. /\ build.stats = TemplateStats /\ Rows.recipe = build.recipe
      /\ AreAllAlive /\ AgreeOnEntries(Vouched(Rows.content), build.docs)
  BY NewRowsMatch, NewRowsVouch, RowFields
<1>2. IsIndexSound
  BY TailFacts DEF Rendering
<1> QED
  BY <1>1, <1>2, AgreeingPages DEF IsIndexSound

LEMMA NewCacheSound ==
  ASSUME IInv, CacheInv, build.pc = "rows", ~build.dry, UNCHANGED inputs, tree' = tree,
         cache' = Rows
  PROVE  CInv'
<1>1. source' = source /\ template' = template
  BY DEF inputs
<1>2. /\ Vouched(cache.content)' = Vouched(Rows.content)
      /\ AllVouch(cache.content)' <=> AllVouch(Rows.content)
      /\ TemplatesMatch(cache, TemplateStats)' <=> TemplatesMatch(Rows, TemplateStats)
  BY <1>1 DEF Vouched, AllVouch, TemplatesMatch, TemplateStats
<1>3. CachePagesInv'
  <2> SUFFICES ASSUME TemplatesMatch(cache, TemplateStats)',
                      NEW r \in cache'.content, NEW s \in Sources,
                      source'[s] # None, source'[s].stamp = r.stamp,
                      source'[s].body \notin AssetLinkers,
                      r.list => AllVouch(cache.content)', tree'[r.name] # None
               PROVE  /\ tree'[r.name] =
                           PageOf(Vouched(cache.content)', s, None, template', cache'.recipe)
                      /\ r.list \/ (~ReadsList(template', ContentTemplate)
                                    /\ ~HasEntryLink(source', s))
    BY DEF CachePagesInv
  <2> QED
    BY <1>1, <1>2, NewCachePages
<1>4. CacheIndexInv'
  BY <1>1, <1>2, NewCacheIndex DEF CacheIndexInv
<1> QED
  BY <1>3, <1>4, NewCacheTypes DEF CInv

(* The ends of a build keep what the cache vouches for. *)
LEMMA EndStep ==
  ASSUME IInv, CacheInv, UNCHANGED inputs, DOMAIN tree' = Outputs, OutputsGo, CInv',
         \/ build' = NoBuild
         \/ /\ build.pc \in Writing /\ SameTask /\ build'.flags = build.flags
            /\ build'.pc \in {"prune", "ended"}
  PROVE  CacheInv'
<1>1. StampsInv' /\ InputsAge
  BY StillAges DEF CacheInv
<1>2. CASE build' = NoBuild
  <2>1. /\ build'.pc = "idle" /\ build'.docs = [s \in Sources |-> None]
        /\ build'.flags = [s \in Sources |-> FALSE] /\ build'.asset = None
    BY <1>2 DEF NoBuild
  <2>2. DocsInv' /\ TaskInv'
    BY <2>1 DEF DocsInv, TaskInv
  <2> QED
    BY <1>1, <2>1, <2>2, PhaseInv DEF CacheInv, BInv, Writing, Rendering
<1>3. CASE /\ build.pc \in Writing /\ SameTask /\ build'.flags = build.flags
           /\ build'.pc \in {"prune", "ended"}
  <2>1. TaskInv' /\ DocsInv' /\ StatsInv'
    BY <1>3, WritingKeeps
  <2>2. RowsInv' /\ PagesInv'
    BY <1>3, PhaseInv DEF Rendering
  <2> QED
    BY <1>1, <2>1, <2>2 DEF CacheInv, BInv
<1> QED
  BY <1>2, <1>3

LEMMA WriteCacheStep ==
  ASSUME PlainEdits, IInv, CacheInv, WriteCache
  PROVE  CacheInv'
<1>0. /\ build.pc = "rows" /\ build.pc \in Rendering /\ build.pc \in Writing
      /\ UNCHANGED inputs /\ tree' = tree /\ StampsInv /\ CInv
  BY DEF WriteCache, Rendering, Writing, CacheInv
<1>1. DOMAIN build = Fields /\ DOMAIN tree' = Outputs /\ OutputsGo
  BY <1>0, TailFacts DEF OutputsGo
<1>2. \/ cache' = cache \/ cache' = NoCache \/ (~build.dry /\ cache' = Rows)
  BY DEF WriteCache, PlainEdits
<1>3. CInv'
  BY <1>0, <1>1, <1>2, DiskStays, NewCacheSound
<1>4. SameTask /\ build'.flags = build.flags /\ build'.pc \in {"prune", "ended"}
  <2>1. CASE End("failed")
    BY <1>1, <2>1, FieldsDef DEF End, SameTask, SameEntries
  <2> DEFINE stale == {o \in Outputs : tree[o] # None} \ Manifest(build.docs, build.asset)
  <2>2. CASE build' = [build EXCEPT !.pc = "prune", !.todo = stale]
    BY <1>1, <2>2, FieldsDef DEF SameTask, SameEntries
  <2> QED
    BY <2>1, <2>2 DEF WriteCache
<1> QED
  BY <1>0, <1>1, <1>3, <1>4, EndStep

LEMMA RemoveStaleStep ==
  ASSUME IInv, CacheInv, NEW o \in Outputs, RemoveStale(o)
  PROVE  CacheInv'
<1>0. /\ build.pc = "prune" /\ build.pc \in Writing /\ UNCHANGED inputs /\ cache' = cache
      /\ StampsInv /\ CInv /\ DOMAIN build = Fields /\ DOMAIN tree = Outputs
  BY DEF RemoveStale, Writing, CacheInv, StampsInv, IInv, MemoryInv
<1>1. tree' = tree \/ tree' = [tree EXCEPT ![o] = None]
  BY DEF RemoveStale
<1>2. DOMAIN tree' = Outputs /\ OutputsGo
  BY <1>0, <1>1 DEF OutputsGo
<1>3. SameTask /\ build'.flags = build.flags /\ build'.pc = "prune"
  <2>1. CASE build' = [build EXCEPT !.todo = @ \ {o}, !.removed = @ \cup {o}]
    BY <1>0, <2>1, FieldsDef DEF SameTask, SameEntries
  <2>2. CASE build' = [build EXCEPT !.todo = @ \ {o}, !.errors = TRUE]
    BY <1>0, <2>2, FieldsDef DEF SameTask, SameEntries
  <2> QED
    BY <2>1, <2>2 DEF RemoveStale
<1>4. CInv'
  BY <1>0, <1>2, DiskStays
<1> QED
  BY <1>0, <1>2, <1>3, <1>4, EndStep

LEMMA LeaveStep ==
  ASSUME IInv, CacheInv, EndPrune \/ Exit \/ Crash
  PROVE  CacheInv'
<1>0. /\ UNCHANGED inputs /\ cache' = cache /\ tree' = tree
      /\ StampsInv /\ CInv /\ DOMAIN build = Fields
  BY DEF EndPrune, Exit, Crash, Memory, disk, CacheInv, IInv, MemoryInv
<1>1. DOMAIN tree' = Outputs /\ OutputsGo
  BY <1>0 DEF OutputsGo, StampsInv
<1>2. CInv'
  BY <1>0, <1>1, DiskStays
<1>3. CASE EndPrune
  <2>1. /\ build.pc \in Writing /\ SameTask /\ build'.flags = build.flags
        /\ build'.pc \in {"prune", "ended"}
    BY <1>0, <1>3, FieldsDef DEF EndPrune, End, SameTask, SameEntries, Writing
  <2> QED
    BY <1>0, <1>1, <1>2, <2>1, EndStep
<1>4. CASE Exit \/ Crash
  BY <1>0, <1>1, <1>2, <1>4, EndStep DEF Exit, Crash
<1> QED
  BY <1>3, <1>4

-----------------------------------------------------------------------------
LEMMA InitCacheInv == Init => CacheInv
<1> SUFFICES ASSUME Init PROVE CacheInv
  OBVIOUS
<1>1. PICK start \in Starts : source = start.source /\ template = start.template
  BY DEF Init
<1>2. /\ source \in [Sources -> Docs \cup {None}]
      /\ \A s \in Sources : source[s] # None =>
           /\ source[s].stamp \in FirstStamps /\ source[s].body \in Bodies
           /\ \A t \in Sources \ {s} : source[t] # None => source[t].stamp # source[s].stamp
      /\ template \in [Templates -> [stamp : FirstStamps, body : TemplateBodies] \cup {None}]
  BY <1>1, SiteBuildAssumption DEF IsFirstSite
<1>3. source \in [Sources -> Files \cup {None}]
  <2>1. ASSUME NEW s \in Sources PROVE source[s] \in Files \cup {None}
    BY <1>2 DEF Docs, Files, Stamps
  <2> QED
    BY <1>2, <2>1
<1>4. StampsInv
  BY <1>2, <1>3 DEF Init, StampsInv, Known
<1>5. CInv
  <2>1. cache.content = {} /\ cache.templates = {}
    BY DEF Init, NoCache
  <2>2. IsFiniteSet(cache.content) /\ ~TemplatesMatch(cache, TemplateStats)
    BY <2>1, FS_EmptySet DEF TemplatesMatch
  <2> QED
    BY <2>1, <2>2 DEF CInv, CacheTypeInv, CachePagesInv, CacheIndexInv
<1>6. BInv
  BY DEF Init, NoBuild, BInv, TaskInv, DocsInv, StatsInv, RowsInv, PagesInv, Writing, Rendering
<1> QED
  BY <1>4, <1>5, <1>6 DEF CacheInv

LEMMA BuildCacheStep ==
  ASSUME PlainEdits, IInv, CacheInv, Start \/ Build \/ Crash
  PROVE  CacheInv'
<1>1. ASSUME Memory, BInv' PROVE CacheInv'
  BY <1>1, MemoryStays DEF CacheInv
<1>2. CASE Start \/ WalkInputs
  BY <1>1, <1>2, BeginStep DEF Start, WalkInputs
<1>3. CASE ReadCache \/ StatTemplates \/ ConvertBodies
  BY <1>1, <1>3, CheckPhases DEF ReadCache, StatTemplates, ConvertBodies
<1>4. ASSUME NEW s \in Sources, StatSource(s) \/ ReadSource(s) PROVE CacheInv'
  BY <1>1, <1>4, StatSourceDocs, ReadSourceDocs DEF StatSource, ReadSource
<1>5. ASSUME NEW s \in Sources, KeepPage(s) \/ RenderPage(s) PROVE CacheInv'
  BY <1>5, KeepPageStep, RenderPageStep
<1>6. CASE EmptyCache \/ EndPages \/ KeepIndex \/ RenderIndex \/ CopyAsset \/ WriteCache
  BY <1>6, EmptyCacheStep, EndPagesStep, KeepIndexStep, RenderIndexStep, CopyAssetStep,
     WriteCacheStep
<1>7. CASE (\E o \in Outputs : RemoveStale(o)) \/ EndPrune \/ Exit \/ Crash
  BY <1>7, RemoveStaleStep, LeaveStep
<1> QED
  BY <1>2, <1>3, <1>4, <1>5, <1>6, <1>7 DEF Build

LEMMA StutterCacheInv ==
  ASSUME CacheInv, IInv, UNCHANGED vars
  PROVE  CacheInv'
<1>1. /\ source' = source /\ template' = template /\ asset' = asset /\ clock' = clock
      /\ tree' = tree /\ cache' = cache /\ build' = build
  BY DEF vars, inputs, disk
<1>2. UNCHANGED inputs
  BY DEF vars
<1>3. DOMAIN tree' = Outputs /\ OutputsGo
  BY <1>1 DEF CacheInv, StampsInv, OutputsGo
<1>4. SameWork
  BY <1>1 DEF SameWork, SameTask, SameEntries, IInv, MemoryInv
<1> QED
  BY <1>1, <1>2, <1>3, <1>4, DiskStays, StillAges, BuildAges DEF CacheInv

(* What the cache and a build know of the outputs is true, in every state.  *)
THEOREM CacheKnows == PlainEdits => (Spec => []CacheInv)
<1>1. PlainEdits /\ IInv /\ CacheInv /\ [Next]_vars => CacheInv'
  BY UserCacheStep, BuildCacheStep, StutterCacheInv DEF Next
<1>2. PlainEdits => PlainEdits'
  BY DEF PlainEdits
<1> QED
  BY <1>1, <1>2, InitCacheInv, Consistent, PTL DEF Spec

(* The rows that match the files vouch for what is in output_dir. *)
LEMMA InvGivesSound == CacheInv => CacheSound
<1> SUFFICES ASSUME CacheInv, cache.recipe = config, ~IsRejected(source, asset)
             PROVE  /\ \A s \in Entries(source) :
                         /\ FreshRows(cache, source, s, TemplateStats) # {}
                         /\ source[s].body \notin AssetLinkers
                         /\ tree[Out(source, s)] # None
                         => tree[Out(source, s)] = PageOf(source, s, asset, template, config)
                    /\ TemplatesMatch(cache, TemplateStats) /\ EntriesMatch(cache, source)
                       /\ tree[Index] # None
                         => tree[Index] = IndexOf(source, template, config)
  BY DEF CacheSound, TemplateStats
<1>0. /\ StampsInv /\ CachePagesInv /\ CacheIndexInv /\ IsFiniteSet(cache.content)
      /\ ~Collides(source)
  BY DEF CacheInv, CInv, CacheTypeInv, IsRejected
<1>1. ASSUME EntriesMatch(cache, source)
      PROVE  AllVouch(cache.content) /\ AgreeOnEntries(Vouched(cache.content), source)
  <2>1. \A r \in cache.content : \E s \in Entries(source) : r.stamp = source[s].stamp
    BY <1>0, <1>1, EveryRowIsOfAnEntry DEF RowsOf
  <2>2. \A s \in Entries(source) : \E r \in cache.content : r.stamp = source[s].stamp
    BY <1>1 DEF EntriesMatch, RowsOf
  <2>3. \A s \in Entries(source) : s \in Sources /\ source[s] # None
    BY DEF Entries
  <2>4. AllVouch(cache.content)
    BY <2>1, <2>3 DEF AllVouch
  <2> QED
    BY <1>0, <2>1, <2>2, <2>3, <2>4, VouchedEntries
<1>2. ASSUME NEW s \in Entries(source), NEW r \in FreshRows(cache, source, s, TemplateStats),
             source[s].body \notin AssetLinkers, tree[Out(source, s)] # None
      PROVE  tree[Out(source, s)] = PageOf(source, s, asset, template, config)
  <2>1. /\ r \in cache.content /\ r.name = Out(source, s) /\ r.stamp = source[s].stamp
        /\ TemplatesMatch(cache, TemplateStats) /\ (r.list => EntriesMatch(cache, source))
        /\ s \in Sources /\ source[s] # None
    BY <1>2 DEF FreshRows, RowsOf, Entries
  <2>2. r.list => AllVouch(cache.content) /\ AgreeOnEntries(Vouched(cache.content), source)
    BY <1>1, <2>1
  <2>3. /\ tree[r.name] = PageOf(Vouched(cache.content), s, None, template, cache.recipe)
        /\ r.list \/ (~ReadsList(template, ContentTemplate) /\ ~HasEntryLink(source, s))
    BY <1>0, <1>2, <2>1, <2>2 DEF CachePagesInv
  <2>4. PageOf(Vouched(cache.content), s, None, template, config) =
          PageOf(source, s, None, template, config)
    <3>1. CASE r.list
      <4>1. s \in Entries(Vouched(cache.content))
        BY <1>2, <2>2, <3>1 DEF AgreeOnEntries
      <4> QED
        BY <2>2, <3>1, <4>1, AgreeingPages
    <3>2. CASE ~r.list
      <4>1. Vouched(cache.content)[s] = source[s]
        BY <2>1 DEF Vouched
      <4>2. ~HasEntryLink(Vouched(cache.content), s)
        BY <2>3, <3>2, <4>1 DEF HasEntryLink
      <4> QED
        BY <2>1, <2>3, <3>2, <4>1, <4>2, PlainPage
    <3> QED
      BY <3>1, <3>2
  <2>5. PageOf(source, s, asset, template, config) = PageOf(source, s, None, template, config)
    BY <1>2, AssetFree
  <2> QED
    BY <2>1, <2>3, <2>4, <2>5
<1>3. ASSUME TemplatesMatch(cache, TemplateStats), EntriesMatch(cache, source),
             tree[Index] # None
      PROVE  tree[Index] = IndexOf(source, template, config)
  BY <1>0, <1>1, <1>3, AgreeingPages DEF CacheIndexInv
<1> QED
  BY <1>2, <1>3

(* For every site, and any number of edits, faults and crashes at any       *)
(* moment: what a build that started now would keep is current (the rules   *)
(* of domain/build_cache.h and app/cmd_build.c for a page that is kept).    *)
THEOREM CacheStaysSound == PlainEdits => (Spec => []CacheSound)
BY CacheKnows, InvGivesSound, PTL

-----------------------------------------------------------------------------
(* A build that nothing disturbs.  What it read is what is there, and each  *)
(* output it is done with is what a build of everything would have made.    *)
TreeInv == tree = [o \in Outputs |-> tree[o]]

UndisturbedInv ==
  build.quiet =>
    /\ build.recipe = config
    /\ build.pc = "walk" => \A s \in Sources : build.docs[s] = None
    /\ build.pc # "walk" => build.asset = asset
    /\ build.pc = "parse" =>
         \A s \in Sources :
           /\ s \in build.todo \cup build.reading => source[s] # None
           /\ s \in build.reading => build.docs[s].stamp = source[s].stamp
           /\ s \notin build.todo \cup build.reading => build.docs[s] = source[s]
    /\ build.pc \in {"stat", "convert"} \cup Writing => build.docs = source
    /\ build.pc \in {"convert"} \cup Writing => build.stats = TemplateStats

(* A page that links the asset is never kept. *)
LinkersInv ==
  build.pc \in {"empty", "pages"} =>
    \A s \in Entries(build.docs) : build.docs[s].body \in AssetLinkers => build.fresh[s] = {}

IsPageDone(s) ==
  tree[Page(s)] = PageOf(build.docs, s, build.asset, template, build.recipe)

ArePagesDone == \A s \in Entries(build.docs) : IsPageDone(s)

IsIndexDone == tree[Index] = IndexOf(build.docs, template, build.recipe)

IsAssetDone == build.asset # None => tree[build.asset] = CopyOf(build.asset)

Claimed == Manifest(build.docs, build.asset)

(* The outputs that nothing claims are gone, or about to go. *)
IsRestStale ==
  /\ build.todo \subseteq Outputs \ Claimed
  /\ ~build.errors => \A o \in Outputs \ Claimed : tree[o] # None => o \in build.todo

DoneInv ==
  build.quiet /\ ~build.dry =>
    /\ build.pc = "pages" /\ ~build.errors =>
         \A s \in Entries(build.docs) \ build.todo : IsPageDone(s)
    /\ build.pc \in {"index", "copy", "rows", "prune"} => ArePagesDone
    /\ build.pc \in {"copy", "rows", "prune"} => IsIndexDone
    /\ build.pc \in {"rows", "prune"} => IsAssetDone
    /\ build.pc = "prune" => IsRestStale

QInv == TreeInv /\ UndisturbedInv /\ LinkersInv /\ DoneInv /\ BuildCorrect

(* Once its inputs are read, a build that is quiet knows them all. *)
LEMMA UndisturbedFacts ==
  ASSUME UndisturbedInv, build.quiet, build.pc \in Writing
  PROVE  /\ build.recipe = config /\ build.asset = asset /\ build.docs = source
         /\ build.stats = TemplateStats
BY DEF UndisturbedInv, Writing

LEMMA UndisturbedStays ==
  ASSUME UndisturbedInv, LinkersInv, SameTask, UNCHANGED inputs, build'.quiet = build.quiet,
         build.pc \in Writing, build'.pc \in Writing \cup {"ended"},
         build'.pc \in {"empty", "pages"} => build.pc \in {"empty", "pages"}
  PROVE  UndisturbedInv' /\ LinkersInv'
<1>1. /\ source' = source /\ template' = template /\ asset' = asset /\ config' = config
      /\ build'.docs = build.docs /\ build'.recipe = build.recipe /\ build'.stats = build.stats
      /\ build'.asset = build.asset /\ build'.fresh = build.fresh
  BY DEF SameTask, SameEntries, inputs
<1>2. TemplateStats' = TemplateStats /\ Entries(build'.docs) = Entries(build.docs)
  BY <1>1 DEF TemplateStats, Entries
<1>3. UndisturbedInv'
  <2>1. build.quiet => /\ build'.recipe = config' /\ build'.asset = asset'
                       /\ build'.docs = source' /\ build'.stats = TemplateStats'
    BY <1>1, <1>2, UndisturbedFacts
  <2>2. build'.pc # "walk" /\ build'.pc # "parse"
    BY DEF Writing
  <2> QED
    BY <2>1, <2>2 DEF UndisturbedInv
<1>4. LinkersInv'
  BY <1>1, <1>2 DEF LinkersInv
<1> QED
  BY <1>3, <1>4

(* Outputs that a step leaves alone stay done. *)
LEMMA DoneStays ==
  ASSUME SameTask, UNCHANGED inputs
  PROVE  /\ \A s \in Entries(build.docs) :
              tree'[Page(s)] = tree[Page(s)] /\ IsPageDone(s) => IsPageDone(s)'
         /\ Entries(build'.docs) = Entries(build.docs)
         /\ tree'[Index] = tree[Index] /\ IsIndexDone => IsIndexDone'
         /\ tree'[build.asset] = tree[build.asset] /\ IsAssetDone => IsAssetDone'
         /\ Claimed' = Claimed
<1>1. /\ template' = template /\ build'.docs = build.docs /\ build'.recipe = build.recipe
      /\ build'.asset = build.asset
  BY DEF SameTask, SameEntries, inputs
<1>2. \A s \in Entries(build.docs) : Page(s)' = Page(s)
  BY <1>1 DEF Page
<1>3. \A s \in Entries(build.docs) :
        tree'[Page(s)] = tree[Page(s)] /\ IsPageDone(s) => IsPageDone(s)'
  BY <1>1, <1>2 DEF IsPageDone
<1>4. /\ tree'[Index] = tree[Index] /\ IsIndexDone => IsIndexDone'
      /\ tree'[build.asset] = tree[build.asset] /\ IsAssetDone => IsAssetDone'
  BY <1>1 DEF IsIndexDone, IsAssetDone
<1> QED
  BY <1>1, <1>3, <1>4 DEF Claimed

(* All of the outputs that a build was done with are the tree of a full     *)
(* build of what it read.                                                   *)
LEMMA DoneIsFull ==
  ASSUME TreeInv, build.asset \in Assets \cup {None}, ArePagesDone, IsIndexDone, IsAssetDone,
         \A s \in Entries(build.docs) : Page(s) \in Pages,
         \A o \in Outputs \ Claimed : tree[o] = None
  PROVE  tree = FullTree(build.docs, build.asset, template, build.recipe)
<1> DEFINE full == FullTree(build.docs, build.asset, template, build.recipe)
<1>1. ASSUME NEW o \in Outputs PROVE tree[o] = full[o]
  <2>1. CASE o \notin Claimed
    BY <2>1 DEF FullTree, Claimed
  <2>2. CASE o \in Claimed /\ o = Index
    BY <2>2 DEF FullTree, Claimed, IsIndexDone
  <2>3. CASE o \in Claimed /\ o # Index /\ o \in Assets
    <3>1. full[o] = CopyOf(o)
      BY <2>3 DEF FullTree, Claimed
    <3>2. \A s \in Entries(build.docs) : Out(build.docs, s) \notin Assets
      BY SiteAssumption DEF Page
    <3>3. o = build.asset /\ o # None
      <4>1. o \in {build.asset} \ {None}
        BY <2>3, <3>2 DEF Claimed, Manifest
      <4> QED
        BY <4>1
    <3> QED
      BY <3>1, <3>3 DEF IsAssetDone
  <2>4. CASE o \in Claimed /\ o # Index /\ o \notin Assets
    <3> DEFINE s == CHOOSE u \in Entries(build.docs) : Out(build.docs, u) = o
    <3>1. \E u \in Entries(build.docs) : Out(build.docs, u) = o
      BY <2>4 DEF Claimed, Manifest
    <3>2. s \in Entries(build.docs) /\ Out(build.docs, s) = o
      BY <3>1
    <3> QED
      BY <2>4, <3>2 DEF FullTree, Claimed, ArePagesDone, IsPageDone, Page
  <2> QED
    BY <2>1, <2>2, <2>3, <2>4
<1>2. full = [o \in Outputs |-> full[o]]
  BY DEF FullTree
<1>3. tree = full
  <2> HIDE DEF full
  <2> QED
    BY <1>1, <1>2 DEF TreeInv
<1> QED
  BY <1>3

-----------------------------------------------------------------------------
(* The steps of the user, and those up to the first write.                  *)
LEMMA InitQInv == Init => QInv
<1> SUFFICES ASSUME Init PROVE QInv
  OBVIOUS
<1>1. tree = [o \in Outputs |-> None]
  BY DEF Init
<1>2. TreeInv
  BY <1>1 DEF TreeInv
<1>3. ~build.quiet /\ build.pc = "idle"
  BY DEF Init, NoBuild
<1> QED
  BY <1>2, <1>3 DEF QInv, UndisturbedInv, LinkersInv, DoneInv, BuildCorrect

(* A build that is disturbed promises nothing of its outputs. *)
LEMMA LoudIsCorrect ==
  ASSUME ~build'.quiet
  PROVE  UndisturbedInv' /\ DoneInv' /\ BuildCorrect'
BY DEF UndisturbedInv, DoneInv, BuildCorrect

LEMMA UserQStep ==
  ASSUME IInv, QInv, User
  PROVE  QInv'
<1>1. Disturb /\ (tree' = tree \/ \E o \in Outputs : tree' = [tree EXCEPT ![o] = None])
  BY DEF User, EditSource, DeleteSource, RenameSource, SwapSources, EditTemplate, DeleteTemplate,
     EditConfig, MoveAsset, DeleteOutput, disk
<1>2. /\ ~build'.quiet /\ build'.pc = build.pc /\ build'.docs = build.docs
      /\ build'.fresh = build.fresh
  BY <1>1, FieldsDef DEF Disturb, IInv, MemoryInv
<1>3. TreeInv'
  BY <1>1 DEF QInv, TreeInv
<1>4. LinkersInv'
  BY <1>2 DEF QInv, LinkersInv, Entries
<1> QED
  BY <1>2, <1>3, <1>4, LoudIsCorrect DEF QInv

(* Before the first write nothing is done yet. *)
LEMMA ReadingIsCorrect ==
  ASSUME build'.pc \in {"idle", "walk", "parse", "stat", "convert", "empty"}
         \/ (build'.pc = "ended" /\ build'.outcome # "ok")
  PROVE  /\ DoneInv' /\ BuildCorrect'
         /\ build'.pc # "empty" => LinkersInv'
BY DEF LinkersInv, DoneInv, BuildCorrect

LEMMA BeginQStep ==
  ASSUME IInv, QInv, Start \/ WalkInputs \/ Exit \/ Crash
  PROVE  QInv'
<1>0. UNCHANGED inputs /\ tree' = tree
  BY DEF Start, WalkInputs, Exit, Crash, Memory, disk
<1>1. TreeInv' /\ config' = config /\ asset' = asset /\ source' = source
  BY <1>0 DEF inputs, QInv, TreeInv
<1>2. CASE Start
  <2>1. PICK mode \in Modes :
          build' = [NoBuild EXCEPT !.pc = "walk", !.forced = mode.forced, !.dry = mode.dry,
                                   !.quiet = TRUE, !.recipe = config]
    BY <1>2 DEF Start
  <2>2. build'.pc = "walk" /\ build'.recipe = config /\ build'.docs = [s \in Sources |-> None]
    BY <2>1 DEF NoBuild
  <2>3. UndisturbedInv'
    BY <1>1, <2>2 DEF UndisturbedInv, Writing
  <2> QED
    BY <1>1, <2>2, <2>3, ReadingIsCorrect DEF QInv
<1>3. CASE WalkInputs
  <2> DEFINE paths == {s \in Sources : source[s] # None}
  <2>1. /\ build.pc = "walk" /\ DOMAIN build = Fields /\ build.reading = {}
        /\ build' = [build EXCEPT !.pc = "parse", !.asset = asset, !.paths = paths,
                                  !.todo = paths]
    BY <1>3 DEF WalkInputs, IInv, MemoryInv, ParseInv
  <2>2. /\ build'.pc = "parse" /\ build'.asset = asset /\ build'.todo = paths
        /\ build'.reading = {} /\ build'.docs = build.docs /\ build'.recipe = build.recipe
        /\ build'.quiet = build.quiet
    BY <2>1, FieldsDef
  <2>3. UndisturbedInv'
    BY <1>1, <2>1, <2>2 DEF QInv, UndisturbedInv, Writing
  <2> QED
    BY <1>1, <2>2, <2>3, ReadingIsCorrect DEF QInv
<1>4. CASE Exit \/ Crash
  <2>1. build'.pc = "idle" /\ ~build'.quiet
    BY <1>4 DEF Exit, Crash, NoBuild
  <2> QED
    BY <1>1, <2>1, LoudIsCorrect, ReadingIsCorrect DEF QInv
<1> QED
  BY <1>2, <1>3, <1>4

LEMMA StatSourceQStep ==
  ASSUME IInv, QInv, NEW s \in Sources, StatSource(s)
  PROVE  QInv'
<1>0. /\ build.pc = "parse" /\ DOMAIN build = Fields /\ DOMAIN build.docs = Sources
      /\ source' = source /\ config' = config /\ asset' = asset /\ tree' = tree
      /\ s \in build.todo
      /\ build' = [build EXCEPT !.todo = @ \ {s}, !.reading = @ \cup {s},
                                !.docs[s] = [stamp |-> Stamp(source[s]), body |-> None]]
  BY DEF StatSource, Memory, inputs, disk, IInv, MemoryInv
<1>1. /\ build'.pc = "parse" /\ build'.todo = build.todo \ {s}
      /\ build'.reading = build.reading \cup {s} /\ build'.recipe = build.recipe
      /\ build'.asset = build.asset /\ build'.quiet = build.quiet
      /\ build'.docs = [build.docs EXCEPT ![s] = [stamp |-> Stamp(source[s]), body |-> None]]
  BY <1>0, FieldsDef
<1>2. /\ \A t \in Sources \ {s} : build'.docs[t] = build.docs[t]
      /\ build'.docs[s].stamp = Stamp(source[s])
  BY <1>0, <1>1
<1>3. UndisturbedInv'
  <2> SUFFICES ASSUME build.quiet PROVE UndisturbedInv'
    BY <1>1 DEF UndisturbedInv
  <2>1. build.recipe = config /\ build.asset = asset
    BY <1>0 DEF QInv, UndisturbedInv
  <2>2. \A t \in Sources :
           /\ t \in build.todo \cup build.reading => source[t] # None
           /\ t \in build.reading => build.docs[t].stamp = source[t].stamp
           /\ t \notin build.todo \cup build.reading => build.docs[t] = source[t]
    BY <1>0 DEF QInv, UndisturbedInv
  <2>3. \A t \in Sources :
           /\ t \in build'.todo \cup build'.reading => source[t] # None
           /\ t \in build'.reading => build'.docs[t].stamp = source[t].stamp
           /\ t \notin build'.todo \cup build'.reading => build'.docs[t] = source[t]
    BY <1>0, <1>1, <1>2, <2>2 DEF Stamp
  <2> QED
    BY <1>0, <1>1, <2>1, <2>3 DEF UndisturbedInv, Writing
<1>4. TreeInv'
  BY <1>0 DEF QInv, TreeInv
<1> QED
  BY <1>1, <1>3, <1>4, ReadingIsCorrect DEF QInv

LEMMA ReadSourceQStep ==
  ASSUME IInv, CacheInv, QInv, NEW s \in Sources, ReadSource(s)
  PROVE  QInv'
<1>0. /\ build.pc = "parse" /\ DOMAIN build = Fields /\ build.docs \in [Sources -> Docs \cup {None}]
      /\ source' = source /\ config' = config /\ asset' = asset /\ tree' = tree
      /\ s \in build.reading /\ build.docs[s] # None
  BY DEF ReadSource, Memory, inputs, disk, IInv, MemoryInv, ParseInv
<1>1. TreeInv'
  BY <1>0 DEF QInv, TreeInv
<1>2. CASE source[s] = None
  <2>1. build' = [build EXCEPT !.reading = @ \ {s}, !.docs[s] = None, !.errors = TRUE]
    BY <1>2 DEF ReadSource
  <2>2. build'.pc = "parse" /\ build'.quiet = build.quiet
    BY <1>0, <2>1, FieldsDef
  <2>3. ~build.quiet
    BY <1>0, <1>2 DEF QInv, UndisturbedInv
  <2> QED
    BY <1>1, <2>2, <2>3, LoudIsCorrect, ReadingIsCorrect DEF QInv
<1>3. CASE source[s] # None
  <2>0. build' = [build EXCEPT !.reading = @ \ {s}, !.docs[s].body = source[s].body]
    BY <1>3 DEF ReadSource
  <2>1. /\ build'.pc = "parse" /\ build'.todo = build.todo
        /\ build'.reading = build.reading \ {s} /\ build'.recipe = build.recipe
        /\ build'.asset = build.asset /\ build'.quiet = build.quiet
        /\ build'.docs = [build.docs EXCEPT ![s].body = source[s].body]
    BY <1>0, <2>0, FieldsDef
  <2>2. \A t \in Sources \ {s} : build'.docs[t] = build.docs[t]
    BY <1>0, <2>1
  <2>3. build.docs[s].stamp = source[s].stamp /\ build.quiet => build'.docs[s] = source[s]
    <3>1. build.docs[s] \in Docs /\ source[s] \in Files
      BY <1>0, <1>3 DEF CacheInv, StampsInv
    <3>2. build'.docs[s] = [build.docs[s] EXCEPT !.body = source[s].body]
      BY <1>0, <2>1
    <3> QED
      BY <3>1, <3>2 DEF Docs, Files
  <2>4. UndisturbedInv'
    <3> SUFFICES ASSUME build.quiet PROVE UndisturbedInv'
      BY <2>1 DEF UndisturbedInv
    <3>1. build.recipe = config /\ build.asset = asset
      BY <1>0 DEF QInv, UndisturbedInv
    <3>2. \A t \in Sources :
             /\ t \in build.todo \cup build.reading => source[t] # None
             /\ t \in build.reading => build.docs[t].stamp = source[t].stamp
             /\ t \notin build.todo \cup build.reading => build.docs[t] = source[t]
      BY <1>0 DEF QInv, UndisturbedInv
    <3>3. \A t \in Sources :
             /\ t \in build'.todo \cup build'.reading => source[t] # None
             /\ t \in build'.reading => build'.docs[t].stamp = source[t].stamp
             /\ t \notin build'.todo \cup build'.reading => build'.docs[t] = source[t]
      BY <1>0, <2>1, <2>2, <2>3, <3>2
    <3> QED
      BY <1>0, <2>1, <3>1, <3>3 DEF UndisturbedInv, Writing
  <2> QED
    BY <1>1, <2>1, <2>4, ReadingIsCorrect DEF QInv
<1> QED
  BY <1>2, <1>3

(* The end of the parse, the stats and the checks. *)
LEMMA CheckQStep ==
  ASSUME IInv, CacheInv, QInv, ReadCache \/ StatTemplates \/ ConvertBodies
  PROVE  QInv'
<1>0. /\ DOMAIN build = Fields /\ build.docs \in [Sources -> Docs \cup {None}]
      /\ source \in [Sources -> Files \cup {None}]
      /\ source' = source /\ config' = config /\ asset' = asset /\ template' = template
      /\ tree' = tree
  BY DEF ReadCache, StatTemplates, ConvertBodies, Memory, inputs, disk, IInv, MemoryInv, CacheInv,
         StampsInv
<1>1. TreeInv' /\ TemplateStats' = TemplateStats
  BY <1>0 DEF QInv, TreeInv, TemplateStats
<1>2. CASE ReadCache
  <2>1. /\ build.pc = "parse" /\ build.todo = {} /\ build.reading = {}
        /\ build'.pc = "stat" /\ build'.docs = build.docs /\ build'.recipe = build.recipe
        /\ build'.asset = build.asset /\ build'.quiet = build.quiet
    BY <1>0, <1>2, FieldsDef DEF ReadCache
  <2>2. build.quiet => build.recipe = config /\ build.asset = asset /\ build.docs = source
    BY <1>0, <2>1 DEF QInv, UndisturbedInv
  <2>3. UndisturbedInv'
    BY <1>0, <2>1, <2>2 DEF UndisturbedInv, Writing
  <2> QED
    BY <1>1, <2>1, <2>3, ReadingIsCorrect DEF QInv
<1>3. CASE StatTemplates
  <2>1. /\ build.pc = "stat"
        /\ build'.pc = "convert" /\ build'.docs = build.docs /\ build'.recipe = build.recipe
        /\ build'.asset = build.asset /\ build'.quiet = build.quiet
        /\ build'.stats = TemplateStats
    BY <1>0, <1>3, FieldsDef DEF StatTemplates, TemplateStats
  <2>2. build.quiet => build.recipe = config /\ build.asset = asset /\ build.docs = source
    BY <2>1 DEF QInv, UndisturbedInv
  <2>3. UndisturbedInv'
    BY <1>0, <1>1, <2>1, <2>2 DEF UndisturbedInv, Writing
  <2> QED
    BY <1>1, <2>1, <2>3, ReadingIsCorrect DEF QInv
<1>4. CASE ConvertBodies
  <2>0. build.pc = "convert"
    BY <1>4 DEF ConvertBodies
  <2>1. build.quiet => /\ build.recipe = config /\ build.asset = asset /\ build.docs = source
                       /\ build.stats = TemplateStats
    BY <2>0 DEF QInv, UndisturbedInv
  <2>2. CASE End("rejected")
    <3>1. /\ build'.pc = "ended" /\ build'.outcome = "rejected"
          /\ build'.recipe = build.recipe /\ build'.asset = build.asset
          /\ build'.quiet = build.quiet
      BY <1>0, <2>2, FieldsDef DEF End
    <3>2. UndisturbedInv'
      BY <1>0, <2>1, <3>1 DEF UndisturbedInv, Writing
    <3> QED
      BY <1>1, <3>1, <3>2, ReadingIsCorrect DEF QInv
  <2> DEFINE kept == [s \in Sources |-> IF s \in Entries(build.docs)
                                           /\ build.docs[s].body \in AssetLinkers
                                        THEN {} ELSE build.fresh[s]]
  <2>3. CASE build' = [build EXCEPT !.pc = "empty", !.fresh = kept]
    <3>1. /\ build'.pc = "empty" /\ build'.docs = build.docs /\ build'.stats = build.stats
          /\ build'.recipe = build.recipe /\ build'.asset = build.asset
          /\ build'.quiet = build.quiet /\ build'.fresh = kept
      BY <1>0, <2>3, FieldsDef
    <3>2. UndisturbedInv'
      BY <1>0, <1>1, <2>1, <3>1 DEF UndisturbedInv
    <3>3. LinkersInv'
      BY <3>1 DEF LinkersInv, Entries
    <3> QED
      BY <1>1, <3>1, <3>2, <3>3, ReadingIsCorrect DEF QInv
  <2> QED
    BY <1>4, <2>2, <2>3 DEF ConvertBodies
<1> QED
  BY <1>2, <1>3, <1>4

-----------------------------------------------------------------------------
(* The steps of the writing phases. *)
LEMMA WritingQStep ==
  ASSUME QInv, build.pc \in Writing, SameTask, UNCHANGED inputs, build'.quiet = build.quiet,
         build'.pc \in Writing \cup {"ended"},
         build'.pc \in {"empty", "pages"} => build.pc \in {"empty", "pages"},
         TreeInv', DoneInv', BuildCorrect'
  PROVE  QInv'
BY UndisturbedStays DEF QInv

LEMMA FailedQStep ==
  ASSUME IInv, QInv, build.pc \in Writing, UNCHANGED inputs, TreeInv', End("failed")
  PROVE  QInv'
<1>1. DOMAIN build = Fields
  BY DEF IInv, MemoryInv
<1>2. /\ SameTask /\ build'.quiet = build.quiet /\ build'.pc = "ended"
      /\ build'.outcome = "failed"
  BY <1>1, FieldsDef DEF End, SameTask, SameEntries
<1> QED
  BY <1>2, ReadingIsCorrect, WritingQStep

LEMMA EmptyCacheQStep ==
  ASSUME IInv, QInv, EmptyCache
  PROVE  QInv'
<1>0. /\ build.pc = "empty" /\ build.pc \in Writing /\ UNCHANGED inputs /\ tree' = tree
      /\ DOMAIN build = Fields
  BY DEF EmptyCache, Writing, IInv, MemoryInv
<1>1. TreeInv'
  BY <1>0 DEF QInv, TreeInv
<1>2. CASE build' = [build EXCEPT !.pc = "pages", !.todo = Entries(build.docs)]
  <2>1. /\ SameTask /\ build'.quiet = build.quiet /\ build'.pc = "pages"
        /\ build'.docs = build.docs /\ build'.todo = Entries(build.docs)
    BY <1>0, <1>2, FieldsDef DEF SameTask, SameEntries
  <2>2. Entries(build'.docs) = Entries(build.docs)
    BY <2>1 DEF Entries
  <2>3. DoneInv' /\ BuildCorrect'
    BY <2>1, <2>2 DEF DoneInv, BuildCorrect
  <2> QED
    BY <1>0, <1>1, <2>1, <2>3, WritingQStep DEF Writing
<1> QED
  BY <1>0, <1>1, <1>2, FailedQStep DEF EmptyCache

(* A page's job ends: if it ends well, its output is the page. *)
LEMMA PageQStep ==
  ASSUME IInv, CacheInv, QInv, build.pc = "pages", build'.pc = "pages", SameTask,
         UNCHANGED inputs, build'.quiet = build.quiet, TreeInv',
         NEW s \in Sources, s \in build.todo, build'.todo = build.todo \ {s},
         build.errors => build'.errors,
         build.quiet /\ ~build.dry /\ ~build'.errors =>
           /\ s \in Entries(build.docs)
           /\ IsPageDone(s)'
           /\ \A o \in Outputs \ {Page(s)} : tree'[o] = tree[o]
  PROVE  QInv'
<1>0. build.pc \in Writing /\ build'.pc \in Writing /\ build'.dry = build.dry
      /\ Entries(build'.docs) = Entries(build.docs) /\ DocsInv
  BY DoneStays DEF Writing, SameTask, SameEntries, CacheInv, BInv
<1>1. ASSUME build.quiet, ~build.dry, ~build'.errors, NEW t \in Entries(build.docs),
             t \notin build'.todo
      PROVE  IsPageDone(t)'
  <2>1. CASE t = s
    BY <1>1, <2>1
  <2>2. CASE t # s
    <3>1. s \in Entries(build.docs) /\ t \notin build.todo /\ ~build.errors
      BY <1>1, <2>2
    <3>2. Page(t) \in Outputs \ {Page(s)}
      BY <1>0, <2>2, <3>1, PageIsOutput, PagesDiffer
    <3>3. tree'[Page(t)] = tree[Page(t)]
      BY <1>1, <3>2
    <3>4. IsPageDone(t)
      BY <1>1, <3>1 DEF QInv, DoneInv
    <3> QED
      BY <3>3, <3>4, DoneStays
  <2> QED
    BY <2>1, <2>2
<1>2. DoneInv' /\ BuildCorrect'
  BY <1>0, <1>1 DEF DoneInv, BuildCorrect
<1> QED
  BY <1>0, <1>2, WritingQStep

(* Nothing that the build read has changed, so what it kept is current.     *)
LEMMA QuietPage ==
  ASSUME CacheInv, QInv, build.pc \in Writing, build.quiet, NEW s \in Entries(build.docs), NEW list,
         build.docs[s].body \notin AssetLinkers, tree[Page(s)] # None, IsPageSound(s, list)
  PROVE  IsPageDone(s)
<1>1. build.docs = source /\ build.stats = TemplateStats
  BY UndisturbedFacts DEF QInv
<1>2. IsAlive(s) /\ AreAllAlive
  BY <1>1 DEF IsAlive, AreAllAlive, Entries
<1>3. tree[Page(s)] = PageOf(build.docs, s, None, template, build.recipe)
  BY <1>1, <1>2 DEF IsPageSound
<1> QED
  BY <1>3, AssetFree DEF IsPageDone

LEMMA KeepPageQStep ==
  ASSUME IInv, CacheInv, QInv, NEW s \in Sources, KeepPage(s)
  PROVE  QInv'
<1>0. /\ build.pc = "pages" /\ build.pc \in Writing /\ build.pc \in Rendering /\ s \in build.todo
      /\ UNCHANGED inputs /\ tree' = tree /\ DOMAIN build = Fields /\ tree[Page(s)] # None
      /\ PagesInv
  BY DEF KeepPage, Memory, disk, Writing, Rendering, IInv, MemoryInv, CacheInv, BInv
<1>1. PICK row \in build.fresh[s] :
        build' = [build EXCEPT !.todo = @ \ {s}, !.kept = @ \cup {Page(s)},
                               !.flags[s] = row.list]
  BY DEF KeepPage
<1>2. /\ SameTask /\ build'.pc = "pages" /\ build'.todo = build.todo \ {s}
      /\ build'.errors = build.errors /\ build'.quiet = build.quiet
  BY <1>0, <1>1, FieldsDef DEF SameTask, SameEntries
<1>3. ASSUME build.quiet, ~build.dry PROVE s \in Entries(build.docs) /\ IsPageDone(s)'
  <2>1. s \in Entries(build.docs) /\ IsPageSound(s, row.list)
    BY <1>0, <1>1, <1>3 DEF PagesInv
  <2>2. build.docs[s].body \notin AssetLinkers
    BY <1>0, <1>1, <2>1 DEF QInv, LinkersInv
  <2>3. IsPageDone(s)
    BY <1>0, <1>3, <2>1, <2>2, QuietPage
  <2> QED
    BY <1>0, <1>2, <2>1, <2>3, DoneStays
<1>4. TreeInv'
  BY <1>0 DEF QInv, TreeInv
<1> QED
  BY <1>0, <1>2, <1>3, <1>4, PageQStep

(* A write leaves a tree of the same outputs. *)
LEMMA TreeWritten ==
  ASSUME TreeInv, NEW o \in Outputs, NEW value, NEW ok \in BOOLEAN, WriteOutput(o, value, ok)
  PROVE  TreeInv' /\ DOMAIN tree = Outputs
<1>1. tree' = tree \/ \E left : tree' = [tree EXCEPT ![o] = left]
  BY DEF WriteOutput
<1>2. DOMAIN tree = Outputs
  BY DEF TreeInv
<1> QED
  BY <1>1, <1>2 DEF TreeInv

LEMMA RenderPageQStep ==
  ASSUME IInv, CacheInv, QInv, NEW s \in Sources, RenderPage(s)
  PROVE  QInv'
<1>0. /\ build.pc = "pages" /\ build.pc \in Writing /\ build.pc \in Rendering /\ s \in build.todo
      /\ UNCHANGED inputs /\ DOMAIN build = Fields /\ DOMAIN tree = Outputs
      /\ build.dry \in BOOLEAN /\ PagesInv /\ DocsInv
  BY DEF RenderPage, Writing, Rendering, IInv, MemoryInv, CacheInv, BInv, StampsInv
<1>1. CASE RenderFails(template, ContentTemplate)
  <2>1. build' = [build EXCEPT !.todo = @ \ {s}, !.errors = TRUE] /\ tree' = tree
    BY <1>1 DEF RenderPage
  <2>2. /\ SameTask /\ build'.pc = "pages" /\ build'.todo = build.todo \ {s}
        /\ build'.errors /\ build'.quiet = build.quiet
    BY <1>0, <2>1, FieldsDef DEF SameTask, SameEntries
  <2>3. TreeInv'
    BY <2>1 DEF QInv, TreeInv
  <2> QED
    BY <1>0, <2>2, <2>3, PageQStep
<1>2. CASE ~RenderFails(template, ContentTemplate)
  <2> DEFINE page == PageOf(build.docs, s, build.asset, template, build.recipe)
  <2>1. PICK ok \in BOOLEAN :
          /\ WriteOutput(Page(s), page, ok)
          /\ build' = [build EXCEPT !.todo = @ \ {s}, !.errors = @ \/ ~ok,
                         !.written = @ \cup {Page(s)},
                         !.flags[s] = ReadsList(template, ContentTemplate)]
    BY <1>2 DEF RenderPage
  <2>2. /\ SameTask /\ build'.pc = "pages" /\ build'.todo = build.todo \ {s}
        /\ build'.errors = (build.errors \/ ~ok) /\ build'.quiet = build.quiet
    BY <1>0, <2>1, FieldsDef DEF SameTask, SameEntries
  <2>3. CASE build.dry
    <3>1. tree' = tree
      BY <2>1, <2>3 DEF WriteOutput
    <3>2. TreeInv'
      BY <3>1 DEF QInv, TreeInv
    <3>3. build.errors => build'.errors
      BY <2>2
    <3> QED
      BY <1>0, <2>2, <2>3, <3>2, <3>3, PageQStep
  <2>4. CASE ~build.dry
    <3>1. s \in Entries(build.docs) /\ Page(s) \in Outputs
      BY <1>0, <2>4, PageIsOutput DEF PagesInv
    <3>2. /\ \A o \in Outputs \ {Page(s)} : tree'[o] = tree[o]
          /\ ok => tree'[Page(s)] = page
      BY <1>0, <2>1, <2>4, <3>1, Written
    <3>3. ok => IsPageDone(s)'
      <4>1. /\ build'.docs = build.docs /\ build'.recipe = build.recipe
            /\ template' = template /\ Page(s)' = Page(s) /\ build'.asset = build.asset
        BY <1>0, <2>2 DEF SameTask, SameEntries, inputs, Page
      <4> QED
        BY <3>2, <4>1 DEF IsPageDone
    <3>4. TreeInv'
      BY <2>1, <3>1, TreeWritten DEF QInv
    <3>5. (build.errors => build'.errors) /\ (~build'.errors => ok)
      BY <2>2
    <3> QED
      BY <1>0, <2>2, <3>1, <3>2, <3>3, <3>4, <3>5, PageQStep
  <2> QED
    BY <2>3, <2>4
<1> QED
  BY <1>1, <1>2

(* After the pages, a build that is quiet and writes has every page done;   *)
(* a step that leaves them alone goes on.                                   *)
LEMMA TailQStep ==
  ASSUME IInv, CacheInv, QInv, build.pc \in {"pages", "index", "copy", "rows"}, SameTask,
         UNCHANGED inputs, build'.quiet = build.quiet, TreeInv',
         build'.pc \in {"index", "copy", "rows", "prune"},
         build.quiet /\ ~build.dry =>
           /\ ArePagesDone /\ \A o \in Pages : tree'[o] = tree[o]
           /\ build'.pc # "index" => IsIndexDone'
           /\ build'.pc \notin {"index", "copy"} => IsAssetDone'
           /\ build'.pc = "prune" => IsRestStale'
  PROVE  QInv'
<1>0. /\ build.pc \in Writing /\ build'.pc \in Writing /\ build'.dry = build.dry /\ DocsInv
      /\ build'.pc \notin {"empty", "pages", "ended"}
  BY DEF Writing, SameTask, SameEntries, CacheInv, BInv
<1>1. ASSUME build.quiet, ~build.dry PROVE ArePagesDone'
  <2>1. ASSUME NEW s \in Entries(build.docs) PROVE IsPageDone(s)'
    <3>1. Page(s) \in Pages
      BY <1>0, PageIsOutput
    <3> QED
      BY <1>1, <3>1, DoneStays DEF ArePagesDone
  <2> QED
    BY <2>1, DoneStays DEF ArePagesDone
<1>2. DoneInv' /\ BuildCorrect'
  BY <1>0, <1>1 DEF DoneInv, BuildCorrect
<1> QED
  BY <1>0, <1>2, WritingQStep

LEMMA EndPagesQStep ==
  ASSUME IInv, CacheInv, QInv, EndPages
  PROVE  QInv'
<1>0. /\ build.pc = "pages" /\ build.pc \in Writing /\ build.todo = {} /\ UNCHANGED inputs
      /\ tree' = tree /\ DOMAIN build = Fields
  BY DEF EndPages, Memory, disk, Writing, IInv, MemoryInv
<1>1. TreeInv'
  BY <1>0 DEF QInv, TreeInv
<1>2. CASE ~build.errors /\ build' = [build EXCEPT !.pc = "index"]
  <2>1. SameTask /\ build'.quiet = build.quiet /\ build'.pc = "index"
    BY <1>0, <1>2, FieldsDef DEF SameTask, SameEntries
  <2>2. build.quiet /\ ~build.dry => ArePagesDone
    BY <1>0, <1>2 DEF QInv, DoneInv, ArePagesDone
  <2> QED
    BY <1>0, <1>1, <2>1, <2>2, TailQStep
<1> QED
  BY <1>0, <1>1, <1>2, FailedQStep DEF EndPages

LEMMA KeepIndexQStep ==
  ASSUME IInv, CacheInv, QInv, KeepIndex
  PROVE  QInv'
<1>0. /\ build.pc = "index" /\ build.pc \in Writing /\ build.pc \in Rendering
      /\ build.aggregatesFresh /\ tree[Index] # None
      /\ UNCHANGED inputs /\ tree' = tree /\ DOMAIN build = Fields
      /\ build' = [build EXCEPT !.pc = "copy", !.kept = @ \cup {Index}]
  BY DEF KeepIndex, Memory, disk, Writing, Rendering, IInv, MemoryInv
<1>1. TreeInv'
  BY <1>0 DEF QInv, TreeInv
<1>2. SameTask /\ build'.quiet = build.quiet /\ build'.pc = "copy"
  BY <1>0, FieldsDef DEF SameTask, SameEntries
<1>3. ASSUME build.quiet, ~build.dry PROVE ArePagesDone /\ IsIndexDone'
  <2>1. ArePagesDone
    BY <1>0, <1>3 DEF QInv, DoneInv
  <2>2. build.docs = source /\ build.stats = TemplateStats
    BY <1>0, <1>3, UndisturbedFacts DEF QInv
  <2>3. AreAllAlive
    BY <2>2 DEF AreAllAlive, IsAlive, Entries
  <2>4. IsIndexSound
    BY <1>0, <1>3, TailFacts
  <2>5. IsIndexDone
    BY <1>0, <2>2, <2>3, <2>4 DEF IsIndexSound, IsIndexDone
  <2> QED
    BY <1>0, <1>2, <2>1, <2>5, DoneStays
<1> QED
  BY <1>0, <1>1, <1>2, <1>3, TailQStep

LEMMA RenderIndexQStep ==
  ASSUME IInv, CacheInv, QInv, RenderIndex
  PROVE  QInv'
<1>0. /\ build.pc = "index" /\ build.pc \in Writing /\ build.pc \in Rendering
      /\ UNCHANGED inputs /\ DOMAIN build = Fields /\ DOMAIN tree = Outputs
      /\ build.dry \in BOOLEAN /\ Index \in Outputs \ Pages /\ Pages \subseteq Outputs
  BY TailFacts DEF RenderIndex, Writing, Rendering
<1>1. CASE RenderFails(template, IndexTemplate)
  <2>1. End("failed") /\ tree' = tree
    BY <1>1 DEF RenderIndex
  <2>2. TreeInv'
    BY <2>1 DEF QInv, TreeInv
  <2> QED
    BY <1>0, <2>1, <2>2, FailedQStep
<1>2. CASE ~RenderFails(template, IndexTemplate)
  <2> DEFINE index == IndexOf(build.docs, template, build.recipe)
  <2>1. PICK ok \in BOOLEAN :
          /\ WriteOutput(Index, index, ok)
          /\ IF ok THEN build' = [build EXCEPT !.pc = "copy", !.written = @ \cup {Index}]
                   ELSE End("failed")
    BY <1>2 DEF RenderIndex
  <2>2. TreeInv'
    BY <1>0, <2>1, TreeWritten DEF QInv
  <2>3. CASE ~ok
    BY <1>0, <2>1, <2>2, <2>3, FailedQStep
  <2>4. CASE ok
    <3>0. build' = [build EXCEPT !.pc = "copy", !.written = @ \cup {Index}]
      BY <2>1, <2>4
    <3>1. SameTask /\ build'.quiet = build.quiet /\ build'.pc = "copy"
      BY <1>0, <3>0, FieldsDef DEF SameTask, SameEntries
    <3>2. ASSUME build.quiet, ~build.dry
          PROVE  /\ ArePagesDone /\ \A o \in Pages : tree'[o] = tree[o]
                 /\ IsIndexDone'
      <4>1. ArePagesDone
        BY <1>0, <3>2 DEF QInv, DoneInv
      <4>2. (\A o \in Outputs \ {Index} : tree'[o] = tree[o]) /\ tree'[Index] = index
        BY <1>0, <2>1, <2>4, <3>2, Written
      <4>3. \A o \in Pages : tree'[o] = tree[o]
        BY <1>0, <4>2
      <4>4. /\ build'.docs = build.docs /\ build'.recipe = build.recipe
            /\ template' = template
        BY <1>0, <3>1 DEF SameTask, SameEntries, inputs
      <4> QED
        BY <4>1, <4>2, <4>3, <4>4 DEF IsIndexDone
    <3> QED
      BY <1>0, <2>2, <3>1, <3>2, TailQStep
  <2> QED
    BY <2>3, <2>4
<1> QED
  BY <1>1, <1>2

LEMMA CopyAssetQStep ==
  ASSUME IInv, CacheInv, QInv, CopyAsset
  PROVE  QInv'
<1>0. /\ build.pc = "copy" /\ build.pc \in Writing /\ build.pc \in Rendering
      /\ UNCHANGED inputs /\ DOMAIN build = Fields /\ DOMAIN tree = Outputs
      /\ build.dry \in BOOLEAN /\ Index \in Outputs /\ Pages \subseteq Outputs
      /\ build.asset \in Assets \cup {None}
  BY TailFacts DEF CopyAsset, Writing, Rendering, TaskInv
<1>1. build.quiet /\ ~build.dry => ArePagesDone /\ IsIndexDone
  BY <1>0 DEF QInv, DoneInv
<1>2. CASE build.asset = None
  <2>1. build' = [build EXCEPT !.pc = "rows"] /\ tree' = tree
    BY <1>2 DEF CopyAsset
  <2>2. TreeInv'
    BY <2>1 DEF QInv, TreeInv
  <2>3. /\ SameTask /\ build'.quiet = build.quiet /\ build'.pc = "rows"
        /\ build'.asset = build.asset
    BY <1>0, <2>1, FieldsDef DEF SameTask, SameEntries
  <2>4. build.quiet /\ ~build.dry => IsIndexDone' /\ IsAssetDone'
    BY <1>0, <1>1, <1>2, <2>1, <2>3, DoneStays DEF IsAssetDone
  <2> QED
    BY <1>0, <1>1, <2>1, <2>2, <2>3, <2>4, TailQStep
<1>3. CASE End("failed") /\ tree' = tree
  <2>1. TreeInv'
    BY <1>3 DEF QInv, TreeInv
  <2> QED
    BY <1>0, <1>3, <2>1, FailedQStep
<1>4. CASE build.asset # None
  <2>0. build.asset \in Outputs /\ build.asset \notin Pages \cup {Index}
    BY <1>0, <1>4, SiteAssumption DEF Outputs
  <2>1. CASE \E ok \in BOOLEAN :
               /\ WriteOutput(build.asset, CopyOf(build.asset), ok)
               /\ IF ok THEN build' = [build EXCEPT !.pc = "rows", !.written = @ \cup {build.asset}]
                        ELSE End("failed")
    <3>1. PICK ok \in BOOLEAN :
            /\ WriteOutput(build.asset, CopyOf(build.asset), ok)
            /\ IF ok THEN build' = [build EXCEPT !.pc = "rows", !.written = @ \cup {build.asset}]
                     ELSE End("failed")
      BY <2>1
    <3>2. TreeInv'
      BY <2>0, <3>1, TreeWritten DEF QInv
    <3>3. CASE ~ok
      BY <1>0, <3>1, <3>2, <3>3, FailedQStep
    <3>4. CASE ok
      <4>0. build' = [build EXCEPT !.pc = "rows", !.written = @ \cup {build.asset}]
        BY <3>1, <3>4
      <4>1. /\ SameTask /\ build'.quiet = build.quiet /\ build'.pc = "rows"
            /\ build'.asset = build.asset
        BY <1>0, <4>0, FieldsDef DEF SameTask, SameEntries
      <4>2. ASSUME build.quiet, ~build.dry
            PROVE  /\ \A o \in Pages : tree'[o] = tree[o]
                   /\ IsIndexDone' /\ IsAssetDone'
        <5>1. /\ \A o \in Outputs \ {build.asset} : tree'[o] = tree[o]
              /\ tree'[build.asset] = CopyOf(build.asset)
          BY <1>0, <2>0, <3>1, <3>4, <4>2 DEF WriteOutput
        <5>2. (\A o \in Pages : tree'[o] = tree[o]) /\ tree'[Index] = tree[Index]
          BY <1>0, <2>0, <5>1
        <5> QED
          BY <1>0, <1>1, <4>1, <4>2, <5>1, <5>2, DoneStays DEF IsAssetDone
      <4> QED
        BY <1>0, <1>1, <3>2, <4>1, <4>2, TailQStep
    <3> QED
      BY <3>3, <3>4
  <2> QED
    BY <1>3, <1>4, <2>1 DEF CopyAsset
<1> QED
  BY <1>2, <1>4

LEMMA WriteCacheQStep ==
  ASSUME IInv, CacheInv, QInv, WriteCache
  PROVE  QInv'
<1> DEFINE stale == {o \in Outputs : tree[o] # None} \ Manifest(build.docs, build.asset)
<1>0. /\ build.pc = "rows" /\ build.pc \in Writing /\ build.pc \in Rendering
      /\ UNCHANGED inputs /\ DOMAIN build = Fields /\ tree' = tree
  BY TailFacts DEF WriteCache, Writing, Rendering
<1>1. TreeInv'
  BY <1>0 DEF QInv, TreeInv
<1>2. CASE build' = [build EXCEPT !.pc = "prune", !.todo = stale]
  <2>1. /\ SameTask /\ build'.quiet = build.quiet /\ build'.pc = "prune"
        /\ build'.todo = stale
    BY <1>0, <1>2, FieldsDef DEF SameTask, SameEntries
  <2>2. build.quiet /\ ~build.dry => ArePagesDone /\ IsIndexDone' /\ IsAssetDone'
    BY <1>0, <2>1, DoneStays DEF QInv, DoneInv
  <2>3. IsRestStale'
    BY <1>0, <2>1, DoneStays DEF IsRestStale, Claimed
  <2> QED
    BY <1>0, <1>1, <2>1, <2>2, <2>3, TailQStep
<1> QED
  BY <1>0, <1>1, <1>2, FailedQStep DEF WriteCache

(* A file that goes is one that nothing claims: what is done stays done.    *)
LEMMA RemoveStaleQStep ==
  ASSUME IInv, CacheInv, QInv, NEW o \in Outputs, RemoveStale(o)
  PROVE  QInv'
<1>0. /\ build.pc = "prune" /\ build.pc \in Writing /\ o \in build.todo
      /\ UNCHANGED inputs /\ DOMAIN build = Fields /\ DOMAIN tree = Outputs
      /\ DocsInv /\ build.asset \in Assets \cup {None}
  BY DEF RemoveStale, Writing, IInv, MemoryInv, CacheInv, BInv, StampsInv, TaskInv
<1>1. tree' = tree \/ tree' = [tree EXCEPT ![o] = None]
  BY DEF RemoveStale
<1>2. TreeInv'
  BY <1>1 DEF QInv, TreeInv
<1>3. /\ SameTask /\ build'.quiet = build.quiet /\ build'.pc = "prune"
      /\ build'.todo = build.todo \ {o}
      /\ build.errors => build'.errors
      /\ ~build.dry /\ ~build'.errors => tree' = [tree EXCEPT ![o] = None]
  <2>1. CASE /\ build' = [build EXCEPT !.todo = @ \ {o}, !.removed = @ \cup {o}]
             /\ tree' = IF build.dry THEN tree ELSE [tree EXCEPT ![o] = None]
    BY <1>0, <2>1, FieldsDef DEF SameTask, SameEntries
  <2>2. CASE build' = [build EXCEPT !.todo = @ \ {o}, !.errors = TRUE]
    <3>1. build'.errors
      BY <1>0, <2>2, FieldsDef
    <3> QED
      BY <1>0, <2>2, <3>1, FieldsDef DEF SameTask, SameEntries
  <2> QED
    BY <2>1, <2>2 DEF RemoveStale
<1>4. ASSUME build.quiet, ~build.dry
      PROVE  ArePagesDone' /\ IsIndexDone' /\ IsAssetDone' /\ IsRestStale'
  <2>1. ArePagesDone /\ IsIndexDone /\ IsAssetDone /\ IsRestStale
    BY <1>0, <1>4 DEF QInv, DoneInv
  <2>2. o \notin Claimed /\ \A p \in Outputs \ {o} : tree'[p] = tree[p]
    BY <1>0, <1>1, <2>1 DEF IsRestStale
  <2>3. ASSUME NEW s \in Entries(build.docs) PROVE IsPageDone(s)'
    <3>1. Page(s) \in Outputs /\ Page(s) # o
      BY <1>0, <2>2, PageIsOutput DEF Claimed, Manifest, Page
    <3> QED
      BY <1>3, <1>0, <2>1, <2>2, <3>1, DoneStays DEF ArePagesDone
  <2>4. ArePagesDone'
    BY <1>0, <1>3, <2>3, DoneStays DEF ArePagesDone
  <2>5. IsIndexDone'
    <3>1. Index \in Outputs /\ Index # o
      BY <2>2 DEF Claimed, Manifest, Outputs
    <3> QED
      BY <1>0, <1>3, <2>1, <2>2, <3>1, DoneStays
  <2>6. IsAssetDone'
    <3>1. CASE build.asset = None
      BY <1>3, <3>1 DEF IsAssetDone, SameTask, SameEntries
    <3>2. CASE build.asset # None
      <4>1. build.asset \in Outputs /\ build.asset # o
        BY <1>0, <2>2, <3>2 DEF Claimed, Manifest, Outputs
      <4> QED
        BY <1>0, <1>3, <2>1, <2>2, <4>1, DoneStays
    <3> QED
      BY <3>1, <3>2
  <2>7. IsRestStale'
    <3>1. Claimed' = Claimed
      BY <1>0, <1>3, DoneStays
    <3>2. ASSUME ~build'.errors, NEW p \in Outputs \ Claimed, tree'[p] # None
          PROVE  p \in build'.todo
      <4>1. ~build.errors /\ tree' = [tree EXCEPT ![o] = None]
        BY <1>3, <1>4, <3>2
      <4>2. p # o /\ tree[p] # None
        BY <1>0, <3>2, <4>1
      <4> QED
        BY <1>3, <2>1, <3>2, <4>1, <4>2 DEF IsRestStale
    <3> QED
      BY <1>3, <2>1, <3>1, <3>2 DEF IsRestStale
  <2> QED
    BY <2>4, <2>5, <2>6, <2>7
<1>5. DoneInv' /\ BuildCorrect'
  <2>1. build'.dry = build.dry
    BY <1>3 DEF SameTask, SameEntries
  <2> QED
    BY <1>3, <1>4, <2>1 DEF DoneInv, BuildCorrect
<1> QED
  BY <1>0, <1>2, <1>3, <1>5, WritingQStep DEF Writing

(* When nothing is left to remove, output_dir is the tree of a full build.  *)
LEMMA EndPruneQStep ==
  ASSUME IInv, CacheInv, QInv, EndPrune
  PROVE  QInv'
<1>0. /\ build.pc = "prune" /\ build.pc \in Writing /\ build.todo = {}
      /\ UNCHANGED inputs /\ tree' = tree /\ DOMAIN build = Fields
      /\ DocsInv /\ build.asset \in Assets \cup {None}
  BY DEF EndPrune, Memory, disk, Writing, IInv, MemoryInv, CacheInv, BInv, TaskInv
<1>1. TreeInv'
  BY <1>0 DEF QInv, TreeInv
<1>2. /\ SameTask /\ build'.quiet = build.quiet /\ build'.pc = "ended"
      /\ build'.outcome = "ok" => ~build.errors
  BY <1>0, FieldsDef DEF EndPrune, End, SameTask, SameEntries
<1>3. DoneInv'
  BY <1>2 DEF DoneInv
<1>4. BuildCorrect'
  <2> SUFFICES ASSUME build.quiet, ~build.dry, ~build.errors
               PROVE  tree' = FullTree(source', asset', template', config')
    BY <1>2 DEF BuildCorrect, SameTask, SameEntries
  <2>1. ArePagesDone /\ IsIndexDone /\ IsAssetDone /\ IsRestStale
    BY <1>0 DEF QInv, DoneInv
  <2>2. \A o \in Outputs \ Claimed : tree[o] = None
    BY <1>0, <2>1 DEF IsRestStale
  <2>3. \A s \in Entries(build.docs) : Page(s) \in Pages
    BY <1>0, PageIsOutput
  <2>4. tree = FullTree(build.docs, build.asset, template, build.recipe)
    BY <1>0, <2>1, <2>2, <2>3, DoneIsFull DEF QInv
  <2>5. build.docs = source /\ build.asset = asset /\ build.recipe = config
    BY <1>0, UndisturbedFacts DEF QInv
  <2>6. source' = source /\ asset' = asset /\ template' = template /\ config' = config
    BY <1>0 DEF inputs
  <2> QED
    BY <1>0, <2>4, <2>5, <2>6
<1> QED
  BY <1>0, <1>1, <1>2, <1>3, <1>4, WritingQStep DEF Writing

-----------------------------------------------------------------------------
LEMMA BuildQStep ==
  ASSUME IInv, CacheInv, QInv, Start \/ Build \/ Crash
  PROVE  QInv'
<1>1. CASE Start \/ WalkInputs \/ Exit \/ Crash
  BY <1>1, BeginQStep
<1>2. CASE ReadCache \/ StatTemplates \/ ConvertBodies
  BY <1>2, CheckQStep
<1>3. ASSUME NEW s \in Sources, StatSource(s) \/ ReadSource(s) \/ KeepPage(s) \/ RenderPage(s)
      PROVE  QInv'
  BY <1>3, StatSourceQStep, ReadSourceQStep, KeepPageQStep, RenderPageQStep
<1>4. CASE EmptyCache \/ EndPages \/ KeepIndex \/ RenderIndex \/ CopyAsset \/ WriteCache
  BY <1>4, EmptyCacheQStep, EndPagesQStep, KeepIndexQStep, RenderIndexQStep, CopyAssetQStep,
     WriteCacheQStep
<1>5. CASE (\E o \in Outputs : RemoveStale(o)) \/ EndPrune
  BY <1>5, RemoveStaleQStep, EndPruneQStep
<1> QED
  BY <1>1, <1>2, <1>3, <1>4, <1>5 DEF Build

LEMMA StutterQStep ==
  ASSUME QInv, UNCHANGED vars
  PROVE  QInv'
<1>1. /\ source' = source /\ template' = template /\ asset' = asset /\ config' = config
      /\ tree' = tree /\ build' = build
  BY DEF vars, inputs, disk
<1>2. TemplateStats' = TemplateStats /\ Claimed' = Claimed
  BY <1>1 DEF TemplateStats, Claimed
<1>3. UndisturbedInv' /\ LinkersInv' /\ TreeInv' /\ BuildCorrect'
  BY <1>1, <1>2 DEF QInv, UndisturbedInv, LinkersInv, TreeInv, BuildCorrect
<1>4. DoneInv'
  BY <1>1, <1>2 DEF QInv, DoneInv, ArePagesDone, IsPageDone, IsIndexDone, IsAssetDone, IsRestStale,
     Page
<1> QED
  BY <1>3, <1>4 DEF QInv

(* For every site, and any number of edits, faults and crashes before it: a *)
(* build of app/cmd_build.c that succeeds while its inputs stand still      *)
(* leaves in output_dir exactly what a build without a cache would make.    *)
THEOREM BuildsAreCorrect == PlainEdits => (Spec => []BuildCorrect)
<1>1. PlainEdits /\ IInv /\ CacheInv /\ QInv /\ [Next]_vars => QInv'
  BY UserQStep, BuildQStep, StutterQStep DEF Next
<1>2. PlainEdits => PlainEdits'
  BY DEF PlainEdits
<1>3. QInv => BuildCorrect
  BY DEF QInv
<1> QED
  BY <1>1, <1>2, <1>3, InitQInv, CacheKnows, Consistent, PTL DEF Spec

=============================================================================
