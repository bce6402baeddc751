-------------------------------- MODULE Site --------------------------------
(***************************************************************************)
(* A site as its inputs define it: the content files, the templates, the    *)
(* configuration a render reads, and one asset with a denote identifier;    *)
(* what each page and aggregate is made of; which inputs a build rejects;   *)
(* and the whole output tree of a build that renders everything.            *)
(*                                                                          *)
(* An input file is its stamp, the size and modification time that os_stat  *)
(* reports, and its body, what a read returns.  A rendered output is the    *)
(* record of everything its render read.                                    *)
(***************************************************************************)
EXTENDS Integers, FiniteSets

CONSTANTS Sources,         \* paths of content files
          Bodies,          \* what a content file can hold
          Drafts,          \* bodies that are drafts
          OutOf,           \* the output path of a body at a source path
          LinkOf,          \* the source path a body links, or None
          AssetLinkers,    \* bodies with a denote link to the asset
          Templates,       \* paths below templates_dir
          ContentTemplate, \* the configured content_template
          IndexTemplate,   \* the one aggregate template
          Partial,         \* a partial below templates_dir
          TemplateBodies,  \* what a template can hold
          Includers,       \* template bodies that expand the partial
          ListReaders,     \* template bodies that read content_entries
          Recipes,         \* the config values of the page recipe
          Assets,          \* paths the asset can have
          Index,           \* the aggregate's output path
          None,            \* no value
          Torn             \* an output cut short by a failed write

Pages == {OutOf[s][b] : s \in Sources, b \in Bodies}
Outputs == Pages \cup {Index} \cup Assets

ASSUME SiteAssumption ==
  /\ IsFiniteSet(Sources)
  /\ Drafts \subseteq Bodies /\ AssetLinkers \subseteq Bodies
  /\ OutOf \in [Sources -> [Bodies -> Pages]]
  /\ LinkOf \in [Bodies -> Sources \cup {None}]
  /\ {ContentTemplate, IndexTemplate, Partial} \subseteq Templates
  /\ Includers \subseteq TemplateBodies /\ ListReaders \subseteq TemplateBodies
  /\ Index \notin Pages /\ (Pages \cup {Index}) \cap Assets = {}
  /\ None \notin Sources \cup Bodies \cup Assets \cup Outputs \cup TemplateBodies

-----------------------------------------------------------------------------
(* Content entries.  "docs" maps each source path to its file, or None.     *)

(* A draft and a file that is not there give no entry. *)
Entries(docs) == {s \in Sources : docs[s] # None /\ docs[s].body \notin Drafts}

Out(docs, s) == OutOf[s][docs[s].body]

HasEntryLink(docs, s) == LinkOf[docs[s].body] # None

(* The URL of the page a body links, which its page's relative link names. *)
LinkUrl(docs, s) ==
  LET target == LinkOf[docs[s].body]
  IN IF target \in Entries(docs) THEN Out(docs, target) ELSE None

(* A link to a missing file or to a draft fails the conversion. *)
IsLinkBroken(docs, s) == HasEntryLink(docs, s) /\ LinkOf[docs[s].body] \notin Entries(docs)

IsAssetLinkBroken(docs, s, asset) == docs[s].body \in AssetLinkers /\ asset = None

(* manifest_add refuses a second claim on an output path. *)
Collides(docs) ==
  \E s, t \in Entries(docs) : s # t /\ Out(docs, s) = Out(docs, t)

IsRejected(docs, asset) ==
  \/ Collides(docs)
  \/ \E s \in Entries(docs) : IsLinkBroken(docs, s) \/ IsAssetLinkBroken(docs, s, asset)

(* Every path the manifest names. *)
Manifest(docs, asset) ==
  {Out(docs, s) : s \in Entries(docs)} \cup {Index} \cup ({asset} \ {None})

-----------------------------------------------------------------------------
(* Renders.  "files" maps each template path to its file, or None.          *)

(* The files a render reads, from the template it starts at. *)
Used(files, root) ==
  {root} \cup (IF files[root] # None /\ files[root].body \in Includers THEN {Partial} ELSE {})

(* A template or partial that cannot be read fails the render. *)
RenderFails(files, root) == \E t \in Used(files, root) : files[t] = None

(* Whether the render resolved content_entries or site.modified. *)
ReadsList(files, root) ==
  \E t \in Used(files, root) : files[t] # None /\ files[t].body \in ListReaders

Markup(files, root) ==
  [t \in Used(files, root) |-> IF files[t] = None THEN None ELSE files[t].body]

(* The entry list as a template sees it.  The URL of an asset in another    *)
(* entry's body is left out: no row tracks an asset, and what shows such a  *)
(* body follows the entry rows only.                                        *)
Listing(docs) ==
  {[out |-> Out(docs, s), body |-> docs[s].body, link |-> LinkUrl(docs, s)] :
     s \in Entries(docs)}

PageOf(docs, s, asset, files, recipe) ==
  [body   |-> docs[s].body,
   link   |-> LinkUrl(docs, s),
   asset  |-> IF docs[s].body \in AssetLinkers THEN asset ELSE None,
   markup |-> Markup(files, ContentTemplate),
   list   |-> IF ReadsList(files, ContentTemplate) THEN Listing(docs) ELSE {},
   recipe |-> recipe]

IndexOf(docs, files, recipe) ==
  [markup |-> Markup(files, IndexTemplate), list |-> Listing(docs), recipe |-> recipe]

CopyOf(asset) == [copy |-> asset]

(* The output tree that a build without a cache makes of its inputs, the    *)
(* reference that an incremental build is compared with.                    *)
FullTree(docs, asset, files, recipe) ==
  [o \in Outputs |->
     IF o \notin Manifest(docs, asset) THEN None
     ELSE IF o = Index THEN IndexOf(docs, files, recipe)
     ELSE IF o \in Assets THEN CopyOf(o)
     ELSE PageOf(docs, CHOOSE s \in Entries(docs) : Out(docs, s) = o, asset, files, recipe)]

-----------------------------------------------------------------------------
(* The build cache: the page recipe, a row for each entry under its page's  *)
(* output path, and a row for each template.                                *)
NoCache == [recipe |-> None, content |-> {}, templates |-> {}]

(* The stamp of a file, and what a failed os_stat leaves for a missing one. *)
Stamp(file) == IF file = None THEN None ELSE file.stamp

(* Mutant: a template that is gone keeps a row. *)
RowsOfEveryName(stats) == {[name |-> t, stamp |-> stats[t]] : t \in Templates}

TemplateRows(stats) == {[name |-> t, stamp |-> stats[t]] : t \in {u \in Templates : stats[u] # None}}

(* is_every_template_unchanged: the rows and the files match one to one. *)
TemplatesMatch(cache, stats) ==
  /\ cache.templates # {}
  /\ cache.templates = TemplateRows(stats)

RowsOf(cache, docs, s) ==
  {r \in cache.content : r.name = Out(docs, s) /\ r.stamp = docs[s].stamp}

(* is_every_entry_unchanged *)
EntriesMatch(cache, docs) ==
  /\ Cardinality(cache.content) = Cardinality(Entries(docs))
  /\ \A s \in Entries(docs) : RowsOf(cache, docs, s) # {}

(* Mutant: a page that read the entry list is never kept. *)
FreshRowsWithoutList(cache, docs, s, stats) ==
  {r \in RowsOf(cache, docs, s) : TemplatesMatch(cache, stats) /\ ~r.list}

(* The row that lets a build keep the page of s, if there is one. *)
FreshRows(cache, docs, s, stats) ==
  {r \in RowsOf(cache, docs, s) :
     TemplatesMatch(cache, stats) /\ (r.list => EntriesMatch(cache, docs))}

=============================================================================
