# Verification of sosig

`sosig` is a static site generator in C17: `sosig build` reads Markdown and Org
files, mustache templates, assets and `sosig.toml`, and writes a tree of HTML
pages, feeds and copied files.  A build is incremental (a cache of size and
modification time per input says which pages may be kept), parallel (each phase
runs its jobs on a pool of threads) and careful with its output directory (it
can list its work in a dry run, refuses outputs that collide, and removes the
files that no longer belong).

This directory holds TLA+ models of that code, TLC configurations that check
them on small instances, and TLAPS proofs of the theorems that matter most.
Paths such as `build/job.c` are relative to `src/src/`; the documents are
`src/README.md` and `src/ARCHITECTURE.md`.

    tlasany M.tla                      parse a module
    tlc -config X.cfg MCJobRun.tla     check a run (the table of runs is below)
    tlapm JobRunProofs.tla             check the proofs of a module

`PROJECT.json` lists the components, the runs, a mutant for every checked
property, the map from each definition to the lines it models, the hazards and
the theorems.

## Inventory

| Component | State | Operations | Hard behaviours | What makes it correct | Modelled |
|---|---|---|---|---|---|
| Parallel phases (`build/job.c`, `runtime/pool.c`) | claim counter, failure flag, per-job logs, progress count under a lock | start workers, claim, run, print progress, join, merge logs | interleaving of workers; threads that cannot start; short prints; report limits | each job once, merge after join, report independent of the schedule | `JobRun`, `JobPhase`, `JobReport` |
| Build (`app/cmd_build.c`) | `BuildState`: entries, fresh flags, counts of errors; the phases' order | load inputs, decide what is fresh, empty the cache, render, write the cache, prune | edits during a build, failed writes, a killed process, stale cache | an incremental build equals a full one; checks before changes | `SiteBuild` |
| Build cache (`domain/build_cache.c`) | rows of (path, size, mtime, flag), recipe line | parse, match, write | cut file, lost row, rows of another recipe | a row vouches only for a current output | `Site`, `SiteBuild` |
| Entry renderer (`build/entry_renderer.c`) | entry per source | stat, read, parse, convert, resolve links | stat and read are two calls | stamp never newer than the body | `SiteBuild` (jobs), `Site` (links) |
| Page renderer (`build/page_renderer.c`) | outcome per page | keep or render, write | kept page needs its flag from the old row | flag is right in every later build | `SiteBuild` |
| Site writer (`build/site_writer.c`) | none of its own | aggregates, feeds, asset and static copies | asset moved between walk and copy | aggregates follow the whole list | `SiteBuild` |
| Output writer (`build/output_writer.c`) | marks, dry-run flag | write, copy, remove, mkdirs, report | every change must pass here | a dry run changes nothing and predicts | `SiteBuild` |
| Output pruner (`build/output_pruner.c`) | directory stack, identities | walk the tree, remove stale files and empty directories | failed removals, symlinks, directories that are inputs | removes all that is stale and nothing else | `OutputTree`; `SiteBuild` (which files) |
| Templates (`build/template.c`) | files read once, expansion counters | load, expand partials, resolve names | recursion, limits | a render reads one consistent set | `Site` (what a render reads); the grammar and the limits are left out |
| Manifest (`domain/manifest.c`, `build/manifest_builder.c`, `build/output_path.c`) | hash trie over folded paths, ordered list, marks | add, find, mark, find prefix collision; checks of inputs against outputs | case-insensitive file systems, a file where a directory must be | no two outputs name one file, no output overwrites an input, a path is found however hashes collide | `ManifestTrie`, `Manifest`, `ManifestPaths`, `OutputTree`, `Site` (a collision in a build) |
| Directory walk (`runtime/walk.c`) | stack, visited identities | walk, skip, error | symlink cycles and aliases | each file once, none missing, under its own path | `Walk` |
| Host files (`runtime/fs.c`, `runtime/os*`) | file system | stat, read, write, mkdirs, remove | short reads and writes; two threads make one directory; the user writes meanwhile | what reports success is whole; no call fails for what another did | `HostTree` (directories, symlinks); `HostFiles` (system calls); effects of a failed write in `SiteBuild` |
| Memory (`runtime/memory.c`) | one reservation, a bump pointer | reserve, allocate, report out of memory | — | — | no: no other part reads its state back |
| Frontmatter, Org keywords, entries (`domain/frontmatter.c`, `domain/content_entry.c`) | entry fields, faults | parse a TOML table or a run of keywords, collect, sort | repeated keywords, drawers, dates across zones and leap days, ties in the order | an entry is what its source says; the order does not depend on the jobs | `Frontmatter`, `Inputs` |
| Configuration, permalinks, paths (`domain/site_config.c`, `domain/permalink.c`, `core/path.c`) | config record, log, what was rejected | parse, reject, default, expand, normalise | several wrong keys, defaults nobody chose, `..` and empty segments | a wrong key is reported once; a page never leaves `output_dir` | `SiteConfig`, `Names`, `Inputs` |
| Formats (`formats/markdown.c`, `org.c`, `highlight.c`, `html.c`) | what a converter holds back between callbacks; grammars under a lock; a block's memory; its open spans | enter and leave block or span, text; look up, parse, query, write | text held in one buffer while another is written; first use by two threads; free lists | HTML is well nested, a text is written once; one compile per grammar; spans nest | `OrgRender`, `MarkdownRender`, `BodyHtml`, `Bodies`; `Highlight`, `TreeMemory`, `HighlightWriter` |
| TOML adapter (`formats/toml.c`) | none | look up and convert values, reject unknown keys | dates and offsets | — | `Frontmatter`, `SiteConfig` (unknown keys, dates) |
| Command line (`app/cli*.c`, `app/main.c`) | parsed options | read options, resolve, dispatch, exit code | several errors, flags and informational options in any order | one answer, and the exit code that tells it | `CommandLine`, `Inputs` |
| Vendored libraries and generated parsers | — | — | — | — | no: third-party code |

### How the parts interact

The main thread calls the phases of `run_build_phases` one after the other.  A
phase that works per item (parse, convert, render) goes through `job_run`,
which starts a pool of worker threads, gives each job a log of its own, and
merges the logs after the join; between phases there is one thread.  Shared
state inside a phase is the claim counter and failure flag of the pool, the
progress count and its lock, the highlight-query cache and the file system.
Between phases everything passes through `BuildState`: the entries, which of
them are fresh, the counts of errors.  Between builds everything passes through
three things on disk: the inputs, `output_dir`, and the build cache.  The user
may change the first two at any moment, and nothing locks any of them.

## Modules

| Module | Models | Extends |
|---|---|---|
| `JobReport` | `job_run_report_errors`: which logs a phase shows and counts | — |
| `JobPhase` | the abstract phase: every job once in some order, then the serial report | `JobReport` |
| `JobRun` | `pool_run`, `pool_run_worker`, `job_run`, `job_run_one` and its progress line | `JobReport`; instantiates `JobPhase` |
| `JobRunProofs` | theorems about `JobRun` | `JobRun` |
| `MCJobRun` | outcomes for TLC | `JobRun` |
| `Site` | what a site's inputs mean: entries, links, collisions, what a render reads, cache rows and their match, the output of a full build | — |
| `SiteBuild` | builds over a site that its user edits, with faults and crashes | `Site` |
| `SiteBuildProofs` | theorems about `SiteBuild`: types, order of the checks and the changes, dry runs, builds with nothing to do | `SiteBuild` |
| `SiteCacheProofs` | what the cache vouches for, and the correctness of a build | `SiteBuildProofs` |
| `MCSiteBuild` | sites for TLC | `SiteBuild` |
| `HostTree` | the file system as `runtime/fs.c` uses it: identities, path resolution, listings, removals, writes | — |
| `ManifestPaths` | what a manifest promises: no two paths that fold alike, and which paths nest | — |
| `Manifest` | the calls of `domain/manifest.h` on a list of entries | `ManifestPaths` |
| `ManifestTrie` | `domain/manifest.c`: the same calls through the hash trie | `ManifestPaths`; instantiates `Manifest` |
| `ManifestTrieProofs` | theorems about `ManifestTrie` | `ManifestTrie` |
| `MCManifestTrie` | paths and hashes for TLC | `ManifestTrie` |
| `OutputTree` | the checks of `output_dir` and of every output path, the writes, the prune; a dry run before the build | `HostTree`, `ManifestPaths` |
| `MCOutputTree` | trees and outputs for TLC | `OutputTree` |
| `Walk` | `walk_files_with_suffixes` | `HostTree` |
| `WalkProofs` | theorems about `Walk`, after lemmas about data: functions whose recursion ends, closures, sorted orders | `Walk` |
| `MCWalk` | trees for TLC | `Walk` |
| `HostFiles` | `os_mkdirs`, `os_write`, `os_read`, system call by system call, on threads that run at once | — |
| `HostFilesProofs` | theorems about `HostFiles` | `HostFiles` |
| `MCHostFiles` | calls and trees for TLC | `HostFiles` |
| `TreeMemory` | the allocator a block's tree lives in: free lists by size over an arena | — |
| `HighlightWriter` | captures become spans, line by line | — |
| `Highlight` | threads that look up grammars, parse, query and write code blocks | `TreeMemory`, `HighlightWriter` |
| `HighlightProofs` | theorems about `Highlight` | `Highlight` |
| `MCHighlight` | code, matches and bounds for TLC | `Highlight` |
| `BodyHtml` | the HTML a converter writes, as open elements and counts | — |
| `OrgRender` | the callbacks of `formats/org.c` as changes of the render | `BodyHtml` |
| `MarkdownRender` | the callbacks of `formats/markdown.c` | `BodyHtml` |
| `Bodies` | documents, as the events a parser reports for them | `OrgRender`, `MarkdownRender` |
| `MCBodies` | families of documents for TLC | `Bodies` |
| `Names` | paths, slugs, permalinks: `core/path.c`, `core/text.c`, `domain/permalink.c` | — |
| `SiteConfig` | `site_config_load`, key by key | `Names` |
| `Frontmatter` | `frontmatter_parse_markdown` and `frontmatter_parse_org` | `Names` |
| `CommandLine` | `app/cli.c`: options, errors, what a command accepts | — |
| `Inputs` | one invocation up to its first write: command line, config, sources, their order | `CommandLine`, `SiteConfig`, `Frontmatter` |
| `InputsProofs` | theorems about `Inputs`: how a command line is answered, what a load leaves, where permalinks lead | `Inputs` |
| `MCInputs` | command lines, tables and sources for TLC | `Inputs` |

### The parallel phase: `JobRun`

One worker is one process.  `worker[w]` is its program counter and there is one
action per access to shared state: `ClaimJob` is the `atomic_fetch_add` of
`pool_run_worker`, `RunJob` the call of the job's function with its own log,
`LockProgress` .. `UnlockProgress` the critical section of
`job_run_one_print_progress`, `RecordResult` the store to the failure flag.  The
main thread creates (`StartWorker`, and `EndCreate` when all are started *or*
`pthread_create` failed), joins and merges.  `PrintLine` and `PrintRest` model
`os_print`, whose short write is retried.

A job is reduced to its *outcome*: its return code, the number of errors in its
log, and the cause of the first.  The code compares logs up to the attribution
of each line; a cause is what is left.  Which outcome a job has is chosen
before the phase, so the report can be compared across schedules.

### The build: `Site` and `SiteBuild`

An input file is a stamp (what `os_stat` gives: size and modification time) and
a body.  A rendered output is the record of *everything its render read*: body,
resolved link, templates with partials, entry list, recipe.  So two outputs are
equal exactly when no input that matters differs, and "the kept page is the one
a full build would write" is an equation, `tree = FullTree(...)`.

| Variable | In the code |
|---|---|
| `source`, `template`, `config`, `asset` | the inputs on disk |
| `tree`, `cache` | `output_dir`; the build cache file in it, `_sosig/v1-build-cache.tsv` |
| `build` | `BuildState` and the locals of the phases; `build.pc` is the phase |
| `plan`, `settled` | history: the last dry run's list; "nothing changed since a completed build" |
| `clock`, `faults` | bounds, and the source of fresh stamps |

One action stands for each step at which the user can come between:
`StatSource` and `ReadSource` are two steps because
`parse_content_entry_load_source` makes two calls; every page is statted,
rendered and written in one step by one job, and jobs run in any order.  The
phase order is that of `run_build_phases`: load the config (`Start`), walk,
parse, read the cache, stat the templates, convert and check (`ConvertBodies`),
empty the cache, pages, aggregate, asset, write the cache, prune.

The user (`User`) edits, deletes, renames and swaps sources, edits templates
and the configuration, moves the asset, deletes outputs.  `WriteOutput` fails
by leaving what was there or a torn file; `Crash` kills the process in any
phase, which includes a write in progress (the torn state is a fault of its
own).

Aggregates are represented by one, assets by one; feeds and static files go
through the same two functions.  Drafts, broken links, links to an asset, and
explicit slugs (an output path that does not follow the file name) are bodies.

### Directories: `HostTree`, `OutputTree` and `Walk`

`SiteBuild` treats the output directory as a map from paths to files.  These
modules look below that: two paths may name one file, because the user can put
symlinks, hard links and mounts anywhere, and the code therefore compares
*identities* (device and inode), not text.

A node of `HostTree` is an inode, so a node is an identity.  A directory maps
names to nodes and knows its `..`; a symlink holds a path.  `Resolve` is the
host's path resolution, with its limit on symlinks, and everything else is
built on it as `fs.c` builds on the calls: `Stat` and `Identity` are `os_stat`,
`Listing` is `os_list` with the classification of each entry, `RemoveFile`,
`RemoveDir`, `MakeDirs` and `WriteFile` are `os_remove`, `os_remove_dir`,
`os_mkdirs` and `os_write`.  `EntryName` lets the host ignore letter case.
Resolution itself is the operating system's and marked external.

`OutputTree` follows one build through `pc`: `CheckOutputDir`, `ClaimInputs`,
one `RegisterOutput` per output path, `EndRegister`, `PrepareOutputDir`, one
`WriteOutput` per path, then the prune.  `prune_dir` is recursive; its calls are
the frames of `stack`, each with the entries of its listing that are left, taken
in any order because `os_list` does not sort.  `StartPrune` and `PruneDir` enter
a directory, `LeaveDir` is its return and the removal after it, `PruneFile` and
`PruneFailedEntry` are the other kinds of entries.  A listing or a removal may
fail (`MaxFaults`).  `BuildAfterDryRun` starts the build over with the same
inputs.  The bytes of a written file are the output path it was written for.

`Walk` has one action per kind of entry, a call of `visit_dir` (`VisitDir`) and
a return (`LeaveDir`); `next` is the argument of the call.  `Reach` and
`EntriesBelow` in `HostTree` say declaratively what there is to find.  They are
what `ClaimInputs` uses, and `ListsEverything` says that the walk finds it.

### System calls: `HostFiles`

`SiteBuild` and `OutputTree` take a read or a write as one step.  `HostFiles` looks
below that step: one action per system call of `os_mkdirs`, `os_write` (of bytes
and of a file) and `os_read`, and `call[c]` holds the locals of one such call.

| Actions | In `runtime/fs.c` |
|---|---|
| `MakeDir`, `InspectDir`, `EndMakeDirs` | `mkdir` of each ancestor; `EEXIST` leads to a stat |
| `OpenSource`, `OpenTarget` | `open_regular` of the source before anything is made; `O_CREAT` and `O_TRUNC` |
| `WriteSome`, `ReadChunk`, `EndWrite` | `write_all`, which goes on after a short write; the loop of `os_write_source_stream` |
| `OpenRead`, `Fill`, `EndFill` | the limit against the size of `fstat`; `fread` to that size; the byte too many, the NUL |
| `Close`, `SystemCallFails` | the close, whose failure counts; any other failure |

A call that is interrupted is made again, which is a stutter.  Each call has a path
of its own to write to, because the manifest gives each output to one job and no
output is an input (`HostFilesAssumption`; `OutputsFit` and `InputsAreSafe` show
it).  The user changes files in place, by an append or a cut, and a save is a cut
and appends.  A file that is replaced by a rename is a new file, which an open
descriptor does not see.

### The manifest: `Manifest` and `ManifestTrie`

`Manifest` is the header: a sequence of entries (path, source, mark) in the
order they were recorded, and one action per call, which sets `result` to what
the call returns.  An entry is looked up under ASCII case folding by searching
the sequence.

`ManifestTrie` is the implementation.  `entry` is the same sequence, which the
code links through `next`; `slot` is the trie.  Because the code never moves a
node, a node's place is named by the digits that lead to it: the children of
the entry in slot `p` are the slots `p` with one digit appended, and
`slot[p]` is the entry there.  `Descent(path)` is the depth at which
`descend_trie` stops: the first slot on the way of the path's hash that is
empty or holds the path.  `Digit` shifts zeros in after the last digit of the
hash, so paths whose whole hashes agree form a chain.  The hash function is a
constant of which nothing is assumed but its range.

`OutputTree` takes the manifest at its word (`ManifestPaths`), which the
theorem `Implements` justifies.

### Code blocks: `Highlight`, `TreeMemory`, `HighlightWriter`

The convert phase runs on the pool, and every job may highlight.  `step[t]` is
where a thread is in its block.  `Find` is `highlight_grammar_find`; `Lock`,
`Install`, `Load` and `Unlock` are the critical section of the lookup, with the
replacement of tree-sitter's allocator, the compile of the query and the return
for a query that does not load; `Open` sets `tree_memory` and makes the parser;
`EndParse`, `CancelParse`, `Report` and `EndQuery` are the ends tree-sitter and
its two progress callbacks give; `Finish` writes what is left and deletes the
tree, and only `Clear` takes the allocator away.  Tree-sitter is external: what
it allocates (`Allocate`) and in which order it yields captures (`NextCapture`)
are choices.  `NextCapture` does what the code does with a capture: it judges
the match by its predicates, and of captures of one node keeps the last.

`TreeMemory` is `tree_memory_*`: an allocation has a header with the size it can
hold; a freed one goes on the list of that size, if the table has a slot for it;
a resize that does not fit takes a new one before it gives the old one back.  An
address is a number, reused only through a list.  `HighlightWriter` is the writer
of spans: a stack of captures that are open, each with where it ends, and the one
span that is written, which is closed at each end of line.

### Bodies: `BodyHtml`, `OrgRender`, `MarkdownRender`, `Bodies`

The parsers (org4c, md4c) are libraries that call back; the converters are the
code.  Each callback is an operator on the *render*, the record of the struct in
the source, with the same flags and depths: `EnterBlock`, `LeaveBlock`,
`EnterSpan`, `LeaveSpan`, `TextRun` for Org, `EnterMarkdownBlock` and so on for
Markdown.  The Org render has three buffers (body, footnote, caption) and the
one in use, what it holds back (dashes, a paragraph that may be a figure, a
source block, an inline source), what it skips, and the keywords that wait for
an element.

HTML is not text here: a buffer is the stack of its open elements (`Crossed`
marks an end tag that does not match) and two counts, of a *marked* text and of
a *marked* name.  A document may mark one text and one `#+NAME:`; the history
variables `textDue` and `idDue` say how often each must appear, read off the
document's own nodes (`IsHidden`, `WritesName`), never off the render.

`Bodies` is the parser seen from the code: `EnterBody`, `LeaveBody`,
`EnterObject`, `LeaveObject`, `ReadText` and `Keyword` report any document the
grammar of the library can give (`MayHoldBlock`, `MayHoldSpan`, `HoldsText`), so
`open` is the path in the document and `render` the state of the converter.

### An invocation: `CommandLine`, `Names`, `SiteConfig`, `Frontmatter`, `Inputs`

`Inputs` follows `main` to the point where `SiteBuild` starts; `stage` is how
far it has come.

| `stage` | Actions | In the code |
|---|---|---|
| `args` | `ReadElement`, `EndArgs` | `cli_parse`: the loop over elements, then `resolve` |
| `resolved` | `PrintInstead`, `Dispatch` | `cli_dispatch` |
| `config` | `LoadConfig`, `FailToLoad` | `site_config_load` |
| `loaded` | `PrintConfig`, `StopAfterLoad`, `FindSources` | `cmd_config_run`, `load_build_inputs` |
| `content` | `ParseEntry`, `FailToParse` | the jobs of the parse phase, in any order |
| `content`, `collected` | `Collect`, `StopBuild`, `GoOn` | `collect_content_entries`, the check of errors in `run_build_phases` |

A text is a sequence of characters from a small alphabet that has one of every
class the code tells apart (letters of both cases, a letter outside ASCII, dot,
dash, slash, a character no path may hold), so slugs, segments and permalinks
are computed as the code computes them.  A TOML value is its type and value; a
date is a civil date whose day number `DaysFromCivil` computes as `toml.c`
does; an Org source is a sequence of lines, of which the leading run of
keywords, comments and drawers is told apart.

## Runs

| Run | Shows | Instance |
|---|---|---|
| `JobRun_phase` | `JobsRunOnce`, `MergeAfterJoin`, `OutputIsOrdered` with short and failed prints; the threads implement `JobPhase`; `Terminates` | 3 verbose jobs, 2 workers, 4 outcomes, 1 shown log |
| `SiteBuild_edits` | `BuildCorrect`, `CacheSound`, `ChangesAreChecked` under edits of every kind at any moment | 2 sources, 3 templates, 2 recipes, 2 asset paths, 2 edits |
| `SiteBuild_dry` | `DryRunPredicts`, `NothingToDo`, and `BuildCorrect`, `CacheSound` under failed and torn writes, failed removals and crashes; `BuildEnds` | all four modes, explicit slugs, 1 edit, 1 fault |
| `SiteBuild_swap` | violates `LinksAreCurrent` (a finding) | 1 swap |
| `ManifestTrie_calls` | `IndexIsSound`, `EntriesStay`; the trie implements `Manifest` | 4 paths of 3 files, 2 sources, hashes of one digit |
| `OutputTree_trees` | every property of `OutputTree` over four families of trees (below) | see below; 1 fault |
| `Walk_links` | `ListIsExact`, `PrefersRealPaths` | 2 roots, 2 exclusions, 8 targets for each of two links at 4 places |
| `HostFiles_calls` | `SuccessIsWhole`, `FailuresHaveAReason` | pairs of calls that share a directory or a file; 3 user edits, 1 failing system call |
| `Highlight_blocks` | `QueriesAreCompiledOnce`, `QueriesStay`, `MemoryIsSound`, `SpansFollowCaptures`, `EveryBlockIsWritten` | 2 threads, 2 grammars of which one does not compile, 1 block each |
| `Bodies_documents` | `BodyIsWellFormed`, `MarkedTextIsWrittenOnce`, `NameIsWrittenOnce`, `CoderefsMarkTheirLines` | 9 families of documents, 6 levels deep |
| `Inputs_invocation` | `InvocationIsAnswered`, `ConfigIsUsable`, `PermalinksAreSafe`, `EntryIsItsSource`, `EntriesAreOrdered` | 20 elements of a command line, three at a time; tables, patterns and sources (below) |
| `Inputs_permalink` | violates `RejectedOutputKeyStopsTheBuild` (a finding) | as above, with shorter command lines |

The families of `OutputTree_trees` (`MCOutputTree`):

- pages: one or two outputs below an output directory with up to three entries
  of every kind at two levels (files, directories, links with six targets, a
  hard link to a source, a mounted content directory);
- spellings: fourteen spellings of `output_dir`, with `static_dir` below it,
  behind a link, or missing, and six targets of a link on the way;
- fresh: three outputs of six paths that nest, repeat or differ in case, into an
  empty or missing directory of a host that ignores case;
- prediction: a dry run and the build after it, with two stale directories and
  links that lead out.

The families of `Bodies_documents` (`MCBodies`) each put together what shares a
mechanism: figures and captions inside footnotes; source blocks with references
and captions; names before elements that nest, hide or hold an id of their own;
text that waits; blocks that settings leave out; and two of Markdown.

The sites of `Inputs_invocation` (`MCInputs`) vary one thing at a time: each key
of `sosig.toml` with every kind of value, pairs of wrong keys, every permalink
pattern of up to four tokens, a Markdown table with up to two keys beyond the
required ones, an Org source of a few lines, and pairs of sources whose dates
are the same or not.

### What the properties say

- `OutputIsOrdered` is two things.  `ReportIsDeterministic`: the report of a phase
  is a function of what its jobs did, and of whether any thread started; never of
  the schedule.  Every error is counted whichever logs are shown, because the
  build decides to go on by that count.  `ProgressIsOrdered`: progress lines
  come whole, the n-th line names n jobs, and the last one names them all, also
  when a print is short.
- `BuildCorrect`: a build that succeeds while its inputs stand still leaves
  exactly the output tree of a full build, whatever earlier builds, edits,
  faults and crashes left behind.
- `CacheSound` is the reason, stated at *every* state, including the middle of a
  build and after a crash: whatever a build started now would keep is current.
- `ChangesAreChecked`: nothing on disk changes before every source has parsed
  and the collision and link checks passed, and never in a dry run.
- `DryRunPredicts`: the dry run's list is what the next build does.
- `NothingToDo`: the cache works; without it, "never keep" would satisfy all of
  the above.
- `InputsAreSafe` (`OutputDirIsApart`, `InputsUntouched`, `RootsHoldNoOutput`):
  what the checks before the first write are for.  They are stated about the tree
  that the writes leave, not about the checks.
- `OutputsFit` (`OutputsAreDistinct`, `AcceptedOutputsFit`): what the manifest is
  for, on a host that ignores case, where `output_dir` holds no links: no output
  overwrites another or needs a directory where another needs a file.
- `IndexIsSound` (`Reachable`, `ClaimsAreDistinct`), `EntriesStay`: the trie finds
  each recorded path, holds no file twice, and moves nothing, not even when jobs
  mark entries.
- `PruneIsExact` (`OutputsSurvive`, `NothingStaleIsLeft`), `PruneStaysInside`: the prune takes no
  output and no link or directory an output is reached through, takes all the
  rest even when some removals fail, and unlinks only in the output tree proper.
- `PrunePredicted`: the dry run of the prune lists what the prune will remove.
- `ListIsExact` (`ListsEachFileOnce`, `ListsEverything`), `PrefersRealPaths`: the
  walk is a function of the tree, whatever symlinks it contains.
- `SuccessIsWhole` (`WritesAreWhole`, `ReadsAreWhole`): a write that reports success
  left every byte however short each write was, a copy all of a source that stood
  still; a read returns text within its limit, and one version of a file that only
  grew or only shrank meanwhile.
- `FailuresHaveAReason`: two jobs that make one directory at once both succeed, and a
  copy without a source makes nothing.
- `QueriesAreCompiledOnce`, `QueriesStay`: threads read a query without the lock
  after the lookup; that is right only because one thread at a time compiles,
  once per grammar, also when the compile fails, and nothing changes it later.
- `MemoryIsSound`: no two live allocations are one, a list holds only blocks of
  its size that nobody uses, and a query is never compiled into the memory of a
  block, which ends before it.
- `SpansFollowCaptures`: read off the output token by token: spans never nest
  wrongly or cross a line, every byte is written once and in order, under the
  class of the innermost capture that arrived for it.
- `BodyIsWellFormed`, `MarkedTextIsWrittenOnce`, `NameIsWrittenOnce`: whatever nests
  in whatever, the HTML is in balance, nothing is lost in a buffer or written
  from two, nothing stays held at the end, and a name becomes the id of exactly
  the element it stands before.
- `CoderefsMarkTheirLines`: references of a source block are held apart from its
  code and met again at the write; the decorated lines are the right ones.
- `InvocationIsAnswered`: whatever the order of the elements of a command line,
  version goes before help, help before errors, the first error is the one that
  is told, and the exit code says which of these it was.
- `ConfigIsUsable`: a load reports every wrong key, each once, and what it leaves
  is usable although some of it is wrong.
- `PermalinksAreSafe`: the code tries a pattern on four samples; what it accepts is
  safe and distinct for *every* section and slug of the instance.
- `EntryIsItsSource`, `EntriesAreOrdered`: an entry agrees with a declarative
  reading of its source (the keywords of the leading run; one day between a date
  and the next), and the order of entries and the date of the site do not depend
  on the order in which jobs ended.
- `BuildEnds`, `Terminates`, `EveryBlockIsWritten`: no step waits for something that
  cannot come.

### Bounds and why they are enough

- Jobs and workers: two workers are enough for any race on one counter, flag or
  lock; three jobs let a worker claim a second one, and let the report have a
  shown log with a repeated cause or a silent failure beside a log over the
  limit (`ReportMax` = 1).  The theorems hold for every number.
- Sources: the cache's rules relate a page to *its own* row, to *every* row, and
  to the *number* of rows; two sources tell these apart.  Three templates are a
  content template, an aggregate template and a partial that either may expand.
- `MaxClock` (edits) = 2: the hazards need one change during a build and one
  more that makes a later build look at what the first left.  What takes three, a
  template that comes and goes, is a known limit.  With `MaxFaults` = 1
  the fault strikes any step of any build, and any number of builds follow it.
- Builds are not bounded: `Start` is always enabled, and the state space is
  finite because the process forgets everything when it exits.
- Trees: three directory levels below the working directory and at most two
  user symlinks give every relation the code tells apart: a link to a sibling,
  an ancestor, an input root, outside, a file, itself, nowhere, through a file.
  `LinkMax` = 3 lets a link lead through another and still ends a cycle.
- System calls: the calls of a build meet in a directory they make, or in a file one
  copies and one reads, so pairs of calls are enough; with three bytes, chunks of
  two and three edits a file can be cut and written again between any two reads.
- Manifest: three files let a path be the root, a child, or below the last
  digit of its hash, and nest two levels deep; the theorems hold for every set
  of paths and every hash.
- Highlighting: two threads and a grammar each may share are enough for any race
  on one lock; a grammar that does not compile takes the other return.  Two
  allocator calls after the parser's are what it takes to free a block and to be
  served from its list; one slot fills the table.  The four matches give
  captures that nest, repeat on a node, cross a line end, and are turned down.
- Bodies: at six levels every family fits its deepest meeting of two mechanisms
  (a caption with a link, in a figure, in a quote, in a footnote).
- Invocations: three elements hold an option, its value and one more; since one
  thing varies at a time, a site has every wrong value alone and with one other.
- TLC uses no symmetry: sources and templates play different parts in the
  first sites.

### Fairness

`JobRun` has weak fairness of the main thread and of each worker: the host
schedules every runnable thread.  The mutex is not assumed fair; a worker
that waits for it can be overtaken only as often as there are other jobs.
`SiteBuild` has `WF_vars(Build)`: a process that runs makes progress.  Nothing
makes the user edit, start a build or kill one.  `Highlight` has weak fairness of
`Progress(t)` for each thread: a worker goes on, and tree-sitter's parse ends or
its query reports.  The lock is not assumed fair: a thread takes it once for
each block, and there are finitely many.

### Assumptions about the environment

- A changed file has a stamp it never had before.  The code cannot see a change
  that keeps size and modification time, and `src/README.md` says so.  A rename
  keeps the stamp, as on a real file system, and the first files have distinct
  stamps.
- Two files exchange names only while no build runs.  Two exchanges inside one
  job, between its stat and its read, would give a row the stamp of one file and
  the body of the other, and so would two renames in that window, which the runs
  leave out.
- Every site starts with all its templates; the user may delete one and make it again
  (see Known limits).
- A render reads its templates in one step.
- A page that prints *other* entries' bodies does not see their asset URLs:
  no row of the cache tracks an asset, a gap that `src/README.md` documents for
  aggregates and feeds.

- No one else changes the directories while `OutputTree` or `Walk` runs; the
  races of a build with its user are those of `SiteBuild`.
- In the passing runs of `OutputTree` a symlink in `output_dir` leads to no
  directory strictly below an input root, and where a dry run comes first no
  link leads nowhere or into a stale directory (see Known limits).  `OutputsAreDistinct` excepts an `output_dir` that
  holds links: `manifest_add` compares text, so an output that is a link to
  another output is accepted, and one overwrites the other.
- `NothingStaleIsLeft` excepts links that lead nowhere, which `os_list_classify`
  leaves out of every listing.
- Every output is written (`SiteBuild` models which are kept), and as if by page
  jobs: in any order, each attempted.

## Findings

Each is a run that TLC must refute: a place where the code does something else
than what a document or a comment says.

1. **Exchanged file names** (`SiteBuild_swap`).  Rows of the cache carry output
   paths, not source paths.  When two files with explicit slugs exchange their
   names every row still matches, so a page that links one of them *by file
   name* is kept with the URL of the other.  `ARCHITECTURE.md:99` says the match
   of every row covers a target that the user renames.
2. **A permalink of the wrong type** (`Inputs_permalink`).  `permalink = 1` is
   reported, but the result of that copy is dropped (`domain/site_config.c:479`),
   so `is_output_key_rejected` stays false, and the build goes on to read the
   content and check the outputs of the default permalink.  `domain/site_config.h:109`
   and `app/cmd_build.c:688` say that a rejected permalink stops the build first.
   The reported error still stops it before it writes; what the user sees is
   errors about pages that were never asked for.

### Known limits

Six more places where the code falls short of its documents.  The passing runs
leave these states or properties out, and each can be seen by changing a
configuration.

- **A cache cut after a row.**  The last newline is the only end mark of the cache
  file.  A write cut exactly after a row leaves a file that parses; once the user
  deletes the template whose row was lost, the remaining rows match, and a build
  keeps pages a full build could not make.  `ARCHITECTURE.md:103` says an
  interrupted build leaves a cache that the next one does not use.  In
  `SiteBuild_edits.cfg`: `Starts <- CutStarts`, `AllowCut = TRUE`,
  `Edits = {"template"}`, `MaxClock = 1`, `MaxFaults = 1`; `CacheSound` fails, and a few
  steps later `BuildCorrect`.
- **A template that comes and goes.**  The templates are listed once for the rows of the
  cache and opened later by each render.  A partial that is created after the list
  and deleted before the next build is in the pages and in no row, and the next
  build keeps them.  `ARCHITECTURE.md:97` says that the cache tracks all the partials
  and that none may be added or removed, and `domain/build_cache.h:28` that another
  change is the one way to silent wrong output.  In `SiteBuild_edits.cfg`:
  `Starts <- PartialStarts`, `Edits = {"template", "create"}`; `BuildCorrect` and
  `CacheSound` fail.
- **Generated files as inputs.**  The walk leaves out the identity of `output_dir` only,
  so a symlink from `content_dir` to a directory below it is followed.
  `README.md:123` and `runtime/walk.h:32` say that no symlink into `output_dir` brings
  generated files back.  In `Walk_links.cfg`: `Trees <- BehindTrees`,
  `INVARIANTS OutputsAreNotInputs`, which fails.
- **A save in place during a read.**  A file that is cut and written again to its old
  size between two reads is returned as a mix of both versions; the check of
  `os_read` is the size alone.  `runtime/os.h:149` rejects a
  file "that changes size during the read", and `runtime/fs.c:91` returns 0 when
  "exactly" the bytes, "stable", were read.  In `HostFiles_calls.cfg`: `INVARIANTS ReadsOneVersion`, which fails.  It
  does no lasting harm: the row keeps the older stamp, so the next build reads
  again (`CacheSound`).
- **An output inside an input root.**  Each directory on the way to an output is
  compared with the roots, not with what is below them, so a symlink in
  `output_dir` to `content/sub` is not found.  `README.md:129` says it is.  In
  `OutputTree_trees.cfg`: `Starts <- SubStarts`; `InputsAreSafe` fails.
- **A dead link in a stale directory.**  The listing skips a symlink that leads
  nowhere, so a directory that holds only one counts as emptied and cannot be
  removed, and each build fails in its prune, after a dry run that announced the
  removal and succeeded.  `README.md:165` lists the failures a dry run cannot
  find; this is not among them.  In `OutputTree_trees.cfg`:
  `Starts <- StaleTargetStarts`; `PrunePredicted` fails.

## Proofs

The theorems hold for every value of the constants that satisfies the named
`ASSUME`s (`JobReportAssumption`, `JobRunAssumption`, `SiteAssumption`,
`SiteBuildAssumption`, `ManifestTrieAssumption`, `HighlightAssumption`,
`HostFilesAssumption`, `HostTreeAssumption`, `WalkAssumption`, `InputsAssumption`), which
TLC evaluates in each run.  They say that the constants are what their comments say
(there are finitely many sources, grammars, nodes and names, at least one
thread, one free list and one size; a tree is one a host can hold, `IsTree`: the
entries of a directory are nodes in use, under the name the directory keeps; a
table is one the TOML parser can make, with finitely many keys; sections and slugs
are made of what `text_slugify` writes; no option follows `workers` in its element of
a command line, since copt gives it the rest of the element as its value),
and that `None` is none of the values it stands beside.  Two theorems have the hypothesis
`PlainEdits`, explained below.

`JobRunProofs`:

| Theorem | States |
|---|---|
| `TypeCorrect` | `Spec => []TypeOK` |
| `RunsOnce` | `Spec => []JobsRunOnce` |
| `MergesAfterJoin` | `Spec => []MergeAfterJoin` |
| `OutputOrdered` | `Spec => []OutputIsOrdered`, for every number of jobs, workers and shown logs |
| `Implements` | `Spec => ImplementsPhase`: every run of the threads is one of `JobPhase` |

`JobsRunOnce` is not inductive: nothing in it stops a worker that holds job 3
from being handed a counter that is still 3.  The inductive invariant `IInv`
adds that a job has run or is held exactly when its index is below the counter,
by at most one worker; that a job's log is its outcome once it ran; that a
worker that was not started has claimed nothing; that workers leave only when
the counter has reached `JobCount`; and that the number of counted jobs is that
of the jobs whose worker is past the count, which gives `completed = JobCount`
after the join.  Each action has one proof step, and under it one step per
conjunct it can disturb.  `Implements` follows from the invariant: `RunJob` maps
to `FinishJob`, `MergeLogs` to `Report` or `CannotStart`, everything else to a
stutter; the step needs the invariant because the report is computed from
`logs` in the code and from `outcome` in the abstract phase.

`OutputIsOrdered` needs two more invariants.  `ProgressInv` says that only the
thread that holds the lock is between its count and its print, so before its
print there is one line less than `completed`, and after it as many.
`ReportInv` says that a phase returned the serial report of its jobs' outcomes,
and `ScanIsRight` that this report is what `ReportIsDeterministic` describes.  The merge is a pass over the logs, a
recursive function, so this is an induction: `ScanSoFar` says what the pass
knows before job `k` (the shown logs are the first ones of each cause, in job
order, at most `ReportMax`; every failed log is counted), and `TotalOf` sums the
errors.  The
library's induction theorems take an operator as a parameter, which no installed
prover can instantiate; `SetInduction` states induction with a *set* of numbers
instead, from the well-foundedness of `<`, and `Recursion` derives from it that
the function the definition names exists.

`SiteBuildProofs`:

| Theorem | States |
|---|---|
| `TypeCorrect` | `Spec => []TypeOK` |
| `Consistent` | `Spec => []IInv` |
| `ChangesOnlyChecked` | `Spec => ChangesAreChecked`, for every site and any number of edits and faults |
| `DryRunsForetell` | `Spec => []DryRunPredicts` |
| `NothingLeftToDo` | `Spec => []NothingToDo` |

The step property looks only at the phase in which a write happens, while the
checks passed phases earlier.  `IInv` carries them across: from `convert` on no
job reads, every found source without an error has an entry, and from `empty`
on nothing is rejected.  For `TypeOK`, `TypesInv` adds what the types rest on: a
page that is rendered has an entry, what is marked is in the manifest, a build
that ended has an outcome.

The last two allow every edit, since they only speak of a site that nothing
changed.  A dry run's list and a build's marks are made one output at a
time, in any order, and each decision looks at `tree`, which the build changes
as it goes.  `MarksInv` therefore says that the marks made so far are those of a
decision over *some* set of outputs, those that were there when the build began
(`Progress`); `PlanInv` and `SettledInv` say what the recorded dry run and the
last completed build have to do with the cache and the outputs there are now, as long as
the present build has not changed them (`IsDiskKept`), and `LeavesInv` what a
build that completes leaves behind for the next.  The conjunction `PInv` is
inductive relative to `IInv`, `TypesInv` and `QuietInv`.

`SiteCacheProofs`:

| Theorem | States |
|---|---|
| `CacheStaysSound` | `PlainEdits => (Spec => []CacheSound)` |
| `BuildsAreCorrect` | `PlainEdits => (Spec => []BuildCorrect)` |

These are the main results: whatever was edited, however often builds failed or
were killed, a build that succeeds undisturbed leaves what a build without a
cache would.  `PlainEdits` restricts the edits to those under which the code
promises it: sources are written and deleted, templates written and deleted,
the recipe changes, the asset moves and outputs disappear.  Each edit it
excludes is one where the promise fails or rests on a bound (see Findings,
Known limits and the assumptions about the environment): a file that takes
another's name, a template that is made again, a cache cut after a row.  The runs check
renames and exchanges within their bounds; no theorem covers them.

`CacheSound` asks what a build would keep *if it started now*, which is not
inductive in the middle of a build.  `CacheInv` says what each part knows, in
terms that later edits cannot disturb: a stamp is never used twice (`StampsInv`);
an entry's file is its source as long as the source has the entry's stamp
(`DocsInv`, `IsAlive`); what the listed templates lacked is lacking still
(`StatsInv`); a row that still matches some source vouches for a page made of the
sources that the rows stand for, `Vouched` (`CachePagesInv`), and the aggregate
for all of them (`CacheIndexInv`); during a build, before it writes the
rows, the same of each page that was kept or rendered (`PagesInv`).  A page that neither lists
nor links depends on no source but its own, so its row alone is enough; any other
has the flag `list`, and then every row must match.  With it, `QInv` follows a
build that nothing disturbs: it knows its inputs (`UndisturbedInv`), never keeps a page
that links the asset (`LinkersInv`), and each output it is done with is that of a
full build, while the prune still has every other one to do (`DoneInv`).

`ManifestTrieProofs`:

| Theorem | States |
|---|---|
| `TypeCorrect` | `Spec => []TypeOK`, and with it that no slot is deeper than there are entries |
| `IndexStaysSound` | `Spec => []IndexIsSound`, the next two and the types together |
| `AlwaysReachable` | `Spec => []Reachable` |
| `AlwaysDistinct` | `Spec => []ClaimsAreDistinct` |
| `NothingMoves` | `Spec => EntriesStay` |
| `Implements` | `Spec => ImplementsManifest`: the trie is the list, in every call and result |

The inductive invariant is the conjunction of the three invariants.  The bound on the depth gives an empty slot on the way of every
path, so the descent ends (`DescentEnds`, by the least-number principle).
`Reachable` says that the descent for a recorded path passes only entries for
other paths and then meets its own, so a lookup finds the entry of a path if
there is one and none otherwise (`LookupFinds`); `ClaimsAreDistinct` follows,
since an entry is added only after a lookup found none.  A new entry occupies a
slot that was empty, so no older way changes (`RecordKeeps`).  With
`LookupFinds`, every call equals the call of the list; the scan for nested paths
needs the least-number principle once more (`CollisionIsNested`).

`HighlightProofs`:

| Theorem | States |
|---|---|
| `CompiledOnce` | `Spec => []QueriesAreCompiledOnce`, for any number of threads and any finite set of grammars |
| `CompiledStay` | `Spec => QueriesStay` |
| `MemorySound` | `Spec => []MemoryIsSound`, for any number of free lists, sizes and calls |

`QueriesAreCompiledOnce` says nothing of a thread between its lookup and its
compile, so it is not inductive: nothing in it stops a thread from compiling for
a language that names no grammar, or before the allocator is installed, or from
trusting a query number that no compile gave.  `GrammarsInv` adds that a thread
past the lookup has a grammar of the program, that the allocator is installed
before a load, and that only a loaded grammar has a query.  With them each action
keeps both; `Load` is the only one that changes `grammars`, and there the count of
loaded grammars grows by the one that was not loaded.

`MemorySound` rests on an invariant of one memory, `IsMemory`: addresses are
numbered, every live one is among them and holds what it was asked for, and the
addresses on the free lists are not live, are of their list's size, and stand
once on one list.  `SlotIsRight` says that the probe finds the slot of a size or an
unused one, and an unused slot's list is empty because no allocation has the
size -1; then `TakeIsSound`, `GiveIsSound` and `ResizeIsSound` follow call by call.
`MemoryInv` adds to it where a thread may be while the allocator serves its block.
`SlotIsRight` and `EachIsListedOnce` are the lemmas about data: the least
probe exists, and a sequence without repetitions has as many members as entries.

`HostFilesProofs`:

| Theorem | States |
|---|---|
| `SuccessStaysWhole` | `Spec => []SuccessIsWhole`, for any number of calls, paths and bytes, and any number of edits and failing calls |
| `FailuresKeepAReason` | `Spec => []FailuresHaveAReason`, likewise |

`SuccessIsWhole` speaks of calls that ended; the inductive invariant speaks of the
loops that lead there.  While a write runs, what its file holds followed by what
is left to write is the text (`BytesInv`), or is what the copy has read so far,
which is the start of a source that stood still (`CopyInv`).  Each byte of a read
stood at its place in *some* version, and some version has the size that was asked
for (`ReadInv`); `ChainIsOneVersion` concludes that where the versions extend each
other this is one of them.  A call that makes directories has made the one before
the one it is at (`DirsInv`).  `OthersStep` shows once that a step of one call
leaves all of this true of every other: it takes no directory and touches no file
but its own target, which by `HostFilesAssumption` nobody else writes, copies or
reads.  Then each action has a lemma about its own call.

A call fails at one moment and is judged later, when threads and user have
moved on.  `ReasonInv` keeps the reason of each failed call, and what the call has
passed so far: the ancestors behind it are directories, unless the user removed
them.  `Lasts` says what no step undoes (a file that was there stays one unless
the user removes its directory; no call makes another's source), so a reason once
given stays one.

`WalkProofs`:

| Theorem | States |
|---|---|
| `ListIsAlwaysExact` | `Spec => []ListIsExact`, for every tree with finitely many nodes, however its symlinks run, and every search |
| `RealPathsArePreferred` | `Spec => []PrefersRealPaths`, likewise |

Two definitions are recursive, and the first third of the module shows that they
mean what they say.  `Resolve` is a function because each step takes a name off the
path or follows one symlink more, of which it allows `LinkMax`; `Closure` is the
least set because a set of nodes cannot grow for ever.  Both follow from
the module's first lemmas, where the induction over a well-founded measure is done
once, with sets in place of predicates.  From there on only facts about them are used: a path
resolves to where its front resolves, followed by its last name; what is reached
contains the children of what is reached, and nothing smaller does.

The search itself has three places to keep what it still owes: the stack, the
path it is about to visit, and the symlinks it put off.  `DoneInv` says that every
entry of a directory that was entered is owed in one of them, or its file is on the
list, or its directory was visited; when the search ends nothing is owed, so the
visited directories are closed, and `ClosureFacts` makes them all there is to reach.
`FoundInv` is the converse, nothing was entered that is not reached.  `ListInv`
says that what is on the list is owed no more, which is why no file is listed
twice: a directory is on the stack at most once (`IsStack`), because it is visited
once under its identity, whichever path led there.  `RealInv` is what
`PrefersRealPaths` needs: as long as a directory that needs no symlink is
unvisited, no symlink was followed.  It holds at the first `FollowLink`, because then
the stack is empty and every entry but the symlinks was dealt with.

`InputsProofs`:

| Theorem | States |
|---|---|
| `LoadIsAlwaysOfSite` | `Spec => []LoadIsOfSite`: from the config on, the load is that of the site |
| `ConfigStaysUsable` | `Spec => []ConfigIsUsable`, for every table |
| `PermalinksStaySafe` | `Spec => []PermalinksAreSafe`, for every pattern, section and slug |
| `InvocationStaysAnswered` | `Spec => []InvocationIsAnswered`, for every command line |

No step after `LoadConfig` touches the load, so the invariant is short and the work
is in what `LoadFields` and `Expand` compute.

`ConfigStaysUsable` goes through the load in its order.  `IsAt` says where a load
stands: the keys that are *settled* have their final value and are in the log if
they are wrong; those that are *pending*, copied before their content is checked
(`base_url`, `permalink`, `content_template`), have the copied text and are in the log if
they are no text; every other key has its default and is not in the log.  `Settling`,
`Postponing` and `Checking` say how one step moves a key between the three, and that
no key is reported twice; there is one lemma for what each kind of step does to its
key (`CopyingString` .. `CopyingSize`), and `LoadSettles` puts them together.  A
check that runs after a failed copy sees the default, which therefore must pass it:
`DefaultDirs`, `DefaultTemplate`, `DefaultPermalink`.

`PermalinksStaySafe` is the claim that four expansions stand for all of them.  An
expansion is a fold over the pattern, which `ExpandIs` turns into a function of the
number of tokens read.  What makes a URL safe is read off its last characters
(`EndsAt`: right after a separator, in a word, after one dot or two), and each
token moves that state in the same way for any slug and any section that is not
empty (`TokensAlike`), because those hold no dot and neither start nor end with a
separator.  So the expansion with one sample goes through the states of the
expansion with any other (`ExpansionsAlike`), and is safe when that is
(`SampleVouches`).  That the two sample slugs give two pages can only be because the
pattern names the slug; then two slugs give two URLs: the shorter slug the shorter
one, and slugs of one length URLs of one length that differ, from the token on
(`AreApart`, `ApartGrows`, `SlugsShow`).  The text of a default
pattern goes through the same argument, so nothing is evaluated.

`InvocationStaysAnswered` says of any line, of any elements, what the parser's order of
reading hides: the property speaks of the line as a whole (is `version` asked for
anywhere, is anything in it faulty), the code of one option after another, and a
worker count may come from the next argument.  The options of an element are read by a
fold, which `ElementIsRead` turns into a function of how many were read
(`OptionIsRead` is one step of it): an option counts unless one before it rejected its
value.  `Knows` is the inductive part: after the first `n` elements, which
informational options and flags were asked for, whether an error is recorded (exactly
when one of them is faulty), which words are left, and whether a count is still due,
in which case the fault of the last element, or its flag, is not known yet
(`FaultyTo`, `GivesTo`).  An element settles a count that is due (`CountIsSettled`) and
is then read (`ElementIsPassed`); a word is the count or is kept (`WordIsRead`); what is
known stays known as the line grows (`KnownStays`).  `LineIsAnswered` is the end of the
line: the command, its flags and the choice of an action.  The exit codes after it
need the load of the config, so `ConfigStaysUsable` is used there.

Only model-checked, and why:

- `OutputTree`: `InputsAreSafe`, `PrunePredicted`, and with mounted input roots
  `PruneStaysInside` hold of the trees that the runs start from, not of every tree
  (see Known limits); a theorem about them, about `OutputsFit` or about
  `PruneIsExact` first needs hypotheses that say which trees those are.
- `SpansFollowCaptures`, the properties of `Bodies`, and of `Inputs` those about the
  entries and their order rest on what folds and recursive functions compute (the
  writer of spans, the render of a body, the keywords of a source, the calendar),
  each of which needs an induction of its own, as `ScanLogs`, `Resolve`, `Expand` and
  `ReadOptions` did.
- `Terminates`, `BuildEnds` and `EveryBlockIsWritten` are liveness under fairness,
  out of the prover's reach.

## Not modelled, and why

- The parsers of Markdown, Org, TOML and mustache are libraries, as are
  tree-sitter and its grammars: `Bodies` and `Highlight` model how the code
  uses them.
- The text of attributes, tags and messages, the numbers of footnotes, seconds of
  a timestamp, suffixes of a walk, the print of a configuration as TOML: no
  property is about them.
- The resolution of a link target to a path and of a denote identifier: `Site`
  starts from the resolved target.
- Limits on lengths (paths, URLs, template expansions, reservations of memory and
  their split among workers): arithmetic whose only outcome is a reported error.
- Two builds at once of the same site: the code takes no lock and promises
  nothing.
- Vendored and generated code.

## Plan

1. Theorems about `OutputTree`, with the trees they need as hypotheses.
2. `CacheSound` under renames outside of builds, and under exchanges for sites
   without links by file name.
3. `SpansFollowCaptures`, by induction over the captures.
4. `TemplateRender`: partials read once, expansion and nesting limits.
