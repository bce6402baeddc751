------------------------------- MODULE Inputs -------------------------------
(***************************************************************************)
(* What one invocation reads before it writes anything: the command line    *)
(* (src/app/cli.c, src/app/cli_dispatch.c), sosig.toml                      *)
(* (src/domain/site_config.c, src/app/cmd_config.c) and, for a build, the   *)
(* frontmatter of every source (src/app/cmd_build.c,                        *)
(* src/build/entry_renderer.c, src/domain/content_entry.c).                 *)
(*                                                                         *)
(* A site is what the directory holds: the table of its config and its      *)
(* sources, each with the directories it is under. SiteBuild goes on from   *)
(* the stage "build".                                                       *)
(***************************************************************************)
EXTENDS SiteConfig, CommandLine, Frontmatter

CONSTANTS Arguments, \* the elements a command line is made of
          MaxArgs,   \* bound: elements of a command line
          Sites,     \* what a working directory may hold
          Sections,  \* sections and slugs the permalinks are tried on
          Slugs
IsArgument(argument) ==
  /\ argument = [options |-> argument.options, value |-> argument.value]
  /\ argument.options \in Seq(ToSet(argument.options))
  /\ \A i \in 1..Len(argument.options) - 1 : argument.options[i] # "workers"

ASSUME InputsAssumption ==
  /\ MaxArgs \in Nat
  /\ \A argument \in Arguments : IsArgument(argument)
  /\ \A found \in Sites : IsFiniteSet(DOMAIN found.table) /\ \A key \in DOMAIN found.table : IsValue(found.table[key])
  /\ \A section \in Sections : IsSection(section)
  /\ \A slug \in Slugs : IsSlug(slug)

VARIABLES stage, args, cli, site, load, entries, order, exit
vars == <<stage, args, cli, site, load, entries, order, exit>>

NoSite == [table |-> <<>>, files |-> <<>>]
Unread == [is |-> "unread"]

Init ==
  /\ stage = "args" /\ args = <<>> /\ cli = NewCli
  /\ site = NoSite /\ load = NewLoad(<<>>)
  /\ entries = <<>> /\ order = <<>>
  /\ exit = "none"

Exit(code) == stage' = "done" /\ exit' = code

-----------------------------------------------------------------------------
(* The command line. *)

ReadElement ==
  /\ stage = "args" /\ Len(args) < MaxArgs
  /\ \E argument \in Arguments :
       /\ args' = Append(args, argument)
       /\ cli' = ReadArgument(cli, argument)
  /\ UNCHANGED <<stage, site, load, entries, order, exit>>

EndArgs ==
  /\ stage = "args"
  /\ cli' = Resolve(cli)
  /\ stage' = "resolved"
  /\ UNCHANGED <<args, site, load, entries, order, exit>>

\* cli_dispatch_print: a diagnostic that cannot be printed changes nothing.
PrintInstead ==
  /\ stage = "resolved" /\ cli.action # "run"
  /\ IF cli.action = "error" THEN Exit("usage") ELSE \E code \in {"ok", "failure"} : Exit(code)
  /\ UNCHANGED <<args, cli, site, load, entries, order>>

\* cli_dispatch_command: the command is all that is told apart from here on.
Dispatch ==
  /\ stage = "resolved" /\ cli.action = "run"
  /\ stage' = "config"
  /\ args' = <<>>
  /\ cli' = [NewCli EXCEPT !.action = "run", !.command = cli.command]
  /\ UNCHANGED <<site, load, entries, order, exit>>

-----------------------------------------------------------------------------
(* The config. *)

\* site_config_load: the file is read and parsed, and each key copied.
LoadConfig ==
  /\ stage = "config"
  /\ \E found \in Sites :
       /\ site' = found
       /\ load' = LoadFields(found.table)
  /\ stage' = "loaded"
  /\ UNCHANGED <<args, cli, entries, order, exit>>

\* The file cannot be read, or is no TOML.
FailToLoad ==
  /\ stage = "config"
  /\ Exit("failure")
  /\ UNCHANGED <<args, cli, site, load, entries, order>>

\* cmd_config_run: a config with a bad key is not printed.
PrintConfig ==
  /\ stage = "loaded" /\ cli.command = "config"
  /\ IF load.log = <<>> THEN \E code \in {"ok", "failure"} : Exit(code) ELSE Exit("failure")
  /\ UNCHANGED <<args, cli, site, load, entries, order>>

\* load_build_inputs: the roots must be there and walk without an error.
StopAfterLoad ==
  /\ stage = "loaded" /\ cli.command = "build"
  /\ Exit("failure")
  /\ UNCHANGED <<args, cli, site, load, entries, order>>

FindSources ==
  /\ stage = "loaded" /\ cli.command = "build"
  /\ load.rejected = {}
  /\ entries' = [i \in DOMAIN site.files |-> Unread]
  /\ stage' = "content"
  /\ UNCHANGED <<args, cli, site, load, order, exit>>

-----------------------------------------------------------------------------
(* The sources: parse_content_entry_job, one job each. *)

SourcePath(file) == load.config.content_dir \o <<"/">> \o FlattenSeq([i \in DOMAIN file.dirs |-> Append(file.dirs[i], "/")]) \o file.name

\* parse_content_entry_finalize_paths_section: each directory is a slug.
SectionOf(file) ==
  FoldLeft(LAMBDA section, dir : (IF section = <<>> THEN section ELSE Append(section, "/")) \o Slugify(dir),
           <<>>, file.dirs)

ReadSource(file) ==
  IF file.format = "org" THEN ReadOrg(file.lines, SourcePath(file))
  ELSE ReadMarkdown(file.lines, SourcePath(file), load.config.frontmatter_ignored_keys)

\* A draft gets no entry, and neither does a source with an error.
Parsed(file) ==
  LET reading == ReadSource(file)
      url     == Expand(load.config.permalink, SectionOf(file), reading.entry.slug)
  IN  CASE reading.faults # {}  -> [is |-> "failed", faults |-> reading.faults]
        [] reading.entry.isDraft -> [is |-> "draft"]
        [] OTHER -> [is |-> "entry", entry |-> reading.entry, url |-> url,
                     output |-> Join(load.config.output_dir, Tail(url))]

ParseEntry(i) ==
  /\ stage = "content" /\ entries[i] = Unread
  /\ entries' = [entries EXCEPT ![i] = Parsed(site.files[i])]
  /\ UNCHANGED <<stage, args, cli, site, load, order, exit>>

\* The source cannot be read, or its output is over a limit.
FailToParse(i) ==
  /\ stage = "content" /\ entries[i] = Unread
  /\ entries' = [entries EXCEPT ![i] = [is |-> "failed", faults |-> {"read"}]]
  /\ UNCHANGED <<stage, args, cli, site, load, order, exit>>

-----------------------------------------------------------------------------
(* The entries, once every job has ended. *)

Bytes == <<"-", ".", "/", "A", "_", "a", "b", "c", "h", "i", "s", "u">>
ByteRank(char) == CHOOSE i \in DOMAIN Bytes : Bytes[i] = char
TextBefore(a, b) ==
  \E k \in 0..Len(a) :
    /\ k < Len(b) /\ SubSeq(a, 1, k) = SubSeq(b, 1, k)
    /\ k = Len(a) \/ ByteRank(a[k + 1]) < ByteRank(b[k + 1])

(* Mutant: entries of one date are in no order. *)
IsBeforeByDate(a, b) == a.entry.date.epoch > b.entry.date.epoch

\* compare_content_entries: the newest first, then by output path.
IsBefore(a, b) ==
  \/ a.entry.date.epoch > b.entry.date.epoch
  \/ a.entry.date.epoch = b.entry.date.epoch /\ TextBefore(a.output, b.output)

Accepted == {i \in DOMAIN entries : entries[i].is = "entry"}

\* collect_content_entries: qsort leaves equal entries in any order.
Collect ==
  /\ stage = "content" /\ \A i \in DOMAIN entries : entries[i] # Unread
  /\ \E sorted \in SetToSeqs(Accepted) :
       /\ \A j \in 1..Len(sorted) - 1 : ~IsBefore(entries[sorted[j + 1]], entries[sorted[j]])
       /\ order' = sorted
  /\ stage' = "collected"
  /\ UNCHANGED <<args, cli, site, load, entries, exit>>

\* content_entry_modified_latest: a tie keeps the earlier entry.
Latest(i, j) == IF entries[j].entry.modified.epoch > entries[i].entry.modified.epoch THEN j ELSE i
SiteModified ==
  LET latest == entries[FoldLeft(Latest, order[1], Tail(order))].entry
  IN  CASE order = <<>> -> 0
        [] latest.modified.isSet -> latest.modified.epoch
        [] OTHER -> latest.date.epoch

\* run_build_phases: an error of any phase so far stops the build before a write.
Errors == load.log # <<>> \/ \E i \in DOMAIN entries : entries[i].is = "failed"
StopBuild ==
  /\ stage = "collected" /\ Errors
  /\ Exit("failure")
  /\ UNCHANGED <<args, cli, site, load, entries, order>>
GoOn ==
  /\ stage = "collected" /\ ~Errors
  /\ stage' = "build"
  /\ UNCHANGED <<args, cli, site, load, entries, order, exit>>

Next ==
  \/ ReadElement \/ EndArgs \/ PrintInstead \/ Dispatch
  \/ LoadConfig \/ FailToLoad \/ PrintConfig \/ StopAfterLoad \/ FindSources
  \/ \E i \in DOMAIN entries : ParseEntry(i) \/ FailToParse(i)
  \/ Collect \/ StopBuild \/ GoOn

Spec == Init /\ [][Next]_vars

-----------------------------------------------------------------------------
(* The command line: what its elements say, each where it stands. *)

IsBareCount(argument) == argument.options # <<>> /\ Last(argument.options) = "workers" /\ argument.value = ""
IsCount(i) == i > 1 /\ IsWord(args[i]) /\ IsBareCount(args[i - 1])
Words == {i \in DOMAIN args : IsWord(args[i]) /\ ~IsCount(i)}
\* The option is in the element, and before any that rejects its value.
Asks(i, option) ==
  \E k \in DOMAIN args[i].options :
    /\ args[i].options[k] = option
    /\ args[i].value # "" => \A j \in 1..k : args[i].options[j] # Last(args[i].options)
IsAsked(option) == \E i \in DOMAIN args : Asks(i, option)
HasCount(i) ==
  \/ args[i].value = "4" /\ Last(args[i].options) = "workers"
  \/ IsBareCount(args[i]) /\ i < Len(args) /\ IsWord(args[i + 1]) /\ args[i + 1].value = "4"
IsFaulty(i) ==
  /\ ~IsWord(args[i])
  /\ \/ ~(ToSet(args[i].options) \subseteq Options)
     \/ "workers" \in ToSet(args[i].options) /\ ~HasCount(i)
     \/ args[i].value # "" /\ Last(args[i].options) # "workers"
FlagsGiven == {flag \in ToSet(FlagOrder) :
                 IF flag = "workers" THEN \E i \in DOMAIN args : ~IsWord(args[i]) /\ HasCount(i) ELSE IsAsked(flag)}
IsRunnable ==
  /\ ~\E i \in DOMAIN args : IsFaulty(i)
  /\ \E i \in Words : Words = {i} /\ args[i].value \in Commands /\ FlagsGiven \subseteq FlagsAccepted(args[i].value)

\* Whatever the order of its elements, a command line that asks for the version
\* gets it, else one that asks for help does, else one with anything wrong is
\* refused with a message, the first thing wrong, and only the rest runs the one
\* command it names (cli.c:237-250, cli.c:199-200).
CommandLineIsResolved ==
  stage = "resolved" =>
    /\ cli.action = IF IsAsked("version") THEN "version"
                    ELSE IF IsAsked("help") THEN "help"
                    ELSE IF IsRunnable THEN "run" ELSE "error"
    /\ cli.error # <<>> <=> cli.action = "error"
    /\ cli.action = "run" => \A i \in Words : cli.command = args[i].value
    /\ cli.action = "error" /\ (\E i \in DOMAIN args : IsFaulty(i)) =>
         LET first == CHOOSE i \in DOMAIN args : IsFaulty(i) /\ \A j \in 1..i - 1 : ~IsFaulty(j)
         IN  cli.error[2] \in ToSet(args[first].options)

\* The exit code says what happened: only a refused command line is a usage
\* error, and a config with a wrong key is never printed as the resolved one
\* (cmd_config.c:30-31).
ExitIsTruthful ==
  stage = "done" =>
    /\ exit = "usage" <=> cli.action = "error"
    /\ exit = "ok" /\ cli.action = "run" => WrongKeys(site.table) = {}

InvocationIsAnswered == CommandLineIsResolved /\ ExitIsTruthful

-----------------------------------------------------------------------------
(* The config. *)

IsLoaded == stage \in {"loaded", "content", "collected", "build"}
Normalized(key, value) ==
  CASE key \in ToSet(Dirs) \cup {"base_url"} -> TrimTrailingSlashes(value[2])
    [] key \in ToSet(Templates) \cup {"frontmatter_ignored_keys"} -> [i \in DOMAIN value[2] |-> value[2][i][2]]
    [] OTHER -> value[2]

\* One load reports every wrong key, keys with one value once, and stores none of
\* them: a wrong key keeps its default, so that no later check reports the same
\* mistake again (site_config.c:465-468).
ConfigIsUsable ==
  IsLoaded =>
    LET log == load.log IN
    /\ {log[i][1] : i \in DOMAIN log} = WrongKeys(site.table)
    /\ \A i, j \in DOMAIN log : log[i][1] = log[j][1] /\ log[i][1] \notin ToSet(Templates) \cup {"frontmatter_ignored_keys"} => i = j
    /\ \A key \in ConfigKeys :
         load.config[key] = IF key \in DOMAIN site.table /\ IsRight(key, site.table[key])
                            THEN Normalized(key, site.table[key]) ELSE Default[key]
    /\ \A key \in ToSet(Dirs) : load.config[key] # <<>> /\ Last(load.config[key]) # "/"

\* The permalinks the four samples let through are safe for every entry: no
\* section and slug takes a page out of output_dir or leaves an empty segment,
\* and no two slugs of one section share a page (site_config.c:104-111).
PermalinksAreSafe ==
  stage = "loaded" =>
    \A section \in Sections :
      /\ \A slug \in Slugs :
           LET url == Expand(load.config.permalink, section, slug)
           IN  url[1] = "/" /\ IsSafeRelative(Tail(url))
      /\ \A one, other \in Slugs :
           Expand(load.config.permalink, section, one) = Expand(load.config.permalink, section, other) => one = other

\* A build goes past its config only if each key that names a directory or an
\* output was right (site_config.h:109-111, cmd_build.c:688-690).
RejectedOutputKeyStopsTheBuild ==
  stage = "content" =>
    WrongKeys(site.table) \cap (ToSet(Dirs) \cup ToSet(Templates) \cup {"permalink"}) = {}

-----------------------------------------------------------------------------
(* The sources. *)

\* The lines of a closed drawer, and the keywords of the leading run.
IsInDrawer(lines, i) ==
  \E p \in 1..i : lines[p][1] = "properties" /\ (\E e \in i..Len(lines) : lines[e][1] = "end") /\ ~\E e \in p..i - 1 : lines[e][1] = "end"
KeywordLines(lines, key) ==
  {i \in DOMAIN lines :
     /\ lines[i][1] = "keyword" /\ lines[i][2] = key /\ ~IsInDrawer(lines, i)
     /\ \A j \in 1..i : lines[j][1] \in {"blank", "comment", "keyword"} \/ IsInDrawer(lines, j)}
JoinedValue(lines, key) ==
  LET at == SetToSortSeq(KeywordLines(lines, key), <) IN FlattenSeq([k \in DOMAIN at |-> lines[at[k]][3]])

NextDay(date) ==
  CASE date[3] < DaysIn(date[1], date[2]) -> <<date[1], date[2], date[3] + 1>>
    [] date[2] < 12 -> <<date[1], date[2] + 1, 1>>
    [] OTHER -> <<date[1] + 1, 1, 1>>
DateIsCounted(date) == DaysFromCivil(NextDay(date)) = DaysFromCivil(date) + 1

\* An entry holds what its source says: an Org title and date are those of the
\* leading run, whatever drawers it passes, and each date is one day before the
\* next; a source with anything wrong has no entry (frontmatter.c:1095-1104,
\* toml.c:202-219).
EntryIsItsSource ==
  \A i \in DOMAIN entries :
    LET file  == site.files[i]
        entry == entries[i].entry
    IN  /\ entries[i].is = "entry" /\ file.format = "org" =>
             /\ KeywordLines(file.lines, "title") # {} /\ entry.title = JoinedValue(file.lines, "title")
             /\ Cardinality(KeywordLines(file.lines, "date")) = 1
             /\ DateIsCounted(JoinedValue(file.lines, "date")[1][2])
        /\ entries[i].is = "entry" /\ file.format = "md" =>
             LET table == TomlTable(FrontmatterOf(file.lines))
             IN  /\ DateIsCounted(table.date[2])
                 /\ entry.date.epoch = Epoch(table.date[2], table.date[3], table.date[4])
        /\ entries[i].is = "entry" =>
             /\ entry.slug # <<>> /\ ToSet(entry.slug) \subseteq SlugChars
             /\ entry.template # <<>> => IsSafeRelative(entry.template)
        /\ entries[i].is = "failed" /\ "read" \notin entries[i].faults /\ file.format = "org" =>
             \/ KeywordLines(file.lines, "title") = {}
             \/ Cardinality(KeywordLines(file.lines, "date")) # 1
             \/ entries[i].faults \cap {"date", "modified", "isDraft", "template"} # {}

\* The date of an entry as a calendar has it, for those of UTC midnight.
IsLater(one, other) ==
  \/ one[1] > other[1]
  \/ one[1] = other[1] /\ one[2] > other[2]
  \/ one[1] = other[1] /\ one[2] = other[2] /\ one[3] > other[3]
DateOf(i) == TomlTable(FrontmatterOf(site.files[i].lines)).date

\* Every template lists the entries newest first and no build of the same files
\* lists them in another order, and site.modified is the newest change of any of
\* them, whichever job ended first (content_entry.c:35-43, cmd_build.c:854-855).
EntriesAreOrdered ==
  stage = "collected" =>
    /\ ToSet(order) = Accepted /\ Len(order) = Cardinality(Accepted)
    /\ \A j, k \in DOMAIN order : j < k =>
         LET one == order[j]
             other == order[k]
         IN  /\ site.files[one].format = "md" /\ site.files[other].format = "md" =>
                  /\ DateOf(one)[3] = DateOf(other)[3] /\ DateOf(one)[4] = DateOf(other)[4] =>
                       ~IsLater(DateOf(other)[2], DateOf(one)[2])
             /\ entries[one].entry.date = entries[other].entry.date /\ entries[one].output # entries[other].output =>
                  TextBefore(entries[one].output, entries[other].output)
    /\ \A j \in DOMAIN order : SiteModified >= entries[order[j]].entry.modified.epoch
    /\ order # <<>> => \E j \in DOMAIN order : SiteModified = entries[order[j]].entry.modified.epoch
=============================================================================
