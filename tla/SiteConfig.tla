----------------------------- MODULE SiteConfig -----------------------------
(***************************************************************************)
(* Loading sosig.toml (src/domain/site_config.c): each key is checked even  *)
(* after one failed, a wrong value is reported and not stored, and what     *)
(* must stop a build before it uses a default nobody chose is flagged.      *)
(*                                                                         *)
(* A table maps the keys a file gives to values <<type, value>>: "string"   *)
(* with its characters, "nul" (a string that holds a NUL), "array" with a   *)
(* sequence of values, "integer" with a number, or "other".                 *)
(***************************************************************************)
EXTENDS Names, Integers, Sequences, SequencesExt, FiniteSets

Dirs      == <<"content_dir", "output_dir", "templates_dir", "static_dir">>
Templates == <<"aggregate_templates", "feed_templates">>
ConfigKeys == {"base_url", "title", "author", "permalink", "content_template", "feed_count",
               "frontmatter_ignored_keys"} \cup ToSet(Dirs) \cup ToSet(Templates)
Required == {"base_url", "title", "author"}

Default == [base_url |-> <<>>, title |-> <<>>, author |-> <<>>,
            permalink |-> <<"/", "{section}", "/", "{slug}", ".", "h">>,
            content_dir |-> <<"c">>, output_dir |-> <<"b">>, templates_dir |-> <<"h">>,
            static_dir |-> <<"s">>, content_template |-> <<"c", ".", "h">>,
            aggregate_templates |-> << <<"i", ".", "h">> >>, feed_templates |-> << <<"a", ".", "h">> >>,
            feed_count |-> 10, frontmatter_ignored_keys |-> <<>>]

\* What the parser makes of a value: a text, or a list of values, is a sequence.
IsTexts(items) == \A i \in DOMAIN items : items[i][1] = "string" => items[i][2] \in Seq(ToSet(items[i][2]))
IsValue(value) ==
  /\ value[1] = "string" => value[2] \in Seq(ToSet(value[2]))
  /\ value[1] = "array" => value[2] \in Seq(ToSet(value[2])) /\ IsTexts(value[2])
  /\ value[1] = "integer" => value[2] \in Int

\* A load under way: the config so far, what it reported, and what it flagged.
NewLoad(table) == [table |-> table, config |-> Default, log |-> <<>>, rejected |-> {}]

Reported(load, key, what) == [load EXCEPT !.log = Append(@, <<key, what>>)]
Given(load, key) == key \in DOMAIN load.table

ReportedAll(load, reports) == [load EXCEPT !.log = @ \o reports]

\* toml_require_known_keys.
RequireKnownKeys(load) ==
  LET unknown == SetToSeq(DOMAIN load.table \ ConfigKeys)
  IN  ReportedAll(load, [i \in DOMAIN unknown |-> <<unknown[i], "unknown">>])

StringProblem(load, key) ==
  IF ~Given(load, key) THEN IF key \in Required THEN "missing" ELSE "none"
  ELSE CASE load.table[key][1] = "string" -> "none"
         [] load.table[key][1] = "nul"    -> "nul"
         [] OTHER -> "type"

CopyString(load, key) ==
  LET problem == StringProblem(load, key)
  IN  IF problem # "none" THEN Reported(load, key, problem)
      ELSE IF Given(load, key) THEN [load EXCEPT !.config[key] = load.table[key][2]]
      ELSE load

\* copy_strings: every unsafe name is reported, a wrong type and a NUL once each.
ItemProblem(item, isTemplateNames) ==
  IF item[1] = "string" THEN IF isTemplateNames /\ ~IsSafeRelative(item[2]) THEN "unsafe" ELSE "none"
  ELSE IF item[1] = "nul" THEN "nul" ELSE "type"

Nth(positions, k) == CHOOSE i \in positions : Cardinality({j \in positions : j <= i}) = k

CopyStrings(load, key, isTemplateNames) ==
  LET items    == load.table[key][2]
      problems == [i \in DOMAIN items |-> ItemProblem(items[i], isTemplateNames)]
      reported == {i \in DOMAIN items :
                     /\ problems[i] # "none"
                     /\ problems[i] # "unsafe" => \A j \in 1..i - 1 : problems[j] # problems[i]}
  IN  IF ~Given(load, key) THEN load
      ELSE IF load.table[key][1] # "array" THEN Reported(load, key, "type")
      ELSE IF reported # {}
      THEN ReportedAll(load, [k \in 1..Cardinality(reported) |-> <<key, problems[Nth(reported, k)]>>])
      ELSE [load EXCEPT !.config[key] = [i \in DOMAIN items |-> items[i][2]]]

FeedCountMax == 100  \* bound: PTRDIFF_MAX
CopySize(load, key) ==
  IF ~Given(load, key) THEN load
  ELSE IF load.table[key][1] # "integer" THEN Reported(load, key, "type")
  ELSE CASE load.table[key][2] < 0 -> Reported(load, key, "too small")
         [] load.table[key][2] > FeedCountMax -> Reported(load, key, "too large")
         [] OTHER -> [load EXCEPT !.config[key] = load.table[key][2]]

TrimTrailingSlashes(text) ==
  LET kept == {i \in 0..Len(text) : \A j \in i + 1..Len(text) : text[j] = "/"}
  IN  SubSeq(text, 1, CHOOSE i \in kept : \A j \in kept : i <= j)

\* A scheme, a character of its own here, and a host.
IsValidBaseUrl(url) ==
  Len(url) > 1 /\ url[1] = "http://" /\ url[2] \notin {"/", "?", "#", ":"}

\* A required key has no default: a rejected one goes back to empty.
NormalizeBaseUrl(load) ==
  IF IsValidBaseUrl(load.config.base_url)
  THEN [load EXCEPT !.config.base_url = TrimTrailingSlashes(@)]
  ELSE [Reported(load, "base_url", "invalid") EXCEPT !.config.base_url = <<>>]

(* Mutant: a directory of only slashes stays empty. *)
CopyDirEmptied(load, key) ==
  LET copied == CopyString(load, key)
  IN  IF Len(copied.log) > Len(load.log) THEN [copied EXCEPT !.rejected = @ \cup {key}]
      ELSE [copied EXCEPT !.config[key] = TrimTrailingSlashes(@)]

CopyDir(load, key) ==
  LET copied == CopyString(load, key)
      value  == TrimTrailingSlashes(copied.config[key])
  IN  IF Len(copied.log) > Len(load.log) THEN [copied EXCEPT !.rejected = @ \cup {key}]
      ELSE IF value = <<>>
      THEN [Reported(copied, key, "empty") EXCEPT !.config[key] = Default[key], !.rejected = @ \cup {key}]
      ELSE [copied EXCEPT !.config[key] = value]

RequireContentTemplate(load) ==
  IF IsSafeRelative(load.config.content_template) THEN load
  ELSE [Reported(load, "content_template", "unsafe")
        EXCEPT !.config.content_template = Default.content_template]

\* The samples a permalink is expanded with stand for every section and slug.
SectionSamples == <<<<"s">>, <<>>>>
SlugSamples    == <<<<"s", "-", "a">>, <<"s", "-", "b">>>>

(* Mutant: the permalink is tried in a section only. *)
CheckPermalinkInSection(pattern) ==
  LET Url(slug) == Expand(pattern, SectionSamples[1], slug)
  IN  IF \E j \in DOMAIN SlugSamples : ~IsSafeRelative(Tail(Url(SlugSamples[j]))) THEN "unsafe"
      ELSE IF Url(SlugSamples[1]) = Url(SlugSamples[2]) THEN "not distinct" ELSE "valid"

CheckPermalink(pattern) ==
  LET urls == [i \in DOMAIN SectionSamples |-> [j \in DOMAIN SlugSamples |->
                 Expand(pattern, SectionSamples[i], SlugSamples[j])]]
  IN  IF \E i \in DOMAIN urls : \E j \in DOMAIN urls[i] : ~IsSafeRelative(Tail(urls[i][j])) THEN "unsafe"
      ELSE IF \E i \in DOMAIN urls : urls[i][1] = urls[i][2] THEN "not distinct" ELSE "valid"

OutputKey == "output key"
RequireValidPermalink(load) ==
  LET verdict == CheckPermalink(load.config.permalink)
  IN  IF verdict = "valid" THEN load
      ELSE [Reported(load, "permalink", verdict)
            EXCEPT !.config.permalink = Default.permalink, !.rejected = @ \cup {OutputKey}]

CopyTemplates(load, key) ==
  LET copied == CopyStrings(load, key, TRUE)
  IN  IF Len(copied.log) > Len(load.log) THEN [copied EXCEPT !.rejected = @ \cup {OutputKey}] ELSE copied

\* site_config_load_fields: every key, in this order.
LoadFields(table) ==
  LET based    == CopyString(RequireKnownKeys(NewLoad(table)), "base_url")
      strings  == CopyString(CopyString(CopyString(CopyString(based, "title"), "author"), "permalink"),
                             "content_template")
      url      == IF StringProblem(based, "base_url") = "none" THEN NormalizeBaseUrl(strings) ELSE strings
      dirs     == CopyDir(CopyDir(CopyDir(CopyDir(url, Dirs[1]), Dirs[2]), Dirs[3]), Dirs[4])
      names    == RequireValidPermalink(RequireContentTemplate(dirs))
      lists    == CopySize(CopyTemplates(CopyTemplates(names, Templates[1]), Templates[2]), "feed_count")
  IN  CopyStrings(lists, "frontmatter_ignored_keys", FALSE)

(* What the keys of a table promise, each on its own. *)
IsText(value)      == value[1] = "string"
IsDirName(value)   == IsText(value) /\ TrimTrailingSlashes(value[2]) # <<>>
IsNames(value)     == value[1] = "array" /\ \A i \in DOMAIN value[2] : ItemProblem(value[2][i], TRUE) = "none"
IsStrings(value)   == value[1] = "array" /\ \A i \in DOMAIN value[2] : IsText(value[2][i])
IsRight(key, value) ==
  CASE key \in ToSet(Dirs)      -> IsDirName(value)
    [] key \in ToSet(Templates) -> IsNames(value)
    [] key = "base_url"         -> IsText(value) /\ IsValidBaseUrl(value[2])
    [] key = "permalink"        -> IsText(value) /\ CheckPermalink(value[2]) = "valid"
    [] key = "content_template" -> IsText(value) /\ IsSafeRelative(value[2])
    [] key = "feed_count"       -> value[1] = "integer" /\ value[2] \in 0..FeedCountMax
    [] key = "frontmatter_ignored_keys" -> IsStrings(value)
    [] OTHER                    -> key \in ConfigKeys /\ IsText(value)
IsWrong(table, key) == IF key \in DOMAIN table THEN ~IsRight(key, table[key]) ELSE key \in Required
WrongKeys(table) == {key \in ConfigKeys \cup DOMAIN table : IsWrong(table, key)}
=============================================================================
