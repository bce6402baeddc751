---------------------------- MODULE Frontmatter -----------------------------
(***************************************************************************)
(* What a content file says of itself: the TOML between a Markdown file's   *)
(* fences, or an Org file's leading keywords (src/domain/frontmatter.c,     *)
(* src/formats/toml.c). A file is [format, name, lines]; a line is          *)
(* <<kind, key, value>>, of kind "fence", "key" (a TOML key), "keyword" (an *)
(* Org one), "blank", "comment", "properties", "end" or "text".             *)
(*                                                                         *)
(* A TOML value is <<type, value>>, and a timestamp <<"date", date, time,    *)
(* offset>>; a keyword's value is a sequence of words. A date is            *)
(* <<year, month, day>>. Times are counted in half hours, and a timestamp of*)
(* an entry is [epoch, isSet]: its text is its epoch, written.              *)
(***************************************************************************)
EXTENDS Names, Integers, Sequences, SequencesExt, FiniteSets

IntDiv(a, b) == IF a >= 0 THEN a \div b ELSE -((-a) \div b)  \* C's, towards zero

\* days_from_civil: years start in March, so that a leap day ends one.
DaysFromCivil(date) ==
  LET year == IF date[2] <= 2 THEN date[1] - 1 ELSE date[1]
      era  == IntDiv(IF year >= 0 THEN year ELSE year - 399, 400)
      yoe  == year - era * 400
      doy  == (153 * (date[2] + (IF date[2] > 2 THEN -3 ELSE 9)) + 2) \div 5 + date[3] - 1
  IN  era * 146097 + yoe * 365 + yoe \div 4 - yoe \div 100 + doy - 719468

\* toml_datum_to_epoch: a time without an offset is one of UTC.
HalfHoursOfDay == 48
Epoch(date, time, offset) == DaysFromCivil(date) * HalfHoursOfDay + time - offset

IsLeapYear(year) == (year % 4 = 0 /\ year % 100 # 0) \/ year % 400 = 0
DaysIn(year, month) ==
  IF month = 2 /\ IsLeapYear(year) THEN 29
  ELSE <<31, 28, 31, 30, 31, 30, 31, 31, 30, 31, 30, 31>>[month]
IsDate(date) == date[2] \in 1..12 /\ date[3] \in 1..DaysIn(date[1], date[2])

-----------------------------------------------------------------------------
(* Markdown: TOML between fences. *)

Fences(lines) == {i \in DOMAIN lines : lines[i][1] = "fence"}

\* frontmatter_split: from a fence on the first line to the next one.
IsSplit(lines) == Cardinality(Fences(lines)) > 1 /\ 1 \in Fences(lines)
FrontmatterOf(lines) ==
  LET close == CHOOSE i \in Fences(lines) \ {1} : \A j \in Fences(lines) \ {1} : i <= j
  IN  SubSeq(lines, 2, close - 1)

\* toml_parse: external. A line that is no TOML, or a key given twice, is an error.
IsToml(lines) ==
  /\ \A i \in DOMAIN lines : lines[i][1] \in {"key", "blank", "comment"}
  /\ \A i, j \in DOMAIN lines : lines[i][1] = "key" /\ lines[j][1] = "key" /\ lines[i][2] = lines[j][2] => i = j
TomlTable(lines) ==
  LET keyed == {i \in DOMAIN lines : lines[i][1] = "key"}
  IN  [key \in {lines[i][2] : i \in keyed} |-> lines[CHOOSE i \in keyed : lines[i][2] = key][3]]

FrontmatterKeys == {"title", "date", "modified", "description", "slug", "tags", "draft", "template"}
NotSet == [epoch |-> 0, isSet |-> FALSE]
At(epoch) == [epoch |-> epoch, isSet |-> TRUE]

\* A field of an entry, and whether its source gave it an acceptable value.
Right(value) == [value |-> value, isRight |-> TRUE]
Wrong(value) == [value |-> value, isRight |-> FALSE]

\* What a file gave: its entry, and the keys reported, each checked even after
\* another failed.
Reading(fields, unknown) ==
  [entry |-> [key \in DOMAIN fields |-> fields[key].value],
   faults |-> {key \in DOMAIN fields : ~fields[key].isRight} \cup unknown]

IsTomlText(value) == value[1] = "string"
IsTimestamp(value) == value[1] = "date"
IsTags(value) == value[1] = "array" /\ \A i \in DOMAIN value[2] : IsTomlText(value[2][i])
TomlEpoch(value) == At(Epoch(value[2], value[3], value[4]))

ParseTitle(table) ==
  IF "title" \in DOMAIN table /\ IsTomlText(table.title) THEN Right(table.title[2]) ELSE Wrong(<<>>)
ParseDate(table) ==
  IF "date" \in DOMAIN table /\ IsTimestamp(table.date) THEN Right(TomlEpoch(table.date)) ELSE Wrong(NotSet)
\* An entry without it changed last at its date.
AtDate(date) == [date.value EXCEPT !.isSet = FALSE]
ParseModified(table) ==
  CASE "modified" \notin DOMAIN table -> Right(AtDate(ParseDate(table)))
    [] IsTimestamp(table.modified) -> Right(TomlEpoch(table.modified))
    [] OTHER -> Wrong(AtDate(ParseDate(table)))
ParseDescription(table) ==
  CASE "description" \notin DOMAIN table -> Right(<<>>)
    [] IsTomlText(table.description) -> Right(table.description[2])
    [] OTHER -> Wrong(<<>>)
ParseSlug(table, path) ==
  CASE "slug" \notin DOMAIN table -> Right(Slugify(BasenameWithoutExtension(path)))
    [] IsTomlText(table.slug) -> Right(Slugify(table.slug[2]))
    [] OTHER -> Wrong(<<>>)
ParseTags(table) ==
  CASE "tags" \notin DOMAIN table -> Right(<<>>)
    [] IsTags(table.tags) -> Right([i \in DOMAIN table.tags[2] |-> table.tags[2][i][2]])
    [] OTHER -> Wrong(<<>>)
ParseDraft(table) ==
  CASE "draft" \notin DOMAIN table -> Right(FALSE)
    [] table.draft[1] = "boolean" -> Right(table.draft[2])
    [] OTHER -> Wrong(FALSE)
ParseTemplate(table) ==
  CASE "template" \notin DOMAIN table -> Right(<<>>)
    [] IsTomlText(table.template) /\ IsSafeRelative(table.template[2]) -> Right(table.template[2])
    [] OTHER -> Wrong(<<>>)

\* frontmatter_parse_metadata. A key outside the schema has one letter here, so
\* that its text is that letter.
ParseMetadata(table, path, ignoredKeys) ==
  Reading([title |-> ParseTitle(table), date |-> ParseDate(table), modified |-> ParseModified(table),
           description |-> ParseDescription(table), slug |-> ParseSlug(table, path), tags |-> ParseTags(table),
           isDraft |-> ParseDraft(table), template |-> ParseTemplate(table)],
          {key \in DOMAIN table \ FrontmatterKeys : <<key>> \notin ToSet(ignoredKeys)})

NoReading(fault) == [entry |-> <<>>, faults |-> {fault}]
ReadMarkdown(lines, path, ignoredKeys) ==
  CASE ~IsSplit(lines) -> NoReading("fence")
    [] ~IsToml(FrontmatterOf(lines)) -> NoReading("toml")
    [] OTHER -> ParseMetadata(TomlTable(FrontmatterOf(lines)), path, ignoredKeys)

-----------------------------------------------------------------------------
(* Org: keywords in the leading run of the file. *)

\* cut_org_drawer: the line after the drawer's end; 0 when nothing ends it.
AfterDrawer(lines, from) ==
  LET ends == {i \in from..Len(lines) : lines[i][1] = "end"}
  IN  IF ends = {} THEN 0 ELSE 1 + CHOOSE i \in ends : \A j \in ends : i <= j

(* Mutant: a drawer ends the keywords. *)
FindOrgKeywordBeforeDrawer(lines, from, key) ==
  LET find[i \in 1..Len(lines) + 1] ==
        CASE i > Len(lines) -> 0
          [] lines[i][1] \in {"blank", "comment"} -> find[i + 1]
          [] lines[i][1] = "keyword" -> IF lines[i][2] = key THEN i ELSE find[i + 1]
          [] OTHER -> 0
  IN  find[from]

\* find_org_keyword: the first line, from one on, that sets a key; 0 when none
\* does. Blank lines, comments and drawers are passed, and anything else ends it.
FindOrgKeyword(lines, from, key) ==
  LET find[i \in 1..Len(lines) + 1] ==
        CASE i > Len(lines) -> 0
          [] lines[i][1] \in {"blank", "comment"} -> find[i + 1]
          [] lines[i][1] = "properties" ->
               LET after == AfterDrawer(lines, i + 1) IN IF after = 0 THEN 0 ELSE find[after]
          [] lines[i][1] = "keyword" -> IF lines[i][2] = key THEN i ELSE find[i + 1]
          [] OTHER -> 0
  IN  find[from]

\* join_org_keyword: the values of every line that sets a key, joined.
JoinOrgKeyword(lines, key) ==
  LET join[i \in 1..Len(lines) + 1] ==
        LET at == FindOrgKeyword(lines, i, key)
        IN  IF at = 0 THEN <<>> ELSE lines[at][3] \o join[at + 1]
  IN  join[1]
HasOrgKeyword(lines, key) == FindOrgKeyword(lines, 1, key) # 0
OrgKeyword(lines, key) == lines[FindOrgKeyword(lines, 1, key)][3]

\* parse_org_timestamp: a date, the name of its day, a time, and nothing more.
\* Words are <<kind, value>> here.
OrgTimestamp(words) ==
  LET IsDated   == words # <<>> /\ words[1][1] = "date" /\ IsDate(words[1][2])
      afterDate == Tail(words)
      time      == IF afterDate # <<>> /\ afterDate[1][1] = "day" THEN Tail(afterDate) ELSE afterDate
  IN  CASE ~IsDated -> NotSet
        [] time = <<>> -> At(Epoch(words[1][2], 0, 0))
        [] Len(time) = 1 /\ time[1][1] = "time" -> At(Epoch(words[1][2], time[1][2], 0))
        [] OTHER -> NotSet

ParseOrgTimestamp(lines, key, absent) ==
  LET value == OrgTimestamp(JoinOrgKeyword(lines, key))
  IN  CASE ~HasOrgKeyword(lines, key) -> absent
        [] value.isSet -> Right(value)
        [] OTHER -> Wrong(absent.value)

ParseOrgTitle(lines) ==
  IF HasOrgKeyword(lines, "title") THEN Right(JoinOrgKeyword(lines, "title")) ELSE Wrong(<<>>)
ParseOrgDate(lines) == ParseOrgTimestamp(lines, "date", Wrong(NotSet))
ParseOrgModified(lines) == ParseOrgTimestamp(lines, "last_modified", Right(AtDate(ParseOrgDate(lines))))
ParseOrgSlug(lines, path) ==
  Right(Slugify(IF HasOrgKeyword(lines, "slug") THEN OrgKeyword(lines, "slug")
                ELSE BasenameWithoutExtension(path)))
ParseOrgDraft(lines) ==
  CASE ~HasOrgKeyword(lines, "draft") -> Right(FALSE)
    [] OrgKeyword(lines, "draft") \in {<<"true">>, <<"false">>} -> Right(OrgKeyword(lines, "draft") = <<"true">>)
    [] OTHER -> Wrong(FALSE)
ParseOrgTemplate(lines) ==
  CASE ~HasOrgKeyword(lines, "template") -> Right(<<>>)
    [] IsSafeRelative(OrgKeyword(lines, "template")) -> Right(OrgKeyword(lines, "template"))
    [] OTHER -> Wrong(<<>>)

\* frontmatter_parse_org: the keys of a Markdown file's frontmatter.
ReadOrg(lines, path) ==
  Reading([title |-> ParseOrgTitle(lines), date |-> ParseOrgDate(lines), modified |-> ParseOrgModified(lines),
           description |-> Right(JoinOrgKeyword(lines, "description")), slug |-> ParseOrgSlug(lines, path),
           tags |-> Right(JoinOrgKeyword(lines, "filetags")), isDraft |-> ParseOrgDraft(lines),
           template |-> ParseOrgTemplate(lines)], {})
=============================================================================
