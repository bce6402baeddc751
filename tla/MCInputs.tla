------------------------------ MODULE MCInputs ------------------------------
(***************************************************************************)
(* Command lines, configs and sources for Inputs: one thing varies at a     *)
(* time, the rest of the site being right.                                  *)
(***************************************************************************)
EXTENDS Inputs

Word(value) == [options |-> <<>>, value |-> value]
Given1(options) == [options |-> options, value |-> ""]
Attached(options, value) == [options |-> options, value |-> value]

MCArguments ==
  {Word("build"), Word("config"), Word("4"), Word("x"),
   Given1(<<"version">>), Given1(<<"help">>), Given1(<<"verbose">>), Given1(<<"force">>), Given1(<<"workers">>),
   Given1(<<"x">>), Given1(<<"verbose", "help">>), Given1(<<"verbose", "workers">>),
   Attached(<<"version">>, "1"), Attached(<<"verbose">>, "1"), Attached(<<"help", "dry-run">>, "1"),
   Attached(<<"x", "help", "version", "help">>, "1"), Attached(<<"x", "version", "y">>, "1"), Attached(<<"x">>, "1"),
   Attached(<<"workers">>, "4"), Attached(<<"verbose", "workers">>, "0")}

Text(chars) == <<"string", chars>>
Name == <<"a">>
Tree == [base_url |-> Text(<<"http://", "a", "/">>), title |-> Text(Name), author |-> Text(Name)]
With(table, key, value) == [k \in DOMAIN table \cup {key} |-> IF k = key THEN value ELSE table[k]]
Without(table, keys) == [k \in DOMAIN table \ keys |-> table[k]]

\* Tables with one key of any value, without required keys, and with several wrong ones.
Values ==
  {Text(chars) : chars \in {<<>>, <<"/">>, <<"a", "/", "/">>, <<"a", "/", "b">>, <<".", ".">>, <<"#">>,
                            <<"http://">>, <<"http://", "/">>, <<"http://", ":">>, <<"http://", "b", "/", "/">>}} \cup
  {<<"nul", 0>>, <<"other", 0>>, <<"integer", -1>>, <<"integer", 0>>, <<"integer", FeedCountMax + 1>>} \cup
  {<<"array", items>> : items \in SeqOf({Text(Name), Text(<<".">>), <<"nul", 0>>, <<"other", 0>>}, 3)}
OneKey == {With(Tree, key, value) : key \in ConfigKeys \cup {"u"}, value \in Values}
Missing == {Without(Tree, keys) : keys \in SUBSET Required}
WrongKeyPairs ==
  {With(With(Tree, one, <<"other", 0>>), other, Text(<<"/">>)) : one, other \in ConfigKeys \cup {"u"}}
Tokens == {"{slug}", "{section}", "/", ".", "h"}
Permalinks == {With(Tree, "permalink", Text(pattern)) : pattern \in SeqOf(Tokens, 4)}

MCSections == {<<>>, <<"a">>, <<"h">>, <<"a", "/", "b">>}
MCSlugs    == {<<"a">>, <<"h">>, <<"u">>, <<"i", "-", "h">>}

\* Markdown: a title and a date, and at most two more keys, right or wrong.
Key(key, value) == <<"key", key, value>>
Day(date) == <<"date", date, 0, 0>>
Fence == <<"fence", "", 0>>
Markdown(dirs, name, lines) ==
  [format |-> "md", dirs |-> dirs, name |-> name, lines |-> <<Fence>> \o lines \o <<Fence>>]
Whole == <<Key("title", Text(Name)), Key("date", Day(<<2000, 2, 29>>))>>
More ==
  {Key("modified", <<"date", <<2000, 3, 1>>, 1, -2>>), Key("modified", Text(Name)), Key("slug", Text(<<"A", "_", "e'">>)),
   Key("slug", <<"nul", 0>>), Key("tags", <<"array", <<Text(Name)>>>>), Key("tags", <<"array", <<Text(Name), <<"other", 0>>>>>>),
   Key("draft", <<"boolean", TRUE>>), Key("draft", Text(Name)), Key("template", Text(Name)), Key("template", Text(<<".", ".">>)),
   Key("description", <<"other", 0>>), Key("u", Text(Name)), Key("title", Text(Name)), <<"text", "", 0>>}
MarkdownFiles ==
  {Markdown(<<>>, <<"a", ".", "b">>, Whole \o more) : more \in SeqOf(More, 2)} \cup
  {Markdown(<<>>, Name, <<Key("date", Day(<<2000, 1, 1>>))>>), Markdown(<<>>, Name, <<Key("title", Text(Name))>>),
   [format |-> "md", dirs |-> <<>>, name |-> Name, lines |-> Whole],
   [format |-> "md", dirs |-> <<>>, name |-> Name, lines |-> <<Fence>> \o Whole]}

\* Org: every leading run of a few lines.
Keyword(key, words) == <<"keyword", key, words>>
OrgDate(date) == <<"date", date>>
OrgLines ==
  {<<"blank", "", 0>>, <<"properties", "", 0>>, <<"end", "", 0>>, <<"text", "", 0>>,
   Keyword("title", <<"a">>), Keyword("title", <<"b">>), Keyword("date", <<OrgDate(<<2000, 2, 29>>)>>)}
OrgHead == <<Keyword("title", <<"a">>), Keyword("date", <<OrgDate(<<2000, 2, 29>>), <<"day", 0>>>>)>>
OrgMore ==
  {Keyword("date", <<OrgDate(<<1900, 2, 29>>)>>), Keyword("last_modified", <<OrgDate(<<2001, 1, 1>>), <<"time", 1>>>>),
   Keyword("last_modified", <<OrgDate(<<2001, 1, 1>>), <<"repeater", 0>>>>), Keyword("slug", <<>>),
   Keyword("draft", <<"true">>), Keyword("draft", <<"yes">>), Keyword("template", <<"a">>), Keyword("template", <<".">>),
   Keyword("filetags", <<"a", "b">>), Keyword("description", <<"a">>)}
Org(lines) == [format |-> "org", dirs |-> <<>>, name |-> Name, lines |-> lines]
OrgFiles == {Org(lines) : lines \in SeqOf(OrgLines, 4)} \cup {Org(OrgHead \o more) : more \in SeqOf(OrgMore, 2)}

\* Several entries: dates around the ends of months, years and eras.
Dates == {<<0, 1, 1>>, <<0, 2, 29>>, <<1900, 2, 28>>, <<1969, 12, 31>>, <<1970, 1, 1>>, <<2000, 2, 29>>, <<2000, 3, 1>>, <<9999, 12, 31>>}
Dated(date, dirs, name, more) == Markdown(dirs, name, <<Key("title", Text(Name)), Key("date", Day(date))>> \o more)
Pairs == {<<Dated(one, <<>>, <<"a">>, <<>>), Dated(other, <<>>, <<"b">>, <<>>)>> : one, other \in Dates}
Several ==
  {Dated(<<2000, 2, 29>>, <<>>, <<"b">>, <<>>), Dated(<<2000, 2, 29>>, <<<<"A", "#">>>>, <<"b">>, <<>>),
   Dated(<<2000, 3, 1>>, <<>>, <<"a">>, <<Key("draft", <<"boolean", TRUE>>)>>),
   Dated(<<1999, 12, 31>>, <<<<"a">>, <<"#">>>>, <<"c">>, <<Key("modified", Day(<<2001, 1, 1>>))>>),
   Dated(<<2000, 2, 29>>, <<>>, <<"c">>, <<Key("modified", Day(<<2000, 2, 1>>))>>)}
Triples == {<<a, b, c>> : a, b, c \in Several}

Files(table, lists) == {[table |-> table, files |-> list] : list \in lists}
MCSites ==
  {[table |-> table, files |-> <<>>] : table \in OneKey \cup Missing \cup WrongKeyPairs \cup Permalinks} \cup
  Files(Tree, {<<file>> : file \in MarkdownFiles \cup OrgFiles} \cup Pairs \cup Triples) \cup
  Files(With(Tree, "permalink", Text(<<"{slug}", "/", "{section}">>)), Triples) \cup
  Files(With(Tree, "frontmatter_ignored_keys", <<"array", <<Text(<<"u">>)>>>>),
        {<<file>> : file \in MarkdownFiles})
=============================================================================
