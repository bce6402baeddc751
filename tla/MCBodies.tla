------------------------------- MODULE MCBodies -------------------------------
(***************************************************************************)
(* Kinds of documents, each with the blocks and spans that meet in one      *)
(* another's callbacks.                                                     *)
(***************************************************************************)
EXTENDS Bodies

NoOptions == <<>>
Named     == {<<"name", "marked">>, <<"name", "other">>}
WithId    == {<<"attr_html", "id">>}
Captioned == {<<"caption", "other">>}
Org(options, keywords, blocks, spans) ==
  [format |-> "org", options |-> options, keywords |-> keywords, blocks |-> blocks, spans |-> spans]
Markdown(blocks, spans) ==
  [format |-> "markdown", options |-> NoOptions, keywords |-> {}, blocks |-> blocks, spans |-> spans]

MCDocuments ==
  { \* A figure's caption and the paragraphs of a footnote, each held in its own buffer.
    Org(NoOptions, Captioned, {"footnotes", "footnote", "quote", "p", "caption"}, {"link", "bold"}),
    \* A source block's caption, its code and its references; footnotes left out.
    Org(<< <<"f", "nil">> >>, Captioned, {"src", "caption", "example", "footnotes", "footnote"},
        {"coderef", "bold", "footnoteref"}),
    \* Names before elements that are nested, hidden or hold an id of their own.
    Org(<< <<"d", "nil">>, <<"d", "t">> >>, Named \cup WithId, {"drawer", "p", "src"}, {"link"}),
    Org(NoOptions, Named \cup WithId, {"special", "quote", "p"}, {"link"}),
    Org(NoOptions, Named, {"ul", "li", "center", "fixed"}, {}),
    \* Text that waits or is held inside a block: dashes, inline sources, hidden snippets.
    Org(NoOptions, Named \cup Captioned, {"section", "headline", "table", "tr", "td", "caption"},
        {"timestamp", "inlinesrc", "snippet", "target", "bold"}),
    \* The other blocks, in drawers that the last setting leaves out.
    Org(<< <<"d", "t">>, <<"d", "nil">> >>, {},
        {"section", "headline", "drawer", "verse", "export", "latex", "comment", "dl", "dt", "dd"},
        {"citation", "reference"}),
    Markdown({"p", "ul", "li", "quote", "src", "headline", "footnotes", "footnote", "special"},
             {"img", "link", "bold", "code", "math"}),
    Markdown({"p", "table", "tr", "th", "td", "export"}, {"img", "highlight", "footnoteref"}) }
=============================================================================
