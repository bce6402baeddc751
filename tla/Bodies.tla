------------------------------- MODULE Bodies -------------------------------
(***************************************************************************)
(* Converting a body: org4c or md4c reports the document as events, blocks  *)
(* and spans entered and left in nesting order and text, and the converter's *)
(* callbacks write the HTML (OrgRender, MarkdownRender). Documents are of    *)
(* any length; only how deep they nest is bounded. One text and one name in  *)
(* the document are marked, so that what becomes of them can be followed.   *)
(*                                                                         *)
(* The parsers are external: which events they report is a choice, within   *)
(* what org4c.h and md4c.h say of nesting.                                  *)
(***************************************************************************)
EXTENDS OrgRender, MarkdownRender

CONSTANTS
  Documents,   \* [format, options, keywords, blocks, spans]: kinds of documents, each by
               \* its settings and the keywords, blocks and spans it holds
  MaxDepth,    \* bound: nodes open at once, the document included
  MaxSpans,    \* bound: spans open at once
  MaxCode      \* bound: text runs of a source block

VARIABLES
  document, \* the kind of document
  open,     \* the parser's open blocks and spans, the document first
  render,   \* the converter's state
  textDue,  \* how often the marked text must be written; -1 while there is none
  idDue     \* the same for the marked name

vars == <<document, open, render, textDue, idDue>>

-----------------------------------------------------------------------------
(* What the parsers report. *)

IsOrg == document.format = "org"

Containers == {"doc", "section", "quote", "center", "special", "drawer", "li", "dd", "footnote"}
Inline     == {"p", "headline", "td", "th", "verse", "caption", "dt"}
Verbatim   == {"src", "example", "fixed", "latex", "export", "comment"}
Lists      == {"ul", "ol", "dl"}
Elements   == Lists \cup {"p", "quote", "center", "special", "table", "drawer", "verse"}
                    \cup (Verbatim \ {"comment"})

\* Kinds: what an element's HTML depends on beside its type.
OrgKinds(type) ==
  CASE type = "p"       -> {"text", "link", "figure"}
    [] type \in {"src", "export", "inlinesrc", "snippet"} -> {"shown", "hidden"}
    [] type = "drawer"  -> {"other", "logbook"}
    [] type = "section" -> {"other", "footnotes"}
    [] type = "special" -> {"other", "admonition"}
    [] type = "link"    -> {"text", "image", "path"}
    [] type = "target"  -> {"plain", "radio"}
    [] OTHER            -> {"other"}
Kinds(type) == IF IsOrg THEN OrgKinds(type)
               ELSE {IF type = "special" THEN "admonition" ELSE IF type = "p" THEN "text" ELSE "other"}

\* An open node: how far it has come, and the keywords that wait for its next child.
NoKeywords == [is |-> FALSE, name |-> "", attrs |-> {}]
Node(type, kind) == [type |-> type, kind |-> kind, at |-> "start", keywords |-> NoKeywords, refs |-> {}, line |-> 0]
Doc == Node("doc", "other")

Top == Last(open)
SpanTypes == {"bold", "italic", "highlight", "code", "math", "timestamp", "link", "img", "target",
              "inlinesrc", "snippet", "footnoteref", "citation", "reference", "coderef"}
IsSpan(node) == node.type \in SpanTypes
ASSUME DocumentsAssumption ==
  \A kind \in Documents : kind.format \in {"org", "markdown"} /\ kind.spans \subseteq SpanTypes
Spans == Cardinality({i \in DOMAIN open : IsSpan(open[i])})

MayHoldBlock(parent, type) ==
  \/ /\ parent.type \in Containers
     /\ parent.at # "notes"
     /\ type \in Elements \cup (IF parent.keywords.is THEN {} ELSE {"comment"})
     /\ parent.type = "section" => parent.at # "start"
     /\ parent.at = "inline" => type \in Lists
  \/ parent.type = "doc" /\ parent.at # "notes" /\ ~parent.keywords.is /\ type = "section"
  \/ parent.type = "doc" /\ parent.at # "notes" /\ ~parent.keywords.is /\ type = "footnotes"
  \/ parent.type = "section" /\ parent.at = "start" /\ type = "headline"
  \/ ~IsOrg /\ parent.type \in Containers /\ parent.at \notin {"notes", "inline"} /\ type = "headline"
  \/ parent.type \in {"ul", "ol"} /\ type = "li"
  \/ parent.type = "dl" /\ type \in {"dt", "dd"}
  \/ parent.type = "table" /\ type = "tr"
  \/ parent.type = "tr" /\ type \in {"td", "th"}
  \/ parent.type = "footnotes" /\ type = "footnote"
  \/ parent.at = "captioned" /\ ~parent.keywords.is /\ type = "caption"

\* Objects and text: in a block of inline contents, in an unwrapped item, in a
\* span that holds objects. A paragraph of only a link holds nothing else.
HoldsObjects(node) ==
  \/ node.type \in Inline /\ node.kind \in {"text", "other"}
  \/ node.type \in {"li", "dd"} /\ node.at \in {"start", "inline"} /\ ~node.keywords.is
  \/ node.type \in {"bold", "italic", "link", "img", "highlight"}
MayHoldSpan(parent, span) ==
  \/ HoldsObjects(parent) /\ span.type \notin {"coderef", "reference"}
  \/ /\ parent.type = "p" /\ parent.kind # "text" /\ parent.at # "inline"
     /\ span.type = "link"
     /\ IF parent.kind = "figure" THEN span.kind = "image" ELSE span.kind # "image"
  \/ parent.type \in {"src", "example"} /\ parent.at # "line" /\ span.type = "coderef"
  \/ parent.type = "citation" /\ span.type = "reference"
HoldsText(node) ==
  \/ HoldsObjects(node) \/ node.type \in Verbatim
  \/ node.type \in {"code", "inlinesrc", "snippet", "timestamp", "coderef", "math"}
  \/ node.type = "target" /\ node.kind = "radio"

-----------------------------------------------------------------------------
(* What a document promises. *)

\* A #+OPTIONS: setting holds from the last time the file gives it.
IsAsked(key) ==
  LET given == {i \in DOMAIN document.options : document.options[i][1] = key}
  IN  given = {} \/ document.options[CHOOSE i \in given : \A j \in given : j <= i][2] # "nil"

\* Whether a node keeps its contents from being exported: org.c's settings, and
\* captions of elements that show none.
IsHidden(path) ==
  \E i \in DOMAIN path :
    LET node == path[i]
    IN  \/ node.type = "comment"
        \/ node.type \in {"src", "export", "inlinesrc", "snippet"} /\ node.kind = "hidden"
        \/ node.type = "drawer" /\ (node.kind = "logbook" \/ ~IsAsked("d"))
        \/ node.type = "section" /\ node.kind = "footnotes"
        \/ node.type = "footnotes" /\ ~IsAsked("f")
        \/ node.type = "link" /\ node.kind \in {"image", "path"}
        \/ /\ node.type = "caption" /\ path[i - 1].type \notin {"table", "src"}
           /\ path[i - 1].kind # "figure"
Due(path) == IF IsOrg /\ IsHidden(path) THEN 0 ELSE 1

\* Elements that write the name before them: some only when their attributes
\* hold no id of their own.
WritesName(node, attrs) ==
  \/ node.type \in {"src", "fixed", "verse", "center"}
  \/ node.type = "special" /\ node.kind = "admonition"
  \/ node.type = "p" /\ node.kind = "figure"
  \/ node.type \in Lists \cup {"p", "table", "quote", "example", "special"} /\ "id" \notin attrs

-----------------------------------------------------------------------------
(* Events. *)

Init ==
  /\ document \in Documents
  /\ open = <<Doc>>
  /\ render = IF IsOrg THEN EnterBlock(NewRender(ApplyInBufferOptions(document.options)), Doc)
              ELSE NewMarkdownRender
  /\ textDue = -1
  /\ idDue = -1

Entered(block) == IF IsOrg THEN EnterBlock(render, block) ELSE EnterMarkdownBlock(render, block)

\* The parent moves on when a child of it is entered.
Moved(parent, type) ==
  [parent EXCEPT !.keywords = NoKeywords,
     !.at = CASE type = "caption" -> "start"
              [] parent.type = "doc" /\ type = "footnotes" -> "notes"
              [] OTHER -> "blocks"]

EnterBody(type, kind) ==
  /\ Len(open) < MaxDepth
  /\ ~IsSpan(Top)
  /\ MayHoldBlock(Top, type)
  /\ LET keywords == Top.keywords
         node     == [Node(type, kind) EXCEPT !.at = IF keywords.is THEN "captioned" ELSE "start"]
         parents  == Append(Front(open), Moved(Top, type))
     IN  /\ open' = Append(parents, node)
         /\ render' = Entered(node)
         /\ idDue' = IF keywords.name = "marked"
                     THEN IF WritesName(node, keywords.attrs) THEN Due(open') ELSE 0
                     ELSE idDue
  /\ UNCHANGED <<document, textDue>>

\* An affiliated keyword, which comes before an element in its container, with
\* other keywords of the element before it or after it.
Keyword(key, value) ==
  /\ ~IsSpan(Top) /\ Top.type \in Containers /\ Top.at # "notes" /\ Top.at # "inline"
  /\ Top.type = "section" => Top.at # "start"
  /\ value = "marked" => textDue = -1 /\ idDue = -1 /\ Top.keywords.name # "marked"
  /\ Top.keywords.name = "marked" => key # "name"
  /\ LET block == [type |-> "keyword", key |-> key, value |-> value, isAffiliated |-> TRUE]
         held  == [Top.keywords EXCEPT !.is = TRUE,
                     !.name = IF key = "name" THEN value ELSE @,
                     !.attrs = IF key = "attr_html" THEN @ \cup {value} ELSE @]
     IN  /\ render' = LeaveBlock(EnterBlock(render, block), block)
         /\ open' = Append(Front(open), [Top EXCEPT !.keywords = held])
  /\ UNCHANGED <<document, textDue, idDue>>

\* A block ends once it holds what its kind needs.
LeaveBody ==
  /\ Len(open) > 1
  /\ ~IsSpan(Top)
  /\ ~Top.keywords.is
  /\ Top.type = "p" /\ Top.kind # "text" => Top.at = "inline"
  /\ Top.type \in {"src", "example"} => Top.at # "line"
  /\ Top.type = "section" => Top.at # "start"
  /\ render' = IF IsOrg THEN LeaveBlock(render, Top) ELSE LeaveMarkdownBlock(render, Top)
  /\ open' = Front(open)
  /\ UNCHANGED <<document, textDue, idDue>>

EnterObject(type, kind) ==
  /\ Len(open) < MaxDepth
  /\ Spans < MaxSpans
  /\ type = "coderef" /\ IsOrg => Len(render.code) < MaxCode
  /\ MayHoldSpan(Top, [type |-> type, kind |-> kind])
  /\ LET span == Node(type, kind)
         held == IF type = "coderef"
                 THEN [Top EXCEPT !.at = "line", !.refs = @ \cup {Top.line}]
                 ELSE [Top EXCEPT !.at = "inline"]
     IN  /\ open' = Append(Append(Front(open), held), span)
         /\ render' = IF IsOrg THEN EnterSpan(render, span) ELSE EnterMarkdownSpan(render, span)
  /\ UNCHANGED <<document, textDue, idDue>>

LeaveObject ==
  /\ IsSpan(Top)
  /\ Top.type = "coderef" => Top.at = "inline"
  /\ render' = IF IsOrg THEN LeaveSpan(render, Top) ELSE LeaveMarkdownSpan(render, Top)
  /\ open' = Front(open)
  /\ UNCHANGED <<document, textDue, idDue>>

\* The source block the text is in, and its text so far.
InSource == \E i \in DOMAIN open : open[i].type = "src" /\ (IsOrg => open[Len(open)].type \in {"src", "coderef"})

TextKinds ==
  (IF InSource \/ Top.type = "example" THEN {"code"} ELSE {"normal"})
  \cup (IF Top.type \in {"src", "example"} THEN {"nl"} ELSE {})
  \cup (IF IsOrg /\ HoldsObjects(Top) THEN {"dashes"} ELSE {})
  \cup (IF Top.type \in {"export", "snippet"} \/ (~IsOrg /\ HoldsObjects(Top)) THEN {"export"} ELSE {})

ReadText(kind, isMarked) ==
  /\ HoldsText(Top)
  /\ kind \in TextKinds
  /\ kind = "nl" => Top.line < MaxCode
  /\ isMarked => textDue = -1 /\ idDue = -1 /\ kind # "nl"
  /\ InSource /\ IsOrg => Len(render.code) < MaxCode
  /\ LET text == [kind |-> kind, isMarked |-> isMarked]
     IN  render' = IF IsOrg THEN TextRun(render, text) ELSE MarkdownText(render, text)
  /\ textDue' = IF isMarked THEN Due(open) ELSE textDue
  /\ open' = Append(Front(open),
               [Top EXCEPT !.at = CASE Top.type \in {"li", "dd", "p", "coderef"} -> "inline"
                                    [] kind = "nl" \/ @ = "captioned" -> "start"
                                    [] OTHER -> @,
                           !.line = IF kind = "nl" THEN @ + 1 ELSE @])
  /\ UNCHANGED <<document, idDue>>

Next ==
  \/ \E type \in document.blocks : \E kind \in Kinds(type) : EnterBody(type, kind)
  \/ \E keyword \in document.keywords : Keyword(keyword[1], keyword[2])
  \/ LeaveBody
  \/ \E type \in document.spans : \E kind \in Kinds(type) : EnterObject(type, kind)
  \/ LeaveObject
  \/ \E kind \in {"normal", "code", "nl", "dashes", "export"}, isMarked \in BOOLEAN : ReadText(kind, isMarked)

Spec == Init /\ [][Next]_vars

-----------------------------------------------------------------------------
(* Properties. *)

Buffers == IF IsOrg THEN {render.html, render.footnote, render.caption} ELSE {render.html}
IsOver  == Len(open) = 1

TypeOK ==
  /\ document \in Documents
  /\ Len(open) \in 1..MaxDepth
  /\ textDue \in -1..1 /\ idDue \in -1..1
  /\ \A buffer \in Buffers : buffer.text \in 0..2 /\ buffer.id \in 0..2

(* Every buffer of a render holds well-nested HTML whatever the document: a *)
(* held footnote or caption ends in the output it was started in, a         *)
(* paragraph that turns out a figure closes what it opened, and nothing is  *)
(* left open, held or skipped between the document's own blocks.            *)
BodyIsWellFormed ==
  /\ TypeOK
  /\ \A buffer \in Buffers : Crossed \notin ToSet(buffer.open)
  /\ IsOver => render.html.open = <<>>
  /\ IsOver /\ IsOrg =>
       /\ render.output = "html" /\ render.pendingDash = "none"
       /\ render.suppressDepth = 0 /\ render.rawLinkDepth = 0
       /\ ~render.isParagraphPending /\ ~render.isParagraphFigure /\ ~render.figureCaption
       /\ ~render.isInCaption /\ ~render.isInFootnote
       /\ ~render.isSourceHeld /\ ~render.isInlineSourceHeld
       /\ ~render.isInHiddenSnippet /\ ~render.isInHiddenInlineSource
  /\ IsOver /\ ~IsOrg => render.imageDepth = 0 /\ ~render.isInCodeBlock

(* A text reaches the page exactly once, unless the document keeps it from  *)
(* being exported, and then never: none is lost in a buffer that is started *)
(* again or written twice, and the dashes that end a text are not forgotten.*)
MarkedTextIsWrittenOnce == IsOver /\ textDue # -1 => render.html.text = textDue

(* A #+NAME: is the id of the one element it comes before, where that       *)
(* element has an id, and never of one inside it or after it.               *)
NameIsWrittenOnce == IsOver /\ idDue # -1 => render.html.id = idDue

Decorated ==
  LET out == SourceWritten(render)
  IN  {out[i][2] : i \in {j \in 1..(Len(out) - 1) : out[j][1] = "line" /\ out[j + 1] = OpenWith("span")}}

(* The lines of a source block that are decorated as referenced are those   *)
(* its code references were reported on, though the references are held     *)
(* apart from the code and met again when the block is written.             *)
CoderefsMarkTheirLines ==
  Top.type = "src" /\ IsOrg /\ render.suppressDepth = 0 => Decorated = Top.refs
=============================================================================
