------------------------------- MODULE OrgRender -------------------------------
(***************************************************************************)
(* The Org converter's callbacks (src/formats/org.c): what each does to the *)
(* state of one render, struct OrgRender, for every event of org4c. A render*)
(* is a record; a block or a span is a record [type, kind], kind being the  *)
(* detail its HTML depends on.                                              *)
(*                                                                         *)
(* Left out, as the wording of what is written: numbers of captions and     *)
(* lines, a verse's indentation, which entity stands for a dash, and the    *)
(* escapes of text, timestamps, entities and formulas.                      *)
(***************************************************************************)
EXTENDS Integers, Sequences, FiniteSets, SequencesExt, BodyHtml, HighlightWriter

NewRender(exports) ==
  [exports |-> exports, output |-> "html",
   html |-> EmptyBuffer, footnote |-> EmptyBuffer, caption |-> EmptyBuffer,
   edges |-> [first |-> "none", closes |-> 0, last |-> "none"],
   code |-> <<>>, coderefs |-> <<>>, sourceLineCount |-> 0, sourceName |-> "",
   inlineCode |-> 0, rawLinkDepth |-> 0, suppressDepth |-> 0, lastBlockType |-> "other",
   isLastBlockStandaloneLink |-> FALSE, figureCaption |-> FALSE, pendingDash |-> "none",
   affiliatedName |-> "", affiliatedAttrs |-> {}, isCollectingAffiliated |-> FALSE,
   isRawLinkImage |-> FALSE, isInHiddenSnippet |-> FALSE, isSourceHeld |-> FALSE,
   isInlineSourceHeld |-> FALSE, isInHiddenInlineSource |-> FALSE, isInFootnote |-> FALSE,
   isParagraphPending |-> FALSE, isParagraphFigure |-> FALSE, isInCaption |-> FALSE,
   isFirstLinkAffiliated |-> FALSE]

\* The ends of a footnote's body that write_footnote_close looks at: whether it
\* starts with a bare <p>, its </p>, and whether one of them ends it.
Edge(edges, token) ==
  [first  |-> CASE edges.first # "none" -> edges.first
                [] token = Open("p") -> "p"
                [] OTHER -> "other",
   closes |-> IF token = CloseOf("p") /\ edges.closes < 2 THEN edges.closes + 1 ELSE edges.closes,
   last   |-> IF token = CloseOf("p") THEN "p" ELSE "other"]

Write(render, tokens) ==
  LET put == [render EXCEPT ![render.output] = PutAll(@, tokens)]
  IN  IF render.output = "footnote" THEN [put EXCEPT !.edges = FoldLeft(Edge, @, tokens)] ELSE put

TextToken(isMarked) == IF isMarked THEN MarkedText ELSE Text

(* Mutant: the dashes wait for the next text. *)
FlushNoDashes(render) == render

\* flush_pending_dashes: every callback first writes the dashes that ended the
\* text before, to the output that text went to.
FlushPendingDashes(render) ==
  IF render.pendingDash = "none" THEN render
  ELSE [Write(render, <<TextToken(render.pendingDash = "marked")>>) EXCEPT !.pendingDash = "none"]

\* apply_in_buffer_options and apply_option: each #+OPTIONS: setting, in file
\* order, sets or clears its flag.
Settings == [f |-> "no footnotes", d |-> "no drawers"]
ApplyOption(exports, option) ==
  IF option[1] \notin DOMAIN Settings THEN exports
  ELSE IF option[2] = "nil" THEN exports \cup {Settings[option[1]]}
  ELSE exports \ {Settings[option[1]]}
ApplyInBufferOptions(options) == FoldLeft(ApplyOption, {}, options)

-----------------------------------------------------------------------------
(* Affiliated keywords. *)

ClearAffiliated(render) == [render EXCEPT !.affiliatedName = "", !.affiliatedAttrs = {}]

\* collect_affiliated_keyword: of several names the last applies; attributes add up.
CollectAffiliatedKeyword(render, keyword) ==
  LET started == IF render.isCollectingAffiliated THEN render
                 ELSE [ClearAffiliated(render) EXCEPT !.isCollectingAffiliated = TRUE]
  IN  CASE keyword.key = "name"      -> [started EXCEPT !.affiliatedName = keyword.value]
        [] keyword.key = "attr_html" -> [started EXCEPT !.affiliatedAttrs = @ \cup {keyword.value}]
        [] OTHER                     -> started

NameTokens(name) == IF name = "marked" THEN <<MarkedId>> ELSE <<>>

Name     == {"name"}
NameAttrs == {"name", "attrs"}

\* write_open_tag and write_affiliated_attributes: the id is the name's unless
\* the element takes the attributes and they hold an id.
OpenTag(render, tag, hasClass, parts) ==
  LET attrs == IF "attrs" \in parts THEN render.affiliatedAttrs ELSE {}
      name  == IF "id" \in attrs THEN "" ELSE render.affiliatedName
  IN  Write(render, <<(IF hasClass \/ attrs # {} \/ name # "" THEN OpenWith(tag) ELSE Open(tag))>>
                    \o NameTokens(name))

-----------------------------------------------------------------------------
(* Tags. *)

\* Tags that take the affiliated keywords, and whether they have a class of their own.
AffiliatedTags ==
  [ul |-> <<"ul", FALSE, NameAttrs>>, ol |-> <<"ol", FALSE, NameAttrs>>, dl |-> <<"dl", FALSE, NameAttrs>>,
   table |-> <<"table", FALSE, NameAttrs>>, quote |-> <<"blockquote", FALSE, NameAttrs>>,
   example |-> <<"pre", TRUE, NameAttrs>>, special |-> <<"div", TRUE, NameAttrs>>,
   fixed |-> <<"pre", TRUE, Name>>, verse |-> <<"p", TRUE, Name>>, center |-> <<"div", TRUE, Name>>]

\* Blocks with one tag of their own, and with none.
PlainTags == [li |-> "li", dt |-> "dt", dd |-> "dd", thead |-> "thead", tbody |-> "tbody",
              tr |-> "tr", th |-> "th", td |-> "td", headline |-> "h"]
BareBlocks == {"doc", "section", "drawer", "export", "dynamic"}

SpanTags == [italic |-> "em", bold |-> "strong", code |-> "code", strike |-> "del",
             underline |-> "span", superscript |-> "sup", subscript |-> "sub", citation |-> "span",
             coderef |-> "span", timestamp |-> "span"]

-----------------------------------------------------------------------------
(* Blocks. *)

IsBlockSuppressed(render, block) ==
  \/ block.type \in {"comment", "propertydrawer", "planning", "keyword"}
  \/ block.type \in {"export", "src"} /\ block.kind = "hidden"
  \/ block.type = "drawer" /\ (block.kind = "logbook" \/ "no drawers" \in render.exports)
  \/ block.type = "footnotes" /\ "no footnotes" \in render.exports
  \/ block.type = "section" /\ block.kind = "footnotes"

\* Only tables, source blocks and figures show their captions.
IsCaptionShown(render) ==
  render.lastBlockType \in {"table", "src"} \/ render.isLastBlockStandaloneLink

\* A figure's caption follows its image, so it is held until the paragraph ends.
WriteCaptionOpen(render) ==
  LET inside == [render EXCEPT !.isInCaption = TRUE]
  IN  CASE render.lastBlockType = "table" -> Write(inside, <<OpenWith("caption"), Text>>)
        [] render.lastBlockType = "src"   -> Write(inside, <<OpenWith("label"), Text>>)
        [] OTHER -> [inside EXCEPT !.caption = EmptyBuffer, !.output = "caption"]

(* Mutant: the output after a figure's caption is always the page. *)
WriteCaptionCloseToPage(render) ==
  LET outside == [render EXCEPT !.isInCaption = FALSE]
  IN  CASE render.lastBlockType = "table" -> Write(outside, <<CloseOf("caption")>>)
        [] render.lastBlockType = "src"   -> Write(outside, <<CloseOf("label")>>)
        [] OTHER -> [outside EXCEPT !.output = "html", !.figureCaption = TRUE]

BodyOutput(render) == IF render.isInFootnote THEN "footnote" ELSE "html"

WriteCaptionClose(render) ==
  LET outside == [render EXCEPT !.isInCaption = FALSE]
  IN  CASE render.lastBlockType = "table" -> Write(outside, <<CloseOf("caption")>>)
        [] render.lastBlockType = "src"   -> Write(outside, <<CloseOf("label")>>)
        [] OTHER -> [outside EXCEPT !.output = BodyOutput(render), !.figureCaption = TRUE]

\* A paragraph holding only a link may be a figure, which only the link tells.
WriteParagraphOpen(render, block) ==
  LET first == [render EXCEPT !.isFirstLinkAffiliated = render.affiliatedAttrs # {}]
  IN  IF block.kind = "text" THEN OpenTag(first, "p", FALSE, NameAttrs)
      ELSE [first EXCEPT !.isParagraphPending = TRUE]

FlushPendingParagraph(render, isFigure) ==
  IF ~render.isParagraphPending \/ render.output = "caption" THEN render
  ELSE LET decided == [render EXCEPT !.isParagraphPending = FALSE, !.isParagraphFigure = isFigure]
       IN  IF isFigure THEN Write(OpenTag(decided, "div", TRUE, Name), <<Open("p")>>)
           ELSE OpenTag(decided, "p", FALSE, NameAttrs)

WriteParagraphClose(render) ==
  LET flushed   == FlushPendingParagraph(render, FALSE)
      captioned == IF flushed.figureCaption
                   THEN LET numbered == Write(flushed, <<CloseOf("p"), Open("p"), Text>>)
                        IN  Write([numbered EXCEPT ![numbered.output] = PutBuffer(@, numbered.caption),
                                                 !.caption = EmptyBuffer],
                                  <<CloseOf("p")>>)
                   ELSE Write(flushed, <<CloseOf("p")>>)
      closed    == IF flushed.isParagraphFigure THEN Write(captioned, <<CloseOf("div")>>)
                   ELSE Write(flushed, <<CloseOf("p")>>)
  IN  [closed EXCEPT !.isParagraphFigure = FALSE, !.figureCaption = FALSE,
                     !.isFirstLinkAffiliated = FALSE]

\* What is held is dropped when the next block or footnote starts; it is not
\* looked at before, so here it is dropped as soon as it is written.
NoEdges == [first |-> "none", closes |-> 0, last |-> "none"]
DropSource(render) ==
  [render EXCEPT !.sourceName = "", !.code = <<>>, !.coderefs = <<>>, !.sourceLineCount = 0]
DropFootnote(render) == [render EXCEPT !.footnote = EmptyBuffer, !.edges = NoEdges]

StartSource(render) ==
  [DropSource(render) EXCEPT !.isSourceHeld = TRUE, !.sourceName = render.affiliatedName]

(* Mutant: a line passes on only its own reference, even when it has none. *)
CoderefNextAlways(render) == [line \in 0..Len(render.code) |-> line + 1]

\* The reference whose line is written next: each line takes at most one, and
\* passes the next on.
CoderefNext(render) ==
  LET next[line \in 0..Len(render.code)] ==
        IF line = 0 THEN 1
        ELSE LET at == next[line - 1]
             IN  IF at <= Len(render.coderefs) /\ render.coderefs[at] = line - 1 THEN at + 1 ELSE at
  IN  next

\* write_source_line_open, write_source_line_close: around each referenced line.
SourceLines(render) ==
  LET isReferenced(line) ==
        LET at == CoderefNext(render)[line]
        IN  at <= Len(render.coderefs) /\ render.coderefs[at] = line
  IN  [open  |-> [line \in 0..Len(render.code) |->
                    IF isReferenced(line) THEN <<OpenWith("span")>> ELSE <<>>],
       close |-> [line \in 0..Len(render.code) |->
                    IF isReferenced(line) THEN <<CloseOf("span")>> ELSE <<>>]]

\* body_html_code_write of the held code, by highlight.c's writer.
SourceWritten(render) ==
  WriterFinish(NewWriter([i \in DOMAIN render.code |-> IF render.code[i] = "nl" THEN "nl" ELSE "x"],
                         SourceLines(render))).out

WriteSourceBlock(render) ==
  LET Token(piece) ==
        CASE piece[1] \in {"open", "close"} -> piece
          [] piece[1] = "text" -> TextToken(render.code[piece[2] + 1] = "marked")
          [] OTHER -> Text
      pieces == SourceWritten(render)
  IN  DropSource(Write(render, CodeBlockOpen(NameTokens(render.sourceName))
                               \o [i \in DOMAIN pieces |-> Token(pieces[i])] \o CodeBlockClose))

StartFootnote(render) ==
  [DropFootnote(Write(render, FootnoteOpen)) EXCEPT !.isInFootnote = TRUE, !.output = "footnote"]

\* write_footnote_close: a body of one bare paragraph loses its tags, one that
\* ends with a paragraph takes the back references before its end, and any
\* other takes them after.
WriteFootnoteClose(render) ==
  LET out      == [render EXCEPT !.isInFootnote = FALSE, !.output = "html"]
      body     == render.footnote
      isSingle == render.edges = [first |-> "p", closes |-> 1, last |-> "p"]
      isEnding == ~isSingle /\ render.edges.last = "p"
      opened   == [body EXCEPT !.open = Append(@, "p")]
      put      == [out EXCEPT !.html = PutBuffer(@, IF isEnding THEN opened ELSE body)]
  IN  DropFootnote(Write(put, FootnoteBackReferences
                              \o (IF isEnding THEN <<CloseOf("p")>> ELSE <<>>) \o FootnoteClose))

WriteBlockOpen(render, block) ==
  LET type == block.type
  IN  CASE type = "p"   -> WriteParagraphOpen(render, block)
        [] type = "src" -> StartSource(render)
        [] type = "special" /\ block.kind = "admonition" ->
             Write(render, AdmonitionOpen(NameTokens(render.affiliatedName)))
        [] type = "latex"     -> Write(render, MathOpen)
        [] type = "footnotes" -> Write(render, FootnotesOpen)
        [] type = "footnote"  -> StartFootnote(render)
        [] type \in BareBlocks -> render
        [] type \in DOMAIN PlainTags -> Write(render, <<OpenWith(PlainTags[type])>>)
        [] OTHER -> LET tag == AffiliatedTags[type] IN OpenTag(render, tag[1], tag[2], tag[3])

(* Mutant: keywords apply until others come. *)
TakeAffiliatedOften(render, block) ==
  CASE block.type = "keyword" /\ block.isAffiliated ->
         IF render.suppressDepth = 0 THEN CollectAffiliatedKeyword(render, block) ELSE render
    [] block.type = "caption" -> render
    [] OTHER -> [render EXCEPT !.isCollectingAffiliated = FALSE]

\* What a block does to the keywords before it: an affiliated keyword adds to
\* them, a caption, the element's first child, leaves them, and any other block
\* takes those just reported and drops older ones.
TakeAffiliated(render, block) ==
  CASE block.type = "keyword" /\ block.isAffiliated ->
         IF render.suppressDepth = 0 THEN CollectAffiliatedKeyword(render, block) ELSE render
    [] block.type = "caption" -> render
    [] OTHER -> [(IF render.isCollectingAffiliated THEN render ELSE ClearAffiliated(render))
                 EXCEPT !.isCollectingAffiliated = FALSE]

EnterBlock(render, block) ==
  LET taken == TakeAffiliated(FlushPendingDashes(render), block)
      isCaption == block.type = "caption"
      entered == [taken EXCEPT
        !.lastBlockType = IF block.type \in {"table", "src", "p"} THEN block.type ELSE "other",
        !.isLastBlockStandaloneLink = block.type = "p" /\ block.kind # "text"]
  IN  CASE \/ taken.suppressDepth > 0
           \/ IsBlockSuppressed(taken, block)
           \/ isCaption /\ ~IsCaptionShown(taken) -> [taken EXCEPT !.suppressDepth = @ + 1]
        [] isCaption -> WriteCaptionOpen(taken)
        [] OTHER     -> WriteBlockOpen(entered, block)

WriteBlockClose(render, block) ==
  LET type == block.type
  IN  CASE type = "p"       -> WriteParagraphClose(render)
        [] type = "src"     -> WriteSourceBlock([render EXCEPT !.isSourceHeld = FALSE])
        [] type = "special" -> Write(render, AdmonitionClose)
        [] type = "latex"   -> Write(render, MathClose)
        [] type = "footnotes" -> Write(render, FootnotesClose)
        [] type = "footnote"  -> WriteFootnoteClose(render)
        [] type = "caption"   -> WriteCaptionClose(render)
        [] type \in BareBlocks -> render
        [] type \in DOMAIN PlainTags -> Write(render, <<CloseOf(PlainTags[type])>>)
        [] OTHER -> Write(render, <<CloseOf(AffiliatedTags[type][1])>>)

LeaveBlock(render, block) ==
  LET flushed == FlushPendingDashes(render)
  IN  IF flushed.suppressDepth > 0 THEN [flushed EXCEPT !.suppressDepth = @ - 1]
      ELSE WriteBlockClose(flushed, block)

-----------------------------------------------------------------------------
(* Spans and text. *)

\* A block that is not exported, and a link whose image or path is already
\* written, hide what is inside; a source block holds its own text.
IsSourceText(render) == render.isSourceHeld /\ ~render.isInCaption

\* hold_coderef: the reference marks the line that the text so far has come to.
HoldCoderef(render) == [render EXCEPT !.coderefs = Append(@, render.sourceLineCount)]

\* write_link_open, write_image: the first link of a paragraph takes its attributes.
WriteLinkOpen(render, link) ==
  LET taken == IF render.isInCaption THEN render ELSE [render EXCEPT !.isFirstLinkAffiliated = FALSE]
  IN  CASE link.kind = "image" ->
             [Write(taken, <<OpenWith("image"), Text, CloseOf("image")>>)
              EXCEPT !.isRawLinkImage = TRUE, !.rawLinkDepth = @ + 1]
        [] link.kind = "path" ->
             [Write(taken, <<OpenWith("a")>> \o LinkTarget)
              EXCEPT !.isRawLinkImage = FALSE, !.rawLinkDepth = @ + 1]
        [] OTHER -> Write(taken, <<OpenWith("a")>>)

WriteSpanOpen(render, span) ==
  LET type == span.type
  IN  CASE type = "snippet" -> [render EXCEPT !.isInHiddenSnippet = @ \/ span.kind = "hidden"]
        [] type = "link" -> WriteLinkOpen(render, span)
        [] type = "footnoteref" ->
             IF "no footnotes" \in render.exports THEN render ELSE Write(render, FootnoteReference)
        [] type = "inlinesrc" ->
             IF span.kind = "hidden" THEN [render EXCEPT !.isInHiddenInlineSource = TRUE]
             ELSE [Write(render, <<OpenWith("code")>>)
                   EXCEPT !.isInlineSourceHeld = TRUE, !.inlineCode = 0]
        [] type = "target" ->
             Write(render, <<OpenWith("a")>> \o (IF span.kind = "radio" THEN <<>> ELSE <<CloseOf("a")>>))
        [] type = "reference" -> Write(render, <<Open("cite"), Text, CloseOf("cite")>>)
        [] OTHER -> Write(render, <<Open(SpanTags[type])>>)

EnterSpan(render, span) ==
  LET flushed == FlushPendingDashes(render)
      isImage == span.type = "link" /\ span.kind = "image"
  IN  CASE flushed.suppressDepth > 0 -> flushed
        [] flushed.rawLinkDepth > 0  ->
             IF span.type = "link" THEN [flushed EXCEPT !.rawLinkDepth = @ + 1] ELSE flushed
        [] IsSourceText(flushed) -> HoldCoderef(flushed)
        [] OTHER -> WriteSpanOpen(FlushPendingParagraph(flushed, isImage), span)

\* end_inline_source.
EndInlineSource(render) ==
  IF render.isInHiddenInlineSource THEN [render EXCEPT !.isInHiddenInlineSource = FALSE]
  ELSE [Write(render, (IF render.inlineCode = 0 THEN <<Text>> ELSE <<MarkedText>>) \o <<CloseOf("code")>>)
        EXCEPT !.isInlineSourceHeld = FALSE]

WriteSpanClose(render, span) ==
  LET type == span.type
  IN  CASE type = "link"      -> Write(render, <<CloseOf("a")>>)
        [] type = "inlinesrc" -> EndInlineSource(render)
        [] type = "target"    -> IF span.kind = "radio" THEN Write(render, <<CloseOf("a")>>) ELSE render
        [] type \in {"footnoteref", "reference"} -> render
        [] OTHER -> Write(render, <<CloseOf(SpanTags[type])>>)

LeaveRawLink(render, span) ==
  IF span.type # "link" THEN render
  ELSE LET left == [render EXCEPT !.rawLinkDepth = @ - 1]
       IN  IF left.rawLinkDepth = 0 /\ ~left.isRawLinkImage THEN Write(left, <<CloseOf("a")>>) ELSE left

LeaveSpan(render, span) ==
  LET flushed == FlushPendingDashes(render)
  IN  CASE flushed.suppressDepth > 0 -> flushed
        [] span.type = "snippet"     -> [flushed EXCEPT !.isInHiddenSnippet = FALSE]
        [] IsSourceText(flushed)     -> flushed
        [] flushed.rawLinkDepth > 0  -> LeaveRawLink(flushed, span)
        [] OTHER                     -> WriteSpanClose(flushed, span)

\* A text run: dashes that end it wait for the next callback. The text of a
\* source block, or of an inline source, is held until that ends.
WriteText(render, text) ==
  LET mark == IF text.isMarked THEN "marked" ELSE "plain"
  IN  CASE IsSourceText(render) ->
             [render EXCEPT !.code = Append(@, IF text.kind = "nl" THEN "nl" ELSE mark),
                            !.sourceLineCount = IF text.kind = "nl" THEN @ + 1 ELSE @]
        [] text.kind = "dashes" -> [FlushPendingParagraph(render, FALSE) EXCEPT !.pendingDash = mark]
        [] text.kind = "export" -> Write(FlushPendingParagraph(render, FALSE),
                                         IF text.isMarked THEN <<MarkedText>> ELSE <<Raw>>)
        [] OTHER -> Write(FlushPendingParagraph(render, FALSE), <<TextToken(text.isMarked)>>)

TextRun(render, text) ==
  LET flushed == FlushPendingDashes(render)
  IN  CASE \/ flushed.suppressDepth > 0 \/ flushed.rawLinkDepth > 0
           \/ flushed.isInHiddenSnippet \/ flushed.isInHiddenInlineSource -> flushed
        [] flushed.isInlineSourceHeld ->
             [flushed EXCEPT !.inlineCode = IF text.isMarked THEN @ + 1 ELSE @]
        [] OTHER -> WriteText(flushed, text)
=============================================================================
