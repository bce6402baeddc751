---------------------------- MODULE MarkdownRender ----------------------------
(***************************************************************************)
(* The Markdown converter's callbacks (src/formats/markdown.c): what each   *)
(* does to struct MarkdownRender for every event of md4c. Blocks, spans and *)
(* texts are those of OrgRender; what an image's label holds becomes its    *)
(* alt attribute, so only its text is written.                              *)
(***************************************************************************)
LOCAL INSTANCE Integers
LOCAL INSTANCE Sequences
LOCAL INSTANCE BodyHtml

NewMarkdownRender == [html |-> EmptyBuffer, code |-> 0, imageDepth |-> 0, isInCodeBlock |-> FALSE]

WriteHtml(render, tokens) == [render EXCEPT !.html = PutAll(@, tokens)]

BlockTags == [quote |-> "blockquote", ul |-> "ul", ol |-> "ol", li |-> "li", p |-> "p",
              table |-> "table", thead |-> "thead", tbody |-> "tbody", tr |-> "tr", th |-> "th",
              td |-> "td", headline |-> "h"]
MarkdownSpanTags == [italic |-> "em", bold |-> "strong", link |-> "a", code |-> "code", strike |-> "del",
                     spoiler |-> "x-spoiler", superscript |-> "sup", subscript |-> "sub",
                     highlight |-> "mark", math |-> "x-equation"]

EnterMarkdownBlock(render, block) ==
  LET type == block.type
  IN  CASE type = "src"       -> [render EXCEPT !.code = 0, !.isInCodeBlock = TRUE]
        [] type = "footnotes" -> WriteHtml(render, FootnotesOpen)
        [] type = "footnote"  -> WriteHtml(render, FootnoteOpen)
        [] type = "special"   -> WriteHtml(render, AdmonitionOpen(<<>>))
        [] type \in DOMAIN BlockTags -> WriteHtml(render, <<OpenWith(BlockTags[type])>>)
        [] OTHER -> render

\* The code block is written whole when it ends.
LeaveMarkdownBlock(render, block) ==
  LET type == block.type
  IN  CASE type = "src" ->
             [WriteHtml(render, CodeBlockOpen(<<>>)
                 \o (IF render.code = 0 THEN <<Text>> ELSE <<MarkedText>>) \o CodeBlockClose)
              EXCEPT !.isInCodeBlock = FALSE]
        [] type = "footnotes" -> WriteHtml(render, FootnotesClose)
        [] type = "footnote"  -> WriteHtml(render, FootnoteBackReferences \o FootnoteClose)
        [] type = "special"   -> WriteHtml(render, AdmonitionClose)
        [] type \in DOMAIN BlockTags -> WriteHtml(render, <<CloseOf(BlockTags[type])>>)
        [] OTHER -> render

WriteMarkdownSpanOpen(render, span) ==
  CASE span.type = "img"         -> WriteHtml(render, <<OpenWith("img")>> \o LinkTarget)
    [] span.type = "footnoteref" -> WriteHtml(render, FootnoteReference)
    [] OTHER -> WriteHtml(render, <<OpenWith(MarkdownSpanTags[span.type])>>)

EnterMarkdownSpan(render, span) ==
  LET deeper == IF span.type = "img" THEN [render EXCEPT !.imageDepth = @ + 1] ELSE render
  IN  IF render.imageDepth > 0 THEN deeper ELSE WriteMarkdownSpanOpen(deeper, span)

\* A label's image, and any span in it, writes no tag of its own.
LeaveMarkdownSpan(render, span) ==
  LET left == IF span.type = "img" THEN [render EXCEPT !.imageDepth = @ - 1] ELSE render
  IN  CASE left.imageDepth > 0         -> left
        [] span.type = "footnoteref"   -> left
        [] span.type = "img"           -> WriteHtml(left, <<CloseOf("img")>>)
        [] OTHER -> WriteHtml(left, <<CloseOf(MarkdownSpanTags[span.type])>>)

\* A text is escaped, and raw HTML too inside a label, where it would end the
\* attribute.
MarkdownText(render, text) ==
  CASE render.isInCodeBlock -> [render EXCEPT !.code = IF text.isMarked THEN @ + 1 ELSE @]
    [] text.isMarked        -> WriteHtml(render, <<MarkedText>>)
    [] text.kind = "export" /\ render.imageDepth = 0 -> WriteHtml(render, <<Raw>>)
    [] OTHER -> WriteHtml(render, <<Text>>)
=============================================================================
