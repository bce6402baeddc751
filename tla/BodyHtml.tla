------------------------------- MODULE BodyHtml -------------------------------
(***************************************************************************)
(* The HTML both body converters write (src/formats/body_html.c,            *)
(* src/formats/html.c). A buffer keeps of its HTML what tells whether it is *)
(* well formed: the elements still open, and how often the marked text and  *)
(* the marked id were written. What is appended is a sequence of tokens.    *)
(***************************************************************************)
LOCAL INSTANCE Integers
LOCAL INSTANCE Sequences
LOCAL INSTANCE SequencesExt

\* Tokens <<kind, of, hasAttributes>>. A text is escaped: it can neither end an
\* attribute nor start a tag. Raw HTML is as its author wrote it, in balance.
Open(tag)     == <<"open", tag, FALSE>>
OpenWith(tag) == <<"open", tag, TRUE>>
CloseOf(tag)  == <<"close", tag, FALSE>>
Text          == <<"text", "any", FALSE>>
Raw           == <<"raw", "any", FALSE>>
MarkedText    == <<"mark", "text", FALSE>>
MarkedId      == <<"mark", "id", FALSE>>

EmptyBuffer == [open |-> <<>>, text |-> 0, id |-> 0]

\* A close tag must match the element opened last; an image's label is an
\* attribute, in which no tag may start.
Crossed == "crossed"
Put(buffer, token) ==
  LET last    == IF buffer.open = <<>> THEN "nothing" ELSE Last(buffer.open)
      isLabel == last = "img"
  IN  CASE token[1] = "close" /\ last = token[2] -> [buffer EXCEPT !.open = Front(@)]
        [] token[1] = "open" /\ ~isLabel         -> [buffer EXCEPT !.open = Append(@, token[2])]
        [] token[1] = "mark"                     -> [buffer EXCEPT ![token[2]] = IF @ = 2 THEN 2 ELSE @ + 1]
        [] token[1] = "text" \/ (token[1] = "raw" /\ ~isLabel) -> buffer
        [] OTHER -> [buffer EXCEPT !.open = IF @ # <<>> /\ Last(@) = Crossed THEN @ ELSE Append(@, Crossed)]

PutAll(buffer, tokens) == FoldLeft(Put, buffer, tokens)

\* One buffer appended to another.
PutBuffer(buffer, from) ==
  LET Sum(a, b) == IF a + b > 2 THEN 2 ELSE a + b
  IN  [open |-> buffer.open \o from.open,
       text |-> Sum(buffer.text, from.text), id |-> Sum(buffer.id, from.id)]

\* body_html_link_target_write: the callback's URL, or the target as written;
\* what a callback that declines appended is dropped.
LinkTarget == <<Text>>

HeadingOpen  == <<Open("h")>>
HeadingClose == <<CloseOf("h")>>

FootnoteReference   == <<OpenWith("sup"), OpenWith("a"), Text, CloseOf("a"), CloseOf("sup")>>
FootnotesOpen       == <<OpenWith("section"), Open("ol")>>
FootnotesClose      == <<CloseOf("ol"), CloseOf("section")>>
FootnoteOpen        == <<OpenWith("li")>>
FootnoteBackReferences == <<OpenWith("a"), Text, CloseOf("a")>>
FootnoteClose       == <<CloseOf("li")>>

AdmonitionOpen(idTokens) == <<OpenWith("div")>> \o idTokens \o <<OpenWith("p"), Text, CloseOf("p")>>
AdmonitionClose          == <<CloseOf("div")>>

MathOpen  == <<Open("x-equation")>>
MathClose == <<CloseOf("x-equation")>>

CodeBlockOpen(idTokens) == <<OpenWith("pre")>> \o idTokens \o <<OpenWith("code")>>
CodeBlockClose          == <<CloseOf("code"), CloseOf("pre")>>
=============================================================================
