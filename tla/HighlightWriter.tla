--------------------------- MODULE HighlightWriter ---------------------------
(***************************************************************************)
(* The writer of one highlighted code block (src/formats/highlight.c):     *)
(* captures arrive from a query cursor, each a node of the syntax tree with *)
(* its byte range and a name, and the writer puts a span around each byte   *)
(* for the innermost capture that covers it, closing the span at each line  *)
(* end so that callbacks can decorate whole lines.                          *)
(*                                                                         *)
(* A writer is a record; code is a sequence of "x" (any byte) and "nl".     *)
(* What is written is a sequence of pairs <<kind, of>>.                     *)
(***************************************************************************)
EXTENDS Integers, Sequences, SequencesExt

CaptureNone == "none"

\* Callbacks that write nothing: a block with no HighlightLines.
NoLines(code) ==
  [open |-> [line \in 0..Len(code) |-> <<>>], close |-> [line \in 0..Len(code) |-> <<>>]]

NewWriter(code, lines) ==
  [code |-> code, lines |-> lines, pos |-> 0, line |-> 0, isLineOpen |-> FALSE,
   spanCapture |-> CaptureNone, stack |-> <<>>, out |-> <<>>]

Written(writer, tokens) == [writer EXCEPT !.out = @ \o tokens]

\* Makes the open span the given capture's, closing the one open before.
WriterSpan(writer, capture) ==
  IF writer.spanCapture = capture THEN writer
  ELSE [Written(writer,
           (IF writer.spanCapture = CaptureNone THEN <<>> ELSE << <<"endspan", writer.spanCapture>> >>) \o
           (IF capture = CaptureNone THEN <<>> ELSE << <<"span", capture>> >>))
        EXCEPT !.spanCapture = capture]

WriterOpenLine(writer) ==
  IF writer.isLineOpen THEN writer
  ELSE Written([writer EXCEPT !.isLineOpen = TRUE],
               << <<"line", writer.line>> >> \o writer.lines.open[writer.line])

WriterCloseLine(writer) ==
  LET closed == [WriterSpan(writer, CaptureNone) EXCEPT !.isLineOpen = FALSE]
  IN  Written(closed, writer.lines.close[writer.line] \o << <<"endline", writer.line>> >>)

\* One byte of writer_text's loop, inside the innermost capture's span.
WriterByte(writer) ==
  LET open      == WriterOpenLine(writer)
      innermost == IF writer.stack = <<>> THEN CaptureNone ELSE Last(writer.stack).name
  IN  IF writer.code[writer.pos + 1] = "nl"
      THEN [Written(WriterCloseLine(open), << <<"nl", writer.pos>> >>)
            EXCEPT !.pos = @ + 1, !.line = @ + 1]
      ELSE [Written(WriterSpan(open, innermost), << <<"text", writer.pos>> >>)
            EXCEPT !.pos = @ + 1]

WriterText(writer, end) ==
  FoldLeft(LAMBDA w, i : WriterByte(w), writer, [i \in 1..(end - writer.pos) |-> i])

(* Mutant: the captures end with the innermost. *)
WriterAdvanceTop(writer, end) ==
  LET at == WriterText(writer, end)
  IN  IF at.stack = <<>> \/ Last(at.stack).end > end THEN at ELSE [at EXCEPT !.stack = Front(@)]

\* Writes up to an offset, dropping each capture that ends on the way, wherever
\* it sits in the stack.
WriterAdvance(writer, end) ==
  LET ended == {capture.end : capture \in {c \in ToSet(writer.stack) : c.end <= end}}
      Drop(w, at) == [WriterText(w, at) EXCEPT !.stack = SelectSeq(@, LAMBDA c : c.end > at)]
  IN  WriterText(FoldLeft(Drop, writer, SetToSortSeq(ended, <)), end)

WriterPush(writer, capture, isAfterSameNode) ==
  LET at     == WriterAdvance(writer, capture.start)
      popped == IF isAfterSameNode /\ at.stack # <<>> /\ Last(at.stack).node = capture.node
                THEN [at EXCEPT !.stack = Front(@)] ELSE at
  IN  IF capture.isPrivate THEN popped ELSE [popped EXCEPT !.stack = Append(@, capture)]

\* A zero-width node covers no text; a capture behind the writer is dropped.
WriterTake(writer, capture, isAfterSameNode) ==
  IF capture.start < capture.end /\ capture.start >= writer.pos
  THEN WriterPush(writer, capture, isAfterSameNode) ELSE writer

WriterFinish(writer) ==
  LET at == WriterAdvance(writer, Len(writer.code))
  IN  IF at.isLineOpen THEN WriterCloseLine(at) ELSE at
=============================================================================
