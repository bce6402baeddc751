------------------------------- MODULE Names --------------------------------
(***************************************************************************)
(* Names in paths and URLs (src/core/path.c, src/core/text.c,               *)
(* src/domain/permalink.c). A text is a sequence of characters, of which    *)
(* the functions tell apart the classes below; "e'" is a letter outside     *)
(* ASCII and a token of a permalink is a character of its own.              *)
(***************************************************************************)
EXTENDS Integers, Sequences, SequencesExt

Lower == [a |-> "a", b |-> "b", c |-> "c", s |-> "s", i |-> "i", h |-> "h", u |-> "u", A |-> "a"] \* letters and digits, in lower case
Letters == DOMAIN Lower
PathChars == Letters \cup {"_", "-", ".", "/"}

\* The pieces a text has between its separators, empty ones included.
IsSegment(path, i, j) ==
  /\ i <= j + 1
  /\ \A k \in i..j : path[k] # "/"
  /\ i = 1 \/ path[i - 1] = "/"
  /\ j = Len(path) \/ path[j + 1] = "/"
Segments(path) ==
  {SubSeq(path, at[1], at[2]) :
     at \in {at \in (1..Len(path) + 1) \X (0..Len(path)) : IsSegment(path, at[1], at[2])}}

IsDotSegment(segment) == segment \in {<<".">>, <<".", ".">>}
IsSafeRelative(path) ==
  /\ ToSet(path) \subseteq PathChars
  /\ \A segment \in Segments(path) : segment # <<>> /\ ~IsDotSegment(segment)

Starts(path) == {i \in 0..Len(path) : i = 0 \/ path[i] = "/"}
Basename(path) ==
  SubSeq(path, 1 + CHOOSE i \in Starts(path) : \A j \in Starts(path) : j <= i, Len(path))

\* Up to the last dot; a dot that starts the name is part of it.
BasenameWithoutExtension(path) ==
  LET base == Basename(path)
      dots == {i \in 2..Len(base) : base[i] = "."}
  IN  IF dots = {} THEN base ELSE SubSeq(base, 1, (CHOOSE i \in dots : \A j \in dots : j <= i) - 1)

IsBelow(path, root) == IsPrefix(root \o <<"/">>, path)
Join(base, relative) ==
  (IF base # <<>> /\ Last(base) # "/" THEN Append(base, "/") ELSE base) \o relative

\* A slug: letters in lower case, a letter outside ASCII by its bytes in hex (of
\* which "ca" stands for all), and each run of anything else as one dash, none at
\* either end.
SlugFallback == <<"u">>
SlugByte(slug, char) ==
  CASE char \in Letters -> Append(slug, Lower[char])
    [] char = "e'" -> slug \o <<"c", "a">>
    [] OTHER -> IF slug # <<>> /\ Last(slug) # "-" THEN Append(slug, "-") ELSE slug
Slugify(text) ==
  LET slug == FoldLeft(SlugByte, <<>>, text)
  IN  IF ToSet(text) \cap (Letters \cup {"e'"}) = {} THEN SlugFallback
      ELSE IF Last(slug) = "-" THEN Front(slug) ELSE slug

\* permalink_expand_token: nothing is written for an empty section.
ExpandToken(url, replacement) == url \o replacement

\* One token of a pattern: a URL never holds an empty segment.
AppendToken(url, token, section, slug) ==
  CASE token = "{slug}"    -> ExpandToken(url, slug)
    [] token = "{section}" -> ExpandToken(url, section)
    [] token = "/" /\ Last(url) = "/" -> url
    [] OTHER -> Append(url, token)

\* permalink_expand: a URL that would end with a separator names the directory's
\* index document.
Expand(pattern, section, slug) ==
  LET url == FoldLeft(LAMBDA text, token : AppendToken(text, token, section, slug), <<"/">>, pattern)
  IN  IF Last(url) = "/" THEN url \o <<"i", ".", "h">> ELSE url

\* What a slug and a section are made of, whatever they were before.
SlugChars == {Lower[char] : char \in Letters} \cup {"-"}
IsSlug(text) == text \in Seq(SlugChars) /\ text # <<>>
IsSection(text) ==
  /\ text \in Seq(SlugChars \cup {"/"})
  /\ text # <<>> => \A segment \in Segments(text) : segment # <<>>
=============================================================================
