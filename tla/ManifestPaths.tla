--------------------------- MODULE ManifestPaths ----------------------------
(***************************************************************************)
(* What domain/manifest.h promises, without the index that finds a path: a  *)
(* manifest is the sequence of the output paths it recorded, no two of      *)
(* which differ only in ASCII case.  A path is a sequence of names.         *)
(***************************************************************************)
EXTENDS Integers, SequencesExt

CONSTANTS FoldName \* each name with its ASCII letters in lower case

Folded(path) == [i \in DOMAIN path |-> FoldName[path[i]]]

(* Mutant: letters are not folded. *)
RecordsSpelling(manifest, path) == \E i \in DOMAIN manifest : manifest[i] = path

(* The file a case-insensitive host would open for the path is recorded. *)
Records(manifest, path) == \E i \in DOMAIN manifest : Folded(manifest[i]) = Folded(path)

(* The recorded paths that need a directory where another one needs a file. *)
Nested(manifest) ==
  {i \in DOMAIN manifest :
     \E k \in 1..Len(manifest[i]) - 1 : Records(manifest, SubSeq(manifest[i], 1, k))}

=============================================================================
