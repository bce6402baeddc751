----------------------------- MODULE Manifest -----------------------------
(***************************************************************************)
(* What domain/manifest.h promises of each call: a list of output paths in  *)
(* the order they were recorded, each with the source that claims it and    *)
(* what the build has done with it, looked up under ASCII case folding.     *)
(***************************************************************************)
EXTENDS ManifestPaths

CONSTANTS
  Paths,      \* the output paths of a build: sequences of names
  Labels,     \* the sources that claim them
  MaxEntries, \* bound: recorded paths
  Marks,      \* what the build may have done with a path
  Pending,    \* the mark of nothing yet
  None        \* no path

VARIABLES
  recorded, \* the entries in insertion order
  result    \* what the last call returned

vars == <<recorded, result>>

RecordedPaths == [i \in DOMAIN recorded |-> recorded[i].path]

(* The entry of a path, 0 for none. *)
EntryOf(path) ==
  IF Records(RecordedPaths, path)
  THEN CHOOSE i \in DOMAIN recorded : Folded(recorded[i].path) = Folded(path)
  ELSE 0

Init == recorded = <<>> /\ result = <<>>

Add(path, label) ==
  \/ /\ EntryOf(path) = 0
     /\ Len(recorded) < MaxEntries
     /\ recorded' = Append(recorded, [path |-> path, label |-> label, mark |-> Pending])
     /\ result' = <<"recorded">>
  \/ /\ EntryOf(path) # 0
     /\ result' = <<"claimed", recorded[EntryOf(path)].label>>
     /\ UNCHANGED recorded

Mark(path, mark) ==
  \/ /\ EntryOf(path) # 0
     /\ recorded' = [recorded EXCEPT ![EntryOf(path)].mark = mark]
     /\ result' = <<"marked">>
  \/ /\ EntryOf(path) = 0
     /\ result' = <<"unknown">>
     /\ UNCHANGED recorded

FindMark(path) ==
  /\ result' = <<"found", IF EntryOf(path) = 0 THEN Pending ELSE recorded[EntryOf(path)].mark>>
  /\ UNCHANGED recorded

(* The position a caller has reached: the path it was given last. *)
After(path) == IF path = None THEN 1 ELSE EntryOf(path) + 1

NextOutputPath(last) ==
  /\ result' = IF After(last) \in DOMAIN recorded
               THEN <<"path", recorded[After(last)].path>> ELSE <<"end">>
  /\ UNCHANGED recorded

(* The next path that needs a directory where another one needs a file, and *)
(* the shortest such other one.                                             *)
FindPrefixCollision(last) ==
  /\ UNCHANGED recorded
  /\ \/ /\ \A i \in Nested(RecordedPaths) : i < After(last)
        /\ result' = <<"end">>
     \/ \E i \in Nested(RecordedPaths) :
          /\ i >= After(last)
          /\ \A j \in Nested(RecordedPaths) : j >= After(last) => i <= j
          /\ \E k \in 1..Len(recorded[i].path) - 1 :
               LET ancestor == EntryOf(SubSeq(recorded[i].path, 1, k))
               IN /\ ancestor # 0
                  /\ \A j \in 1..k - 1 : EntryOf(SubSeq(recorded[i].path, 1, j)) = 0
                  /\ result' = <<"collision", recorded[ancestor], recorded[i]>>

(* The build calls an iteration with the path it returned last. *)
Recorded == {recorded[i].path : i \in DOMAIN recorded}

Next ==
  \/ \E path \in Paths, label \in Labels : Add(path, label)
  \/ \E path \in Paths, mark \in Marks \ {Pending} : Mark(path, mark)
  \/ \E path \in Paths : FindMark(path)
  \/ \E last \in Recorded \cup {None} : NextOutputPath(last) \/ FindPrefixCollision(last)

Spec == Init /\ [][Next]_vars

=============================================================================
