--------------------------- MODULE ManifestTrie ----------------------------
(***************************************************************************)
(* domain/manifest.c: the entries of a manifest are found through a trie    *)
(* over the digits of their folded paths' hashes, which no insertion ever   *)
(* rearranges.  An entry is named by its place in the insertion order.  A   *)
(* slot is named by the digits that lead to it: the child `digit` of the    *)
(* entry in slot p is the slot Append(p, digit), and the root is <<>>.      *)
(***************************************************************************)
EXTENDS ManifestPaths

CONSTANTS
  Paths,      \* the output paths of a build: sequences of names
  Labels,     \* the sources that claim them
  MaxEntries, \* bound: recorded paths
  Marks,      \* what the build may have done with a path
  Pending,    \* the mark of nothing yet
  None,       \* no path
  Digits,     \* the values of a digit, 0 among them
  HashDigits, \* the number of digits in a hash
  Hash        \* the digits of the hash of each spelling of a path, high bits first

ASSUME ManifestTrieAssumption ==
  /\ Paths \subseteq Seq(DOMAIN FoldName) \ {<<>>}
  /\ MaxEntries \in Nat
  /\ None \notin Paths
  /\ Pending \in Marks
  /\ 0 \in Digits
  /\ HashDigits \in Nat
  /\ \A path \in Paths : \A k \in 1..Len(path) :
       Hash[Folded(SubSeq(path, 1, k))] \in [1..HashDigits -> Digits]

VARIABLES
  entry,  \* the entries, in insertion order
  slot,   \* the occupied slots of the trie, each with its entry
  result  \* what the last call returned

vars == <<entry, slot, result>>

TypeOK ==
  /\ entry \in Seq([path : Paths, label : Labels, mark : Marks])
  /\ slot \in [DOMAIN slot -> DOMAIN entry]
  /\ \A p \in DOMAIN slot : p \in Seq(Digits) /\ Len(p) < Len(entry)

-----------------------------------------------------------------------------
(* Mutant: the hash of the path as it is spelled. *)
DigitOfSpelling(path, k) == IF k <= HashDigits THEN Hash[path][k] ELSE 0

(* Each level takes the top digit and shifts the next one up, and zeros in. *)
Digit(path, k) == IF k <= HashDigits THEN Hash[Folded(path)][k] ELSE 0

Slot(path, k) == [i \in 1..k |-> Digit(path, i)]

(* Mutant: the lengths of the paths are not compared. *)
StopsAtPrefix(path, k) ==
  Slot(path, k) \in DOMAIN slot =>
    \A i \in DOMAIN path \cap DOMAIN entry[slot[Slot(path, k)]].path :
      Folded(entry[slot[Slot(path, k)]].path)[i] = Folded(path)[i]

(* The descent stops at an empty slot or at an entry for the same path. *)
Stops(path, k) ==
  Slot(path, k) \in DOMAIN slot => Folded(entry[slot[Slot(path, k)]].path) = Folded(path)

Descent(path) ==
  CHOOSE k \in 0..Len(entry) : Stops(path, k) /\ \A j \in 0..k - 1 : ~Stops(path, j)

(* Mutant: the slot the descent passed last. *)
StopAtParent(path) == Slot(path, IF Descent(path) = 0 THEN 0 ELSE Descent(path) - 1)

StopSlot(path) == Slot(path, Descent(path))

LookupEntry(path) ==
  LET p == Slot(path, Descent(path)) IN IF p \in DOMAIN slot THEN slot[p] ELSE 0

-----------------------------------------------------------------------------
Init == entry = <<>> /\ slot = <<>> /\ result = <<>>

(* Records a path and the source that produces it, unless it is claimed. *)
Add(path, label) ==
  \/ /\ LookupEntry(path) = 0
     /\ Len(entry) < MaxEntries
     /\ entry' = Append(entry, [path |-> path, label |-> label, mark |-> Pending])
     /\ slot' = [p \in DOMAIN slot \cup {StopSlot(path)} |->
                  IF p = StopSlot(path) THEN Len(entry) + 1 ELSE slot[p]]
     /\ result' = <<"recorded">>
  \/ /\ LookupEntry(path) # 0
     /\ result' = <<"claimed", entry[LookupEntry(path)].label>>
     /\ UNCHANGED <<entry, slot>>

Mark(path, mark) ==
  /\ UNCHANGED slot
  /\ \/ /\ LookupEntry(path) # 0
        /\ entry' = [entry EXCEPT ![LookupEntry(path)].mark = mark]
        /\ result' = <<"marked">>
     \/ /\ LookupEntry(path) = 0
        /\ result' = <<"unknown">>
        /\ UNCHANGED entry

FindMark(path) ==
  /\ result' = <<"found", IF LookupEntry(path) = 0 THEN Pending ELSE entry[LookupEntry(path)].mark>>
  /\ UNCHANGED <<entry, slot>>

(* A caller goes on after the path it was given last. *)
After(path) == IF path = None THEN 1 ELSE LookupEntry(path) + 1

NextOutputPath(last) ==
  /\ result' = IF After(last) \in DOMAIN entry THEN <<"path", entry[After(last)].path>> ELSE <<"end">>
  /\ UNCHANGED <<entry, slot>>

(* The entry of the shortest recorded directory on the way of a path, or 0. *)
Ancestor(path) ==
  LET lengths == {k \in 1..Len(path) - 1 : LookupEntry(SubSeq(path, 1, k)) # 0}
  IN IF lengths = {} THEN 0
     ELSE LookupEntry(SubSeq(path, 1, CHOOSE k \in lengths : \A j \in lengths : k <= j))

FindPrefixCollision(last) ==
  /\ LET found == {i \in DOMAIN entry : i >= After(last) /\ Ancestor(entry[i].path) # 0}
         first == CHOOSE i \in found : \A j \in found : i <= j
     IN result' = IF found = {} THEN <<"end">>
                  ELSE <<"collision", entry[Ancestor(entry[first].path)], entry[first]>>
  /\ UNCHANGED <<entry, slot>>

Recorded == {entry[i].path : i \in DOMAIN entry}

Next ==
  \/ \E path \in Paths, label \in Labels : Add(path, label)
  \/ \E path \in Paths, mark \in Marks \ {Pending} : Mark(path, mark)
  \/ \E path \in Paths : FindMark(path)
  \/ \E last \in Recorded \cup {None} : NextOutputPath(last) \/ FindPrefixCollision(last)

Spec == Init /\ [][Next]_vars

-----------------------------------------------------------------------------
(* Entry i sits on the way of its own hash, and every slot before it holds  *)
(* an entry for another path: the descent for its path reaches it.          *)
IsReachable(entries, slots, i) ==
  LET Way(k) == Slot(entries[i].path, k)
  IN \E k \in 0..i - 1 :
       /\ Way(k) \in DOMAIN slots /\ slots[Way(k)] = i
       /\ \A j \in 0..k - 1 : /\ Way(j) \in DOMAIN slots
                             /\ Folded(entries[slots[Way(j)]].path) # Folded(entries[i].path)

(* Every recorded path is found by a descent from the root. *)
Reachable == \A i \in DOMAIN entry : IsReachable(entry, slot, i)

(* No two entries would be one file on a host that ignores case. *)
ClaimsAreDistinct ==
  \A i, j \in DOMAIN entry : Folded(entry[i].path) = Folded(entry[j].path) => i = j

(* The index is sound: every path is found, and once in whatever case.      *)
IndexIsSound == TypeOK /\ Reachable /\ ClaimsAreDistinct

Stay ==
  /\ \A i \in DOMAIN entry : /\ i \in DOMAIN entry'
                             /\ entry'[i].path = entry[i].path
                             /\ entry'[i].label = entry[i].label
  /\ \A p \in DOMAIN slot : p \in DOMAIN slot' /\ slot'[p] = slot[p]

(* A recorded path keeps its source, and its entry stays where it is in the *)
(* trie and in the list, whatever is recorded or marked later.              *)
EntriesStay == [][Stay]_vars

M == INSTANCE Manifest WITH recorded <- entry

(* The trie behaves as the list it indexes, in every call. *)
ImplementsManifest == M!Spec

=============================================================================
