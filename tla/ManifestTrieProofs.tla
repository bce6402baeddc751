------------------------ MODULE ManifestTrieProofs -------------------------
(***************************************************************************)
(* Theorems about domain/manifest.c for every set of paths, every hash      *)
(* function and every number of entries: the trie finds what the list       *)
(* holds.                                                                   *)
(***************************************************************************)
EXTENDS ManifestTrie, WellFoundedInduction, TLAPS

(* The trie's invariant: every entry can be reached, and only one for each  *)
(* path.  Neither half is inductive alone.                                  *)
IInv == TypeOK /\ Reachable /\ ClaimsAreDistinct

-----------------------------------------------------------------------------
(* A set of naturals has a least element. *)
LEMMA LeastNatural ==
  ASSUME NEW S, S \subseteq Nat, S # {}
  PROVE  \E m \in S : \A k \in S : m <= k
<1>1. IsWellFoundedOn({r \in Nat \X Nat : r[1] < r[2]}, Nat)
  BY NatLessThanWellFounded DEF OpToRel
<1> DEFINE R == {r \in Nat \X Nat : r[1] < r[2]}
<1> HIDE DEF R
<1>2. PICK m \in S : \A k \in S : ~(<<k, m>> \in R)
  <2>1. IsWellFoundedOn(R, Nat)
    BY <1>1 DEF R
  <2> QED BY <2>1, WFMin
<1>3. ASSUME NEW k \in S PROVE m <= k
  <2>1. k \in Nat /\ m \in Nat
    OBVIOUS
  <2>2. ~(<<k, m>> \in R)
    BY <1>2
  <2>3. ~(k < m)
    BY <2>1, <2>2 DEF R
  <2> QED BY <2>1, <2>3
<1> QED BY <1>3

(* Spellings of one path lead through the same slots. *)
LEMMA SameSlots ==
  ASSUME NEW a, NEW b, Folded(a) = Folded(b), NEW k \in Nat
  PROVE  Slot(a, k) = Slot(b, k)
BY DEF Slot, Digit

(* The slots on the way of a path differ in their depth. *)
LEMMA SlotDepth ==
  ASSUME NEW path, NEW k \in Nat
  PROVE  /\ DOMAIN Slot(path, k) = 1..k
         /\ \A j \in Nat : \A other : Slot(other, j) = Slot(path, k) => j = k
<1>1. \A other : \A j \in Nat : DOMAIN Slot(other, j) = 1..j
  BY DEF Slot
<1>2. \A j \in Nat : 1..j = 1..k => j = k
  OBVIOUS
<1> QED BY <1>1, <1>2

(* The descent ends, at the first slot it may end at. *)
LEMMA DescentEnds ==
  ASSUME TypeOK, NEW path
  PROVE  /\ Descent(path) \in 0..Len(entry)
         /\ Stops(path, Descent(path))
         /\ \A j \in 0..Descent(path) - 1 : ~Stops(path, j)
<1> DEFINE S == {k \in Nat : Stops(path, k)}
<1>1. Len(entry) \in Nat
  BY DEF TypeOK
<1>2. Len(entry) \in S
  <2>1. Slot(path, Len(entry)) \notin DOMAIN slot
    <3> SUFFICES ASSUME Slot(path, Len(entry)) \in DOMAIN slot PROVE FALSE
      OBVIOUS
    <3>1. DOMAIN Slot(path, Len(entry)) = 1..Len(entry)
      BY <1>1, SlotDepth
    <3>2. Slot(path, Len(entry)) \in Seq(Digits) /\ Len(Slot(path, Len(entry))) < Len(entry)
      BY DEF TypeOK
    <3>3. 1..Len(Slot(path, Len(entry))) = 1..Len(entry) /\ Len(Slot(path, Len(entry))) \in Nat
      BY <3>1, <3>2
    <3> QED BY <1>1, <3>2, <3>3
  <2> QED BY <1>1, <2>1 DEF Stops
<1>3. PICK m \in S : \A k \in S : m <= k
  BY <1>2, LeastNatural
<1>4. m \in 0..Len(entry) /\ Stops(path, m) /\ \A j \in 0..m - 1 : ~Stops(path, j)
  BY <1>1, <1>2, <1>3
<1> QED BY <1>4 DEF Descent

(* The trie finds the one entry whose path folds alike, and no other. *)
LEMMA LookupFinds ==
  ASSUME IInv, NEW path
  PROVE  /\ \A i \in DOMAIN entry : Folded(entry[i].path) = Folded(path) => LookupEntry(path) = i
         /\ (\A i \in DOMAIN entry : Folded(entry[i].path) # Folded(path)) => LookupEntry(path) = 0
         /\ LookupEntry(path) # 0 => /\ LookupEntry(path) \in DOMAIN entry
                                     /\ Folded(entry[LookupEntry(path)].path) = Folded(path)
         /\ LookupEntry(path) = 0 => StopSlot(path) \notin DOMAIN slot
<1> DEFINE d == Descent(path)
           p == Slot(path, d)
<1>0. DOMAIN entry = 1..Len(entry) /\ Len(entry) \in Nat
  BY DEF IInv, TypeOK
<1>1. d \in 0..Len(entry) /\ Stops(path, d) /\ \A j \in 0..d - 1 : ~Stops(path, j)
  BY DescentEnds DEF IInv
<1>2. LookupEntry(path) = IF p \in DOMAIN slot THEN slot[p] ELSE 0
  BY DEF LookupEntry
<1>3. p \in DOMAIN slot => slot[p] \in DOMAIN entry /\ Folded(entry[slot[p]].path) = Folded(path)
  BY <1>1 DEF Stops, IInv, TypeOK
<1>4. ASSUME NEW i \in DOMAIN entry, Folded(entry[i].path) = Folded(path)
      PROVE  LookupEntry(path) = i
  <2>1. PICK k \in 0..i - 1 :
          /\ Slot(entry[i].path, k) \in DOMAIN slot
          /\ slot[Slot(entry[i].path, k)] = i
          /\ \A j \in 0..k - 1 :
               /\ Slot(entry[i].path, j) \in DOMAIN slot
               /\ Folded(entry[slot[Slot(entry[i].path, j)]].path) # Folded(entry[i].path)
    BY DEF IInv, Reachable, IsReachable
  <2>2. k \in Nat /\ d \in Nat
    BY <1>0, <1>1, <2>1
  <2>3. \A j \in Nat : Slot(entry[i].path, j) = Slot(path, j)
    BY <1>4, SameSlots
  <2>4. Stops(path, k)
    BY <1>4, <2>1, <2>2, <2>3 DEF Stops
  <2>5. \A j \in 0..k - 1 : ~Stops(path, j)
    BY <1>4, <2>1, <2>2, <2>3 DEF Stops
  <2>6. k = d
    BY <1>1, <2>2, <2>4, <2>5
  <2> QED BY <1>2, <2>1, <2>2, <2>3, <2>6
<1>5. p \in DOMAIN slot => slot[p] # 0
  BY <1>0, <1>3
<1> QED BY <1>2, <1>3, <1>4, <1>5 DEF StopSlot

-----------------------------------------------------------------------------
(* The slots on the way of a path of the build are sequences of digits. *)
LEMMA SlotType ==
  ASSUME NEW path \in Paths, NEW k \in Nat
  PROVE  Slot(path, k) \in Seq(Digits) /\ Len(Slot(path, k)) = k
<1>1. path \in Seq(DOMAIN FoldName) /\ Len(path) \in 1..Len(path) /\ SubSeq(path, 1, Len(path)) = path
  BY ManifestTrieAssumption
<1>2. Hash[Folded(path)] \in [1..HashDigits -> Digits]
  BY <1>1, ManifestTrieAssumption
<1>3. \A i \in 1..k : Digit(path, i) \in Digits
  BY <1>2, ManifestTrieAssumption DEF Digit
<1> QED BY <1>3 DEF Slot

(* A new entry at the slot where the descent for its path stopped keeps the *)
(* invariant: nothing on the way of an older entry changes.                 *)
LEMMA RecordKeeps ==
  ASSUME IInv, NEW path \in Paths, NEW label \in Labels, LookupEntry(path) = 0,
         entry' = Append(entry, [path |-> path, label |-> label, mark |-> Pending]),
         slot' = [p \in DOMAIN slot \cup {StopSlot(path)} |->
                  IF p = StopSlot(path) THEN Len(entry) + 1 ELSE slot[p]]
  PROVE  IInv' /\ \A p \in DOMAIN slot : p \in DOMAIN slot' /\ slot'[p] = slot[p]
<1> DEFINE d == Descent(path)
           n == Len(entry) + 1
<1>1. /\ DOMAIN entry = 1..Len(entry) /\ Len(entry) \in Nat
      /\ DOMAIN entry' = 1..n /\ Len(entry') = n
      /\ entry'[n].path = path
      /\ \A i \in DOMAIN entry : entry'[i] = entry[i]
  BY DEF IInv, TypeOK
<1>2. /\ d \in 0..Len(entry)
      /\ \A j \in 0..d - 1 : /\ Slot(path, j) \in DOMAIN slot
                             /\ Folded(entry[slot[Slot(path, j)]].path) # Folded(path)
  BY DescentEnds DEF IInv, Stops
<1>3. StopSlot(path) \notin DOMAIN slot
  BY LookupFinds
<1>4. /\ \A p \in DOMAIN slot : p \in DOMAIN slot' /\ slot'[p] = slot[p] /\ slot[p] \in DOMAIN entry
      /\ StopSlot(path) \in DOMAIN slot' /\ slot'[StopSlot(path)] = n
      /\ \A p \in DOMAIN slot' : p \in DOMAIN slot \/ p = StopSlot(path)
  BY <1>3 DEF IInv, TypeOK
<1>5. TypeOK'
  <2>1. entry' \in Seq([path : Paths, label : Labels, mark : Marks])
    BY ManifestTrieAssumption DEF IInv, TypeOK
  <2>2. slot' \in [DOMAIN slot' -> DOMAIN entry']
    BY <1>1, <1>4
  <2>3. ASSUME NEW p \in DOMAIN slot' PROVE p \in Seq(Digits) /\ Len(p) < Len(entry')
    <3>1. CASE p \in DOMAIN slot
      BY <1>1, <3>1 DEF IInv, TypeOK
    <3>2. CASE p = StopSlot(path)
      BY <1>1, <1>2, <3>2, SlotType DEF StopSlot
    <3> QED BY <1>4, <3>1, <3>2
  <2> QED BY <2>1, <2>2, <2>3 DEF TypeOK
<1>6. Reachable'
  <2> SUFFICES ASSUME NEW i \in DOMAIN entry' PROVE IsReachable(entry', slot', i)
    BY DEF Reachable
  <2>1. CASE i \in DOMAIN entry
    <3>1. PICK k \in 0..i - 1 :
            /\ Slot(entry[i].path, k) \in DOMAIN slot
            /\ slot[Slot(entry[i].path, k)] = i
            /\ \A j \in 0..k - 1 :
                 /\ Slot(entry[i].path, j) \in DOMAIN slot
                 /\ Folded(entry[slot[Slot(entry[i].path, j)]].path) # Folded(entry[i].path)
      BY <2>1 DEF IInv, Reachable, IsReachable
    <3>2. /\ Slot(entry'[i].path, k) \in DOMAIN slot' /\ slot'[Slot(entry'[i].path, k)] = i
          /\ \A j \in 0..k - 1 :
               /\ Slot(entry'[i].path, j) \in DOMAIN slot'
               /\ Folded(entry'[slot'[Slot(entry'[i].path, j)]].path) # Folded(entry'[i].path)
      BY <1>1, <1>4, <2>1, <3>1
    <3> QED BY <3>2 DEF IsReachable
  <2>2. CASE i = n
    <3>1. d \in 0..n - 1
      BY <1>1, <1>2
    <3>2. Slot(path, d) \in DOMAIN slot' /\ slot'[Slot(path, d)] = n
      BY <1>4 DEF StopSlot
    <3>3. \A j \in 0..d - 1 : /\ Slot(path, j) \in DOMAIN slot'
                              /\ Folded(entry'[slot'[Slot(path, j)]].path) # Folded(path)
      BY <1>1, <1>2, <1>4
    <3>4. entry'[i].path = path
      BY <1>1, <2>2
    <3>5. /\ d \in 0..i - 1
          /\ Slot(entry'[i].path, d) \in DOMAIN slot' /\ slot'[Slot(entry'[i].path, d)] = i
          /\ \A j \in 0..d - 1 :
               /\ Slot(entry'[i].path, j) \in DOMAIN slot'
               /\ Folded(entry'[slot'[Slot(entry'[i].path, j)]].path) # Folded(entry'[i].path)
      BY <2>2, <3>1, <3>2, <3>3, <3>4
    <3> HIDE DEF d
    <3> QED BY <3>5 DEF IsReachable
  <2>3. i \in DOMAIN entry \/ i = n
    BY <1>1
  <2> QED BY <2>1, <2>2, <2>3, Zenon
<1>7. ClaimsAreDistinct'
  <2>1. \A i \in DOMAIN entry : Folded(entry[i].path) # Folded(path)
    BY <1>1, LookupFinds
  <2>2. \A i, j \in DOMAIN entry' : Folded(entry'[i].path) = Folded(entry'[j].path) => i = j
    BY <1>1, <2>1 DEF IInv, ClaimsAreDistinct
  <2> QED BY <2>2 DEF ClaimsAreDistinct, Folded
<1> QED BY <1>4, <1>5, <1>6, <1>7 DEF IInv

(* A mark changes no path and no slot. *)
LEMMA MarkKeeps ==
  ASSUME IInv, NEW i \in DOMAIN entry, NEW mark \in Marks,
         entry' = [entry EXCEPT ![i].mark = mark], UNCHANGED slot
  PROVE  IInv'
<1> DEFINE Entry == [path : Paths, label : Labels, mark : Marks]
<1> HIDE DEF Entry
<1>1. /\ DOMAIN entry' = DOMAIN entry /\ Len(entry') = Len(entry)
      /\ entry' \in Seq(Entry)
      /\ \A j \in DOMAIN entry : entry'[j].path = entry[j].path
  <2>1. entry \in Seq(Entry) /\ DOMAIN entry = 1..Len(entry) /\ Len(entry) \in Nat
    BY DEF IInv, TypeOK, Entry
  <2>2. \A j \in DOMAIN entry : entry[j] \in Entry
    BY <2>1
  <2>3. \A j \in DOMAIN entry :
          entry'[j] = IF j = i THEN [entry[i] EXCEPT !.mark = mark] ELSE entry[j]
    BY <2>1
  <2>4. [entry[i] EXCEPT !.mark = mark] \in Entry /\ [entry[i] EXCEPT !.mark = mark].path = entry[i].path
    BY <2>2 DEF Entry
  <2>5. DOMAIN entry' = 1..Len(entry) /\ \A j \in 1..Len(entry) : entry'[j] \in Entry
    BY <2>1, <2>2, <2>3, <2>4
  <2>6. entry' = [j \in 1..Len(entry) |-> entry'[j]]
    BY <2>1
  <2>7. entry' \in Seq(Entry) /\ Len(entry') = Len(entry)
    BY <2>1, <2>5, <2>6
  <2> QED BY <2>1, <2>3, <2>4, <2>5, <2>7
<1>2. TypeOK'
  BY <1>1 DEF IInv, TypeOK, Entry
<1>3. \A j \in DOMAIN slot : slot[j] \in DOMAIN entry
  BY DEF IInv, TypeOK
<1>4. Reachable'
  <2> SUFFICES ASSUME NEW j \in DOMAIN entry' PROVE IsReachable(entry', slot', j)
    BY DEF Reachable
  <2>1. PICK k \in 0..j - 1 :
          /\ Slot(entry[j].path, k) \in DOMAIN slot
          /\ slot[Slot(entry[j].path, k)] = j
          /\ \A l \in 0..k - 1 :
               /\ Slot(entry[j].path, l) \in DOMAIN slot
               /\ Folded(entry[slot[Slot(entry[j].path, l)]].path) # Folded(entry[j].path)
    BY <1>1 DEF IInv, Reachable, IsReachable
  <2>2. /\ Slot(entry'[j].path, k) \in DOMAIN slot' /\ slot'[Slot(entry'[j].path, k)] = j
        /\ \A l \in 0..k - 1 :
             /\ Slot(entry'[j].path, l) \in DOMAIN slot'
             /\ Folded(entry'[slot'[Slot(entry'[j].path, l)]].path) # Folded(entry'[j].path)
    BY <1>1, <1>3, <2>1
  <2> QED BY <2>2 DEF IsReachable
<1>5. ClaimsAreDistinct'
  BY <1>1 DEF IInv, ClaimsAreDistinct, Folded
<1> QED BY <1>2, <1>4, <1>5 DEF IInv

(* The calls that only read return a result and change nothing. *)
LEMMA ReadsKeep ==
  ASSUME IInv, UNCHANGED <<entry, slot>>
  PROVE  IInv'
<1>1. TypeOK'
  BY DEF IInv, TypeOK
<1>2. Reachable'
  BY DEF IInv, Reachable
<1>3. ClaimsAreDistinct'
  BY DEF IInv, ClaimsAreDistinct, Folded
<1> QED BY <1>1, <1>2, <1>3 DEF IInv

(* An empty manifest satisfies the invariant. *)
LEMMA InitIInv == Init => IInv
<1> SUFFICES ASSUME Init PROVE IInv
  OBVIOUS
<1>1. entry = <<>> /\ slot = <<>> /\ DOMAIN entry = {} /\ DOMAIN slot = {} /\ Len(entry) = 0
  BY DEF Init
<1>2. TypeOK
  BY <1>1 DEF TypeOK
<1>3. Reachable /\ ClaimsAreDistinct
  BY <1>1 DEF Reachable, ClaimsAreDistinct
<1> QED BY <1>2, <1>3 DEF IInv

(* Every call preserves the invariant and leaves every entry where it is. *)
LEMMA StepIInv ==
  ASSUME IInv, [Next]_vars
  PROVE  IInv' /\ Stay
<1>1. ASSUME UNCHANGED <<entry, slot>> PROVE IInv' /\ Stay
  BY <1>1, ReadsKeep DEF Stay
<1>2. ASSUME NEW path \in Paths, NEW label \in Labels, Add(path, label) PROVE IInv' /\ Stay
  <2>1. CASE LookupEntry(path) # 0
    BY <1>1, <1>2, <2>1 DEF Add
  <2>2. CASE LookupEntry(path) = 0
    <3>1. /\ entry' = Append(entry, [path |-> path, label |-> label, mark |-> Pending])
          /\ slot' = [p \in DOMAIN slot \cup {StopSlot(path)} |->
                      IF p = StopSlot(path) THEN Len(entry) + 1 ELSE slot[p]]
      BY <1>2, <2>2 DEF Add
    <3>2. IInv' /\ \A p \in DOMAIN slot : p \in DOMAIN slot' /\ slot'[p] = slot[p]
      BY <2>2, <3>1, RecordKeeps
    <3>3. \A i \in DOMAIN entry : i \in DOMAIN entry' /\ entry'[i] = entry[i]
      BY <3>1 DEF IInv, TypeOK
    <3> QED BY <3>2, <3>3 DEF Stay
  <2> QED BY <2>1, <2>2
<1>3. ASSUME NEW path \in Paths, NEW mark \in Marks, Mark(path, mark) PROVE IInv' /\ Stay
  <2>1. CASE LookupEntry(path) = 0
    BY <1>1, <1>3, <2>1 DEF Mark
  <2>2. CASE LookupEntry(path) # 0
    <3>1. LookupEntry(path) \in DOMAIN entry
      BY <2>2, LookupFinds
    <3>2. entry' = [entry EXCEPT ![LookupEntry(path)].mark = mark] /\ UNCHANGED slot
      BY <1>3, <2>2 DEF Mark
    <3>3. IInv'
      BY <3>1, <3>2, MarkKeeps
    <3>4. \A i \in DOMAIN entry :
            /\ i \in DOMAIN entry'
            /\ entry'[i] = IF i = LookupEntry(path) THEN [entry[i] EXCEPT !.mark = mark] ELSE entry[i]
      BY <3>1, <3>2 DEF IInv, TypeOK
    <3>5. \A i \in DOMAIN entry : /\ [entry[i] EXCEPT !.mark = mark].path = entry[i].path
                                  /\ [entry[i] EXCEPT !.mark = mark].label = entry[i].label
      <4> DEFINE Entry == [path : Paths, label : Labels, mark : Marks]
      <4> HIDE DEF Entry
      <4>1. entry \in Seq(Entry)
        BY DEF IInv, TypeOK, Entry
      <4>2. \A i \in DOMAIN entry : entry[i] \in Entry
        BY <4>1
      <4> QED BY <4>2 DEF Entry
    <3> QED BY <3>2, <3>3, <3>4, <3>5 DEF Stay
  <2> QED BY <2>1, <2>2
<1>4. ASSUME NEW path \in Paths, FindMark(path) PROVE IInv' /\ Stay
  BY <1>1, <1>4 DEF FindMark
<1>5. ASSUME NEW last \in Recorded \cup {None}, NextOutputPath(last) \/ FindPrefixCollision(last)
      PROVE  IInv' /\ Stay
  BY <1>1, <1>5 DEF NextOutputPath, FindPrefixCollision
<1>6. CASE UNCHANGED vars
  BY <1>1, <1>6 DEF vars
<1> QED BY <1>2, <1>3, <1>4, <1>5, <1>6 DEF Next

-----------------------------------------------------------------------------
(* domain/manifest.c: each entry lies on the way of its own path's hash,    *)
(* each slot holds an entry, and each variable keeps its type.              *)
THEOREM TypeCorrect == Spec => []TypeOK
<1>1. IInv => TypeOK
  BY DEF IInv
<1>2. IInv /\ [Next]_vars => IInv'
  BY StepIInv
<1> QED BY <1>1, <1>2, InitIInv, PTL DEF Spec

(* descend_trie: every recorded path can be reached from the root, for every *)
(* hash function and every order of insertion.                              *)
THEOREM AlwaysReachable == Spec => []Reachable
<1>1. IInv => Reachable
  BY DEF IInv
<1>2. IInv /\ [Next]_vars => IInv'
  BY StepIInv
<1> QED BY <1>1, <1>2, InitIInv, PTL DEF Spec

(* manifest_add: no two recorded paths differ only in case. *)
THEOREM AlwaysDistinct == Spec => []ClaimsAreDistinct
<1>1. IInv => ClaimsAreDistinct
  BY DEF IInv
<1>2. IInv /\ [Next]_vars => IInv'
  BY StepIInv
<1> QED BY <1>1, <1>2, InitIInv, PTL DEF Spec

(* The index stays sound: what the run checks, for every hash function. *)
THEOREM IndexStaysSound == Spec => []IndexIsSound
<1>1. TypeOK /\ Reachable /\ ClaimsAreDistinct => IndexIsSound
  BY DEF IndexIsSound
<1> QED BY <1>1, TypeCorrect, AlwaysReachable, AlwaysDistinct, PTL

(* struct ManifestEntry: a recorded entry never moves and never changes its *)
(* path or its source.                                                      *)
THEOREM NothingMoves == Spec => EntriesStay
<1>1. IInv /\ [Next]_vars => IInv'
  BY StepIInv
<1>2. IInv /\ [Next]_vars => [Stay]_vars
  BY StepIInv
<1> QED BY <1>1, <1>2, InitIInv, PTL DEF Spec, EntriesStay

-----------------------------------------------------------------------------
(* The list's paths fold, are recorded and nest as those of the trie.       *)
LEMMA SamePaths ==
  /\ \A path : M!Folded(path) = Folded(path)
  /\ \A path : M!Records(M!RecordedPaths, path) <=> Records(M!RecordedPaths, path)
  /\ M!Nested(M!RecordedPaths) = Nested(M!RecordedPaths)
BY DEF M!Folded, Folded, M!Records, Records, M!Nested, Nested

(* The trie and the list agree on the entry of any path. *)
LEMMA LookupIsEntryOf ==
  ASSUME IInv, NEW path
  PROVE  LookupEntry(path) = M!EntryOf(path)
<1>1. /\ DOMAIN M!RecordedPaths = DOMAIN entry
      /\ \A i \in DOMAIN entry : M!RecordedPaths[i] = entry[i].path
  BY DEF M!RecordedPaths
<1>2. CASE \A i \in DOMAIN entry : Folded(entry[i].path) # Folded(path)
  <2>1. ~Records(M!RecordedPaths, path)
    BY <1>1, <1>2 DEF Records
  <2>2. M!EntryOf(path) = 0
    BY <2>1, SamePaths DEF M!EntryOf
  <2> QED BY <1>2, <2>2, LookupFinds
<1>3. CASE \E i \in DOMAIN entry : Folded(entry[i].path) = Folded(path)
  <2>1. Records(M!RecordedPaths, path)
    BY <1>1, <1>3 DEF Records
  <2>2. /\ M!EntryOf(path) \in DOMAIN entry
        /\ Folded(entry[M!EntryOf(path)].path) = Folded(path)
    <3> DEFINE e == CHOOSE i \in DOMAIN entry : Folded(entry[i].path) = Folded(path)
    <3>1. e \in DOMAIN entry /\ Folded(entry[e].path) = Folded(path)
      BY <1>3
    <3>2. M!EntryOf(path) = e
      BY <2>1, SamePaths DEF M!EntryOf
    <3> HIDE DEF e
    <3> QED BY <3>1, <3>2
  <2> QED BY <2>2, LookupFinds
<1> QED BY <1>2, <1>3

(* manifest_find_prefix_collision: its scan by lookups finds the next of    *)
(* the paths that nest, under the shortest path it nests under.             *)
LEMMA CollisionIsNested ==
  ASSUME IInv, NEW last, After(last) \in Nat, FindPrefixCollision(last)
  PROVE  M!FindPrefixCollision(last)
<1> DEFINE found == {i \in DOMAIN entry : i >= After(last) /\ Ancestor(entry[i].path) # 0}
           first == CHOOSE i \in found : \A j \in found : i <= j
           lengths(i) == {k \in 1..Len(entry[i].path) - 1 : LookupEntry(SubSeq(entry[i].path, 1, k)) # 0}
<1>1. DOMAIN entry \subseteq Nat /\ \A i \in DOMAIN entry : entry[i].path \in Seq(DOMAIN FoldName)
  <2> DEFINE Entry == [path : Paths, label : Labels, mark : Marks]
  <2> HIDE DEF Entry
  <2>1. entry \in Seq(Entry)
    BY DEF IInv, TypeOK, Entry
  <2>2. DOMAIN entry \subseteq Nat /\ \A i \in DOMAIN entry : entry[i] \in Entry
    BY <2>1
  <2> QED BY <2>2, ManifestTrieAssumption DEF Entry
<1>2. After(last) = M!After(last)
  BY LookupIsEntryOf DEF After, M!After
<1>3. \A i \in DOMAIN entry : Ancestor(entry[i].path) # 0 <=> lengths(i) # {}
  <2> SUFFICES ASSUME NEW i \in DOMAIN entry PROVE Ancestor(entry[i].path) # 0 <=> lengths(i) # {}
    OBVIOUS
  <2>1. CASE lengths(i) = {}
    BY <2>1 DEF Ancestor
  <2>2. CASE lengths(i) # {}
    <3>1. lengths(i) \subseteq Nat
      OBVIOUS
    <3>2. \E k \in lengths(i) : \A j \in lengths(i) : k <= j
      BY <2>2, <3>1, LeastNatural
    <3>3. LookupEntry(SubSeq(entry[i].path, 1, CHOOSE k \in lengths(i) : \A j \in lengths(i) : k <= j)) # 0
      BY <3>2
    <3> QED BY <2>2, <3>3 DEF Ancestor
  <2> QED BY <2>1, <2>2
<1>4. \A i \in DOMAIN entry : i \in Nested(M!RecordedPaths) <=> lengths(i) # {}
  <2>1. \A i \in DOMAIN entry : M!RecordedPaths[i] = entry[i].path
    BY DEF M!RecordedPaths
  <2>2. \A path : Records(M!RecordedPaths, path) <=> LookupEntry(path) # 0
    <3> SUFFICES ASSUME NEW path PROVE Records(M!RecordedPaths, path) <=> LookupEntry(path) # 0
      OBVIOUS
    <3>1. Records(M!RecordedPaths, path) <=> \E i \in DOMAIN entry : Folded(entry[i].path) = Folded(path)
      BY <2>1 DEF Records, M!RecordedPaths
    <3>2. 0 \notin DOMAIN entry
      BY DEF IInv, TypeOK
    <3> QED BY <3>1, <3>2, LookupFinds
  <2> QED BY <2>1, <2>2 DEF Nested, M!RecordedPaths
<1>5. Nested(M!RecordedPaths) \subseteq DOMAIN entry
  BY DEF Nested, M!RecordedPaths
<1>6. found = {i \in Nested(M!RecordedPaths) : i >= M!After(last)}
  BY <1>2, <1>3, <1>4, <1>5
<1>7. CASE found = {}
  <2>1. \A i \in Nested(M!RecordedPaths) : i < M!After(last)
    BY <1>1, <1>2, <1>5, <1>6, <1>7
  <2>2. result' = <<"end">> /\ UNCHANGED entry
    BY <1>7 DEF FindPrefixCollision
  <2> QED BY <2>1, <2>2, SamePaths, Zenon DEF M!FindPrefixCollision
<1>8. CASE found # {}
  <2>1. \E m \in found : \A j \in found : m <= j
    <3>1. found \subseteq Nat
      BY <1>1
    <3> QED BY <1>8, <3>1, LeastNatural
  <2>2. first \in found /\ \A j \in found : first <= j
    BY <2>1
  <2>3. /\ result' = <<"collision", entry[Ancestor(entry[first].path)], entry[first]>>
        /\ UNCHANGED entry
    BY <1>8 DEF FindPrefixCollision
  <2> HIDE DEF first
  <2>4. /\ first \in Nested(M!RecordedPaths) /\ first \in DOMAIN entry /\ first >= M!After(last)
        /\ \A j \in Nested(M!RecordedPaths) : j >= M!After(last) => first <= j
    BY <1>6, <2>2
  <2>5. lengths(first) # {}
    BY <1>4, <2>4
  <2>6. PICK k \in lengths(first) : /\ \A j \in lengths(first) : k <= j
                                    /\ Ancestor(entry[first].path) = LookupEntry(SubSeq(entry[first].path, 1, k))
    <3> DEFINE least == CHOOSE k \in lengths(first) : \A j \in lengths(first) : k <= j
    <3>1. lengths(first) \subseteq Nat
      OBVIOUS
    <3>2. \E k \in lengths(first) : \A j \in lengths(first) : k <= j
      BY <2>5, <3>1, LeastNatural
    <3>3. least \in lengths(first) /\ \A j \in lengths(first) : least <= j
      BY <3>2
    <3>4. Ancestor(entry[first].path) = LookupEntry(SubSeq(entry[first].path, 1, least))
      BY <2>5 DEF Ancestor
    <3> QED BY <3>3, <3>4
  <2>7. k \in 1..Len(entry[first].path) - 1 /\ LookupEntry(SubSeq(entry[first].path, 1, k)) # 0
    OBVIOUS
  <2>8. \A j \in 1..k - 1 : LookupEntry(SubSeq(entry[first].path, 1, j)) = 0
    <3>1. Len(entry[first].path) \in Nat
      BY <1>1, <2>4
    <3>2. \A j \in 1..k - 1 : j \in 1..Len(entry[first].path) - 1 /\ ~(k <= j)
      BY <2>7, <3>1
    <3> QED BY <2>6, <3>2
  <2>9. /\ M!EntryOf(SubSeq(entry[first].path, 1, k)) # 0
        /\ \A j \in 1..k - 1 : M!EntryOf(SubSeq(entry[first].path, 1, j)) = 0
        /\ result' = <<"collision", entry[M!EntryOf(SubSeq(entry[first].path, 1, k))], entry[first]>>
    BY <2>3, <2>6, <2>7, <2>8, LookupIsEntryOf
  <2> HIDE DEF lengths
  <2> QED BY <2>3, <2>4, <2>7, <2>9, SamePaths, Zenon DEF M!FindPrefixCollision
<1> QED BY <1>7, <1>8

(* The empty trie is the empty list, and every call of the trie returns     *)
(* what the list returns and does to the list what the trie does.           *)
LEMMA StepImplements ==
  ASSUME IInv, [Next]_vars
  PROVE  [M!Next]_M!vars
<1>1. ASSUME NEW path \in Paths, NEW label \in Labels, Add(path, label) PROVE M!Next
  <2>1. M!Add(path, label)
    BY <1>1, LookupIsEntryOf DEF Add, M!Add
  <2> QED BY <2>1 DEF M!Next
<1>2. ASSUME NEW path \in Paths, NEW mark \in Marks \ {Pending}, Mark(path, mark) PROVE M!Next
  <2>1. M!Mark(path, mark)
    BY <1>2, LookupIsEntryOf DEF Mark, M!Mark
  <2> QED BY <2>1 DEF M!Next
<1>3. ASSUME NEW path \in Paths, FindMark(path) PROVE M!Next
  <2>1. M!FindMark(path)
    BY <1>3, LookupIsEntryOf DEF FindMark, M!FindMark
  <2> QED BY <2>1 DEF M!Next
<1>4. ASSUME NEW last \in Recorded \cup {None}, NextOutputPath(last) PROVE M!Next
  <2>1. M!NextOutputPath(last)
    BY <1>4, LookupIsEntryOf DEF NextOutputPath, M!NextOutputPath, After, M!After
  <2> QED BY <2>1 DEF M!Next, M!Recorded, Recorded
<1>5. ASSUME NEW last \in Recorded \cup {None}, FindPrefixCollision(last) PROVE M!Next
  <2>1. After(last) \in Nat
    <3>1. LookupEntry(last) \in Nat
      BY LookupFinds DEF IInv, TypeOK
    <3> QED BY <3>1 DEF After
  <2>2. M!FindPrefixCollision(last)
    BY <1>5, <2>1, CollisionIsNested
  <2> QED BY <2>2 DEF M!Next, M!Recorded, Recorded
<1>6. CASE UNCHANGED vars
  BY <1>6 DEF vars, M!vars
<1> QED BY <1>1, <1>2, <1>3, <1>4, <1>5, <1>6 DEF Next

(* domain/manifest.c implements the list that domain/manifest.h promises,   *)
(* for every hash function.                                                 *)
THEOREM Implements == Spec => ImplementsManifest
<1>1. Init => M!Init
  BY DEF Init, M!Init
<1>2. IInv /\ [Next]_vars => IInv'
  BY StepIInv
<1>3. IInv /\ [Next]_vars => [M!Next]_M!vars
  BY StepImplements
<1> QED BY <1>1, <1>2, <1>3, InitIInv, PTL DEF Spec, ImplementsManifest, M!Spec

=============================================================================
