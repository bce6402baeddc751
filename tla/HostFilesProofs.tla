--------------------------- MODULE HostFilesProofs ---------------------------
(***************************************************************************)
(* For any number of calls, paths, bytes and failing system calls: a write, *)
(* a copy or a read that reports success is whole.                          *)
(***************************************************************************)
EXTENDS HostFiles, SequenceTheorems, FiniteSetTheorems, TLAPS

Writer(c) == Ask[c].kind \in {"bytes", "file"}
Target(c) == Ask[c].path

Locals ==
  [pc : {"source", "open", "mkdirs", "inspect", "write", "fill", "close", "done", "idle"},
   at : Nat, todo : Contents, data : Contents, size : Nat,
   seen : SUBSET Contents, made : SUBSET Seq(Names), rc : {0, -1}]

TypeInv ==
  /\ tree \in [Paths -> Contents \cup {None, Dir}]
  /\ call \in [Calls -> Locals]
  /\ gone \subseteq Paths

(* The steps a call of each kind goes through, and the ancestor it is at.    *)
StepsInv(c) ==
  /\ At(c, "source") => Ask[c].kind = "file" /\ call[c].at = 1
  /\ call[c].pc \in {"open", "fill"} => Ask[c].kind = "read"
  /\ At(c, "write") => Writer(c)
  /\ call[c].pc \in {"mkdirs", "inspect"} =>
       Ask[c].kind # "read" /\ call[c].at \in 1..(Len(DirOf(c)) + 1)
  /\ call[c].pc \in {"source", "open", "mkdirs", "inspect"} => call[c].data = <<>>
  /\ At(c, "inspect") => call[c].at <= Len(DirOf(c))

(* What a write of bytes has written and what is left make the bytes.        *)
BytesInv(c) ==
  Ask[c].kind = "bytes" =>
    /\ At(c, "write") =>
         tree[Target(c)] \in Contents /\ tree[Target(c)] \o call[c].todo = Ask[c].bytes
    /\ call[c].pc \in {"close", "done"} /\ call[c].rc = 0 => tree[Target(c)] = Ask[c].bytes

(* What a copy has written and what is left make what it has read, which is  *)
(* the start of a source that does not change.                               *)
CopyInv(c) ==
  Ask[c].kind = "file" =>
    /\ call[c].pc \in {"mkdirs", "inspect", "write"} =>
         tree[From(c)] \in Contents /\ tree[From(c)] \in call[c].seen
    /\ At(c, "close") /\ call[c].rc = 0 => call[c].seen # {}
    /\ At(c, "write") =>
         /\ tree[Target(c)] \in Contents /\ tree[Target(c)] \o call[c].todo = call[c].data
         /\ \A content \in call[c].seen : call[c].seen = {content} =>
              /\ Len(call[c].data) <= Len(content)
              /\ call[c].data = SubSeq(content, 1, Len(call[c].data))
    /\ call[c].pc \in {"close", "done"} /\ call[c].rc = 0 =>
         \A content \in call[c].seen : call[c].seen = {content} => tree[Target(c)] = content

(* A call that makes directories has made the one before the one it is at.   *)
DirsInv(c) ==
  Ask[c].kind = "mkdirs" =>
    /\ call[c].pc \in {"mkdirs", "inspect"} /\ call[c].at > 1 /\ gone = {} =>
         tree[SubSeq(Target(c), 1, call[c].at - 1)] = Dir
    /\ At(c, "close") => call[c].rc = -1
    /\ At(c, "done") /\ call[c].rc = 0 /\ gone = {} => tree[Target(c)] = Dir

(* Each byte that was read stood at its place in a version of the file, and  *)
(* some version has the size that was asked for.                             *)
BytesAreSeen(c) ==
  \A i \in 1..Len(call[c].data) :
    \E x \in call[c].seen : i \in 1..Len(x) /\ call[c].data[i] = x[i]
SizeIsSeen(c) == \E x \in call[c].seen : Len(x) = call[c].size

ReadInv(c) ==
  Ask[c].kind = "read" =>
    /\ At(c, "fill") =>
         /\ tree[From(c)] \in Contents /\ tree[From(c)] \in call[c].seen
         /\ call[c].size <= Ask[c].limit /\ SizeIsSeen(c) /\ BytesAreSeen(c)
    /\ call[c].pc \in {"close", "done"} /\ call[c].rc = 0 =>
         /\ Len(call[c].data) = call[c].size /\ call[c].size <= Ask[c].limit
         /\ Nul \notin Range(call[c].data) /\ SizeIsSeen(c) /\ BytesAreSeen(c)

CallInv(c) == StepsInv(c) /\ BytesInv(c) /\ CopyInv(c) /\ DirsInv(c) /\ ReadInv(c)

IInv == TypeInv /\ \A c \in Calls : CallInv(c)

-----------------------------------------------------------------------------
(* A sequence is the first part of it and the rest.                          *)
LEMMA Pieces ==
  ASSUME NEW s \in Contents, NEW n \in 1..Len(s)
  PROVE  /\ SubSeq(s, 1, n) \in Contents /\ Len(SubSeq(s, 1, n)) = n
         /\ SubSeq(s, n + 1, Len(s)) \in Contents
         /\ SubSeq(s, 1, n) \o SubSeq(s, n + 1, Len(s)) = s
<1>1. Len(s) \in Nat /\ \A i \in 1..Len(s) : s[i] \in Chars \cup {Nul}
  BY LenProperties, ElementOfSeq DEF Contents
<1>2. SubSeq(s, 1, n) \in Contents /\ Len(SubSeq(s, 1, n)) = n
  BY <1>1, SubSeqProperties DEF Contents
<1>3. SubSeq(s, n + 1, Len(s)) \in Contents
  <2>1. n + 1 \in Int /\ Len(s) \in Int /\ \A i \in (n + 1)..Len(s) : s[i] \in Chars \cup {Nul}
    BY <1>1
  <2> QED
    BY <2>1, SubSeqProperties DEF Contents
<1>4. SubSeq(s, 1, n) \o SubSeq(s, n + 1, Len(s)) = SubSeq(s, 1, Len(s))
  <2>1. 1 \in 1..(Len(s) + 1) /\ n \in 0..Len(s) /\ Len(s) \in n..Len(s) /\ 1 - 1 = 0
    BY <1>1
  <2> QED
    BY <2>1, ConcatAdjacentSubSeq DEF Contents
<1> QED
  BY <1>2, <1>3, <1>4, SubSeqFull DEF Contents

(* Concatenation associates.                                                 *)
LEMMA Associates ==
  ASSUME NEW s \in Contents, NEW t \in Contents, NEW u \in Contents
  PROVE  (s \o t) \o u = s \o (t \o u)
<1>1. \A S : \A a, b, c \in Seq(S) : (a \o b) \o c = a \o (b \o c)
  BY ConcatAssociative, SMT
<1> QED
  BY <1>1, SMT DEF Contents

(* A write moves bytes from what is left to what is there.                   *)
LEMMA WriteMoves ==
  ASSUME NEW t \in Contents, NEW s \in Contents, NEW n \in 1..Len(s)
  PROVE  /\ t \o SubSeq(s, 1, n) \in Contents
         /\ (t \o SubSeq(s, 1, n)) \o SubSeq(s, n + 1, Len(s)) = t \o s
<1> DEFINE first == SubSeq(s, 1, n)
           rest == SubSeq(s, n + 1, Len(s))
<1>1. first \in Contents /\ rest \in Contents /\ first \o rest = s
  BY Pieces
<1> HIDE DEF first, rest
<1>2. t \o first \in Contents
  BY <1>1, ConcatProperties, Zenon DEF Contents
<1>3. (t \o first) \o rest = t \o (first \o rest)
  <2>1. first \in Contents /\ rest \in Contents
    BY <1>1
  <2> QED
    BY <2>1, Associates
<1>4. t \o first \in Contents /\ (t \o first) \o rest = t \o s
  BY <1>1, <1>2, <1>3
<1> QED
  BY <1>4 DEF first, rest

(* A read moves on in the source.                                            *)
LEMMA ReadMoves ==
  ASSUME NEW s \in Contents, NEW k \in 0..Len(s),
         NEW n \in 1..Len(SubSeq(s, k + 1, Len(s)))
  PROVE  /\ k + n \in 0..Len(s)
         /\ SubSeq(s, 1, k) \o SubSeq(SubSeq(s, k + 1, Len(s)), 1, n) = SubSeq(s, 1, k + n)
<1>1. Len(s) \in Nat /\ \A i \in 1..Len(s) : s[i] \in Chars \cup {Nul}
  BY LenProperties, ElementOfSeq DEF Contents
<1>2. Len(SubSeq(s, k + 1, Len(s))) = IF k + 1 <= Len(s) THEN Len(s) - (k + 1) + 1 ELSE 0
  <2>1. k + 1 \in Int /\ Len(s) \in Int /\ \A i \in (k + 1)..Len(s) : s[i] \in Chars \cup {Nul}
    BY <1>1
  <2> QED
    BY <2>1, SubSeqProperties
<1>3. k + n \in 0..Len(s) /\ k + 1 \in 1..Len(s) /\ n \in 1..(Len(s) - (k + 1) + 1)
  BY <1>1, <1>2
<1>4. SubSeq(SubSeq(s, k + 1, Len(s)), 1, n) = SubSeq(s, k + 1, k + n)
  <2>1. /\ Len(s) \in 1..Len(s) /\ 1 \in 1..(Len(s) - (k + 1) + 1)
        /\ (k + 1) + 1 - 1 = k + 1 /\ (k + 1) + n - 1 = k + n
    BY <1>1, <1>3
  <2> QED
    BY <1>3, <2>1, SubSeqOfSubSeq DEF Contents
<1>5. SubSeq(s, 1, k) \o SubSeq(s, k + 1, k + n) = SubSeq(s, 1, k + n)
  <2>1. 1 \in 1..(Len(s) + 1) /\ k \in (1 - 1)..Len(s) /\ k + n \in k..Len(s)
    BY <1>1, <1>3
  <2> QED
    BY <2>1, ConcatAdjacentSubSeq DEF Contents
<1> QED
  BY <1>3, <1>4, <1>5

(* The bytes of a concatenation.                                             *)
LEMMA Concat ==
  ASSUME NEW s \in Contents, NEW t \in Contents
  PROVE  /\ s \o t \in Contents /\ Len(s \o t) = Len(s) + Len(t)
         /\ \A i \in 1..(Len(s) + Len(t)) :
              (s \o t)[i] = IF i <= Len(s) THEN s[i] ELSE t[i - Len(s)]
BY ConcatProperties DEF Contents

(* The length of a content, and the empty one.                               *)
LEMMA Lengths ==
  ASSUME NEW s \in Contents
  PROVE  Len(s) \in Nat /\ s \o <<>> = s /\ <<>> \o s = s /\ <<>> \in Contents
BY LenProperties, ConcatEmptySeq, EmptySeq DEF Contents


(* What a read of the rest of a file gets.                                   *)
LEMMA ReadOn ==
  ASSUME NEW s \in Contents, NEW k \in Nat,
         NEW n \in 1..Len(SubSeq(s, k + 1, Len(s)))
  PROVE  /\ SubSeq(SubSeq(s, k + 1, Len(s)), 1, n) \in Contents
         /\ Len(SubSeq(SubSeq(s, k + 1, Len(s)), 1, n)) = n
         /\ k + n <= Len(s)
         /\ \A j \in 1..n : SubSeq(SubSeq(s, k + 1, Len(s)), 1, n)[j] = s[k + j]
<1> DEFINE rest == SubSeq(s, k + 1, Len(s))
<1>1. Len(s) \in Nat /\ \A i \in 1..Len(s) : s[i] \in Chars \cup {Nul}
  BY LenProperties, ElementOfSeq DEF Contents
<1>2. /\ rest \in Contents /\ Len(rest) = IF k + 1 <= Len(s) THEN Len(s) - k ELSE 0
      /\ \A i \in 1..(Len(s) - k) : rest[i] = s[k + i]
  <2>1. k + 1 \in Int /\ Len(s) \in Int /\ \A i \in (k + 1)..Len(s) : s[i] \in Chars \cup {Nul}
    BY <1>1
  <2>2. /\ rest \in Seq(Chars \cup {Nul})
        /\ Len(rest) = IF k + 1 <= Len(s) THEN Len(s) - (k + 1) + 1 ELSE 0
        /\ \A i \in 1..(Len(s) - (k + 1) + 1) : rest[i] = s[k + 1 + i - 1]
    BY <2>1, SubSeqProperties
  <2> QED
    BY <1>1, <2>2 DEF Contents
<1>3. n \in 1..(Len(s) - k)
  BY <1>1, <1>2
<1> HIDE DEF rest
<1>4. /\ SubSeq(rest, 1, n) \in Contents /\ Len(SubSeq(rest, 1, n)) = n
      /\ \A i \in 1..n : SubSeq(rest, 1, n)[i] = rest[i]
  <2>1. n \in 1..Len(rest) /\ \A i \in 1..Len(rest) : rest[i] \in Chars \cup {Nul}
    BY <1>1, <1>2, <1>3
  <2>2. 1 \in Int /\ n \in Int /\ \A i \in 1..n : rest[i] \in Chars \cup {Nul}
    BY <1>1, <1>2, <2>1
  <2>3. /\ SubSeq(rest, 1, n) \in Seq(Chars \cup {Nul})
        /\ Len(SubSeq(rest, 1, n)) = IF 1 <= n THEN n - 1 + 1 ELSE 0
        /\ \A i \in 1..(n - 1 + 1) : SubSeq(rest, 1, n)[i] = rest[1 + i - 1]
    BY <2>2, SubSeqProperties
  <2> QED
    BY <2>2, <2>3 DEF Contents
<1>5. k + n <= Len(s) /\ \A j \in 1..n : SubSeq(rest, 1, n)[j] = s[k + j]
  BY <1>1, <1>2, <1>3, <1>4
<1> QED
  BY <1>4, <1>5 DEF rest

(* Where nothing is left to read, everything was.                            *)
LEMMA NothingLeft ==
  ASSUME NEW s \in Contents, NEW k \in Nat, SubSeq(s, k + 1, Len(s)) = <<>>
  PROVE  Len(s) <= k
<1>1. Len(s) \in Nat /\ \A i \in 1..Len(s) : s[i] \in Chars \cup {Nul}
  BY LenProperties, ElementOfSeq DEF Contents
<1>2. Len(SubSeq(s, k + 1, Len(s))) = IF k + 1 <= Len(s) THEN Len(s) - (k + 1) + 1 ELSE 0
  <2>1. k + 1 \in Int /\ Len(s) \in Int /\ \A i \in (k + 1)..Len(s) : s[i] \in Chars \cup {Nul}
    BY <1>1
  <2> QED
    BY <2>1, SubSeqProperties
<1>3. Len(SubSeq(s, k + 1, Len(s))) = 0
  BY EmptySeq, Zenon
<1> QED
  BY <1>1, <1>2, <1>3

(* The paths a call uses.                                                    *)
LEMMA PathsOfCall ==
  ASSUME NEW c \in Calls
  PROVE  /\ Ask[c].kind \in Kinds /\ Target(c) \in Paths /\ From(c) \in Paths
         /\ DirOf(c) \in Seq(Names) /\ Len(DirOf(c)) \in Nat
         /\ \A n \in 1..Len(DirOf(c)) : SubSeq(DirOf(c), 1, n) \in Seq(Names)
         /\ Ask[c].kind = "mkdirs" => DirOf(c) = Target(c) /\ Len(DirOf(c)) > 0
         /\ \A n \in 1..Len(Target(c)) : SubSeq(Target(c), 1, n) \in Paths
<1>1. Ask[c].kind \in Kinds /\ Target(c) \in Paths /\ From(c) \in Paths
  BY HostFilesAssumption DEF Target, From
<1>2. Target(c) \in Seq(Names) /\ Target(c) # <<>>
  BY <1>1, HostFilesAssumption
<1>3. Len(Target(c)) \in Nat \ {0} /\ \A i \in 1..Len(Target(c)) : Target(c)[i] \in Names
  BY <1>2, EmptySeq, ElementOfSeq
<1>4. \A n \in 1..Len(Target(c)) : SubSeq(Target(c), 1, n) \in Paths
  BY <1>1, HostFilesAssumption
<1>5. Front(Target(c)) \in Seq(Names)
  <2>1. /\ 1 \in Int /\ Len(Target(c)) - 1 \in Int
        /\ \A i \in 1..(Len(Target(c)) - 1) : Target(c)[i] \in Names
    BY <1>3
  <2> QED
    BY <2>1, SubSeqProperties DEF Front
<1>6. DirOf(c) \in Seq(Names)
  BY <1>2, <1>5 DEF DirOf, Target
<1>7. Len(DirOf(c)) \in Nat /\ \A i \in 1..Len(DirOf(c)) : DirOf(c)[i] \in Names
  BY <1>6, LenProperties, ElementOfSeq
<1>8. ASSUME NEW n \in 1..Len(DirOf(c))
      PROVE  SubSeq(DirOf(c), 1, n) \in Seq(Names)
  <2>1. 1 \in Int /\ n \in Int /\ \A i \in 1..n : DirOf(c)[i] \in Names
    BY <1>7
  <2> QED
    BY <2>1, SubSeqProperties
<1>9. Ask[c].kind = "mkdirs" => DirOf(c) = Target(c) /\ Len(DirOf(c)) > 0
  BY <1>3 DEF DirOf, Target
<1> QED
  BY <1>1, <1>4, <1>6, <1>7, <1>8, <1>9

-----------------------------------------------------------------------------
(* A step of a call takes no directory and changes no file but its target.   *)
Keeps(d) ==
  \A p \in Paths :
    /\ tree[p] \in Contents /\ ~(Writer(d) /\ p = Target(d)) => tree'[p] = tree[p]
    /\ tree[p] = Dir => tree'[p] = Dir

Only(d) == gone' = gone /\ \A c \in Calls : c # d => call'[c] = call[c]

(* What each step of a call is shown to do.                                  *)
Result(d) == TypeInv' /\ Keeps(d) /\ Only(d) /\ CallInv(d)'

(* A step that leaves the tree alone changes one call.                       *)
LEMMA TreeStays ==
  ASSUME TypeInv, NEW d \in Calls, NEW r \in Locals, Becomes(d, r),
         UNCHANGED tree, gone' = gone
  PROVE  TypeInv' /\ Keeps(d) /\ Only(d) /\ call'[d] = r
BY DEF TypeInv, Keeps, Only, Becomes

(* A step may make a directory where there was nothing.                      *)
LEMMA DirIsMade ==
  ASSUME TypeInv, NEW d \in Calls, NEW r \in Locals, Becomes(d, r), gone' = gone,
         NEW p, tree[p] = None, tree' = [tree EXCEPT ![p] = Dir]
  PROVE  /\ TypeInv' /\ Keeps(d) /\ Only(d) /\ call'[d] = r
         /\ p \in Paths => tree'[p] = Dir
<1>1. None # Dir /\ None \notin Contents
  BY HostFilesAssumption
<1> QED
  BY <1>1 DEF TypeInv, Keeps, Only, Becomes

(* A step of a write may change its own target.                              *)
LEMMA TargetIsWritten ==
  ASSUME TypeInv, NEW d \in Calls, NEW r \in Locals, Becomes(d, r), gone' = gone,
         Writer(d), tree[Target(d)] # Dir, NEW content \in Contents,
         tree' = [tree EXCEPT ![Target(d)] = content]
  PROVE  /\ TypeInv' /\ Keeps(d) /\ Only(d) /\ call'[d] = r
         /\ tree'[Target(d)] = content
<1>1. Target(d) \in Paths
  BY PathsOfCall
<1>2. TypeInv' /\ Only(d) /\ call'[d] = r
  BY DEF TypeInv, Only, Becomes
<1>3. Keeps(d) /\ tree'[Target(d)] = content
  BY <1>1 DEF TypeInv, Keeps
<1> QED
  BY <1>2, <1>3

(* A call that failed promises nothing.                                      *)
LEMMA Failure ==
  ASSUME TypeInv, NEW d \in Calls, NEW r \in Locals, Becomes(d, r),
         UNCHANGED tree, gone' = gone, r.pc \in {"close", "done"}, r.rc = -1
  PROVE  Result(d)
<1>1. TypeInv' /\ Keeps(d) /\ Only(d) /\ call'[d] = r
  BY TreeStays
<1>2. call'[d].pc \in {"close", "done"} /\ call'[d].rc = -1 /\ call'[d].rc # 0
  BY <1>1
<1>3. StepsInv(d)'
  BY <1>2 DEF StepsInv, At
<1>4. BytesInv(d)'
  BY <1>2, Zenon DEF BytesInv, At
<1>5. CopyInv(d)'
  BY <1>2, Zenon DEF CopyInv, At
<1>6. DirsInv(d)'
  BY <1>2 DEF DirsInv, At
<1>7. ReadInv(d)'
  BY <1>2, Zenon DEF ReadInv, At
<1> QED
  BY <1>1, <1>3, <1>4, <1>5, <1>6, <1>7 DEF Result, CallInv

-----------------------------------------------------------------------------
(* What is known before a step.                                              *)
LEMMA Known ==
  ASSUME IInv, NEW d \in Calls
  PROVE  /\ TypeInv /\ call[d] \in Locals /\ tree[Target(d)] \in Contents \cup {None, Dir}
         /\ tree[From(d)] \in Contents \cup {None, Dir}
         /\ StepsInv(d) /\ BytesInv(d) /\ CopyInv(d) /\ DirsInv(d) /\ ReadInv(d)
         /\ Ask[d].kind \in Kinds /\ <<>> \in Contents
BY PathsOfCall, EmptySeq DEF IInv, TypeInv, CallInv, Contents

(* An opened source is one version, and nothing was made.                    *)
LEMMA OpenSourceStep ==
  ASSUME IInv, NEW d \in Calls, OpenSource(d)
  PROVE  Result(d)
<1>1. /\ TypeInv /\ call[d] \in Locals /\ StepsInv(d) /\ At(d, "source")
      /\ UNCHANGED tree /\ gone' = gone /\ Ask[d].kind = "file"
  BY Known DEF OpenSource, Calm, StepsInv
<1>2. CASE IsFile(From(d))
  <2> DEFINE r == [call[d] EXCEPT !.pc = "mkdirs", !.seen = {tree[From(d)]}]
  <2>1. tree[From(d)] \in Contents
    BY <1>2, Known DEF IsFile
  <2>2. r \in Locals /\ Becomes(d, r)
    BY <1>1, <1>2, <2>1 DEF OpenSource, Locals
  <2>3. TypeInv' /\ Keeps(d) /\ Only(d) /\ call'[d] = r
    BY <1>1, <2>2, TreeStays
  <2>4. StepsInv(d)'
    <3>1. 1 \in 1..(Len(DirOf(d)) + 1)
      BY PathsOfCall
    <3> QED
      BY <1>1, <2>3, <3>1 DEF StepsInv, At, Locals, DirOf
  <2>5. BytesInv(d)' /\ DirsInv(d)' /\ ReadInv(d)'
    BY <1>1 DEF BytesInv, DirsInv, ReadInv
  <2>6. CopyInv(d)'
    <3>1. call'[d].pc = "mkdirs" /\ call'[d].seen = {tree'[From(d)]} /\ tree'[From(d)] \in Contents
      BY <1>1, <2>1, <2>3 DEF Locals
    <3> QED
      BY <3>1, Zenon DEF CopyInv, At, From
  <2> QED
    BY <2>3, <2>4, <2>5, <2>6 DEF Result, CallInv
<1>3. CASE ~IsFile(From(d))
  <2> DEFINE r == [call[d] EXCEPT !.pc = "done", !.rc = -1]
  <2>1. r \in Locals /\ Becomes(d, r) /\ r.pc = "done" /\ r.rc = -1
    BY <1>1, <1>3 DEF OpenSource, Locals
  <2> QED
    BY <1>1, <2>1, Failure
<1> QED
  BY <1>2, <1>3

(* A directory is there already, is made, or the call fails.                 *)
LEMMA MakeDirStep ==
  ASSUME IInv, NEW d \in Calls, MakeDir(d)
  PROVE  Result(d)
<1>1. /\ TypeInv /\ call[d] \in Locals /\ At(d, "mkdirs") /\ call[d].at <= Len(DirOf(d))
      /\ gone' = gone /\ call[d].data = <<>> /\ Ask[d].kind # "read"
      /\ call[d].at \in 1..Len(DirOf(d)) /\ StepsInv(d) /\ DirsInv(d) /\ CopyInv(d)
  <2>1. call[d].at \in Nat /\ Len(DirOf(d)) \in Nat
    BY Known, PathsOfCall DEF Locals
  <2> QED
    BY <2>1, Known DEF MakeDir, Calm, StepsInv, At
<1>2. CASE tree[Ancestor(d)] # None
  <2> DEFINE r == [call[d] EXCEPT !.pc = "inspect"]
  <2>1. r \in Locals /\ Becomes(d, r) /\ UNCHANGED tree
    BY <1>1, <1>2 DEF MakeDir, Goes, Locals
  <2>2. TypeInv' /\ Keeps(d) /\ Only(d) /\ call'[d] = r
    BY <1>1, <2>1, TreeStays
  <2>3. StepsInv(d)'
    BY <1>1, <2>2, PathsOfCall DEF StepsInv, At, Locals, DirOf
  <2>4. BytesInv(d)' /\ ReadInv(d)'
    BY <1>1, <2>2 DEF BytesInv, ReadInv, At, Locals
  <2>5. CopyInv(d)'
    <3>1. call'[d].pc = "inspect" /\ call'[d].seen = call[d].seen /\ tree' = tree
      BY <1>1, <2>1, <2>2 DEF Locals
    <3> QED
      BY <1>1, <3>1 DEF CopyInv, At, From
  <2>6. DirsInv(d)'
    BY <1>1, <2>1, <2>2 DEF DirsInv, At, Locals, Target
  <2> QED
    BY <2>2, <2>3, <2>4, <2>5, <2>6 DEF Result, CallInv
<1>3. CASE tree[Ancestor(d)] = None /\ HasParent(Ancestor(d))
  <2> DEFINE r == [call[d] EXCEPT !.at = @ + 1, !.made = @ \cup {Ancestor(d)}]
  <2>1. Ancestor(d) \in Seq(Names) /\ (Ask[d].kind = "mkdirs" => Ancestor(d) \in Paths)
    BY <1>1, PathsOfCall DEF Ancestor
  <2>2. r \in Locals /\ Becomes(d, r) /\ tree' = [tree EXCEPT ![Ancestor(d)] = Dir]
    <3>1. call[d].at + 1 \in Nat /\ call[d].made \cup {Ancestor(d)} \in SUBSET Seq(Names)
      BY <1>1, <2>1 DEF Locals
    <3>2. r \in Locals
      BY <1>1, <3>1 DEF Locals
    <3>3. Becomes(d, r) /\ tree' = [tree EXCEPT ![Ancestor(d)] = Dir]
      BY <1>3 DEF MakeDir
    <3> QED
      BY <3>2, <3>3
  <2>3. /\ TypeInv' /\ Keeps(d) /\ Only(d) /\ call'[d] = r
        /\ Ancestor(d) \in Paths => tree'[Ancestor(d)] = Dir
    BY <1>1, <1>3, <2>2, DirIsMade
  <2>4. /\ call'[d].pc = "mkdirs" /\ call'[d].at = call[d].at + 1 /\ call'[d].data = <<>>
        /\ call'[d].seen = call[d].seen
    BY <1>1, <2>3 DEF At, Locals
  <2>5. StepsInv(d)'
    BY <1>1, <2>4, PathsOfCall DEF StepsInv, At, DirOf
  <2>6. BytesInv(d)' /\ ReadInv(d)'
    BY <1>1, <2>4 DEF BytesInv, ReadInv, At
  <2>7. CopyInv(d)'
    <3>1. ASSUME Ask[d].kind = "file"
          PROVE  tree'[From(d)] = tree[From(d)] /\ tree[From(d)] \in Contents
                 /\ tree[From(d)] \in call[d].seen
      <4>1. tree[From(d)] \in Contents /\ tree[From(d)] \in call[d].seen
        BY <1>1, <3>1 DEF CopyInv, At
      <4>2. From(d) \in Paths /\ None \notin Contents
        BY PathsOfCall, HostFilesAssumption
      <4> QED
        BY <1>1, <1>3, <2>2, <4>1, <4>2 DEF TypeInv
    <3> QED
      BY <2>4, <3>1 DEF CopyInv, At, From
  <2>8. DirsInv(d)'
    <3>1. ASSUME Ask[d].kind = "mkdirs"
          PROVE  tree'[SubSeq(Target(d), 1, call'[d].at - 1)] = Dir
      <4>1. Ancestor(d) = SubSeq(Target(d), 1, call[d].at) /\ call'[d].at - 1 = call[d].at
        BY <1>1, <2>4, <3>1, PathsOfCall DEF Ancestor
      <4> QED
        BY <2>1, <2>3, <3>1, <4>1
    <3> QED
      BY <2>4, <3>1 DEF DirsInv, At, Target
  <2> QED
    BY <2>3, <2>5, <2>6, <2>7, <2>8 DEF Result, CallInv
<1>4. CASE tree[Ancestor(d)] = None /\ ~HasParent(Ancestor(d))
  <2> DEFINE r == [call[d] EXCEPT !.pc = "close", !.rc = -1]
  <2>1. r \in Locals /\ Becomes(d, r) /\ UNCHANGED tree /\ r.pc = "close" /\ r.rc = -1
    BY <1>1, <1>4 DEF MakeDir, Fails, Locals
  <2> QED
    BY <1>1, <2>1, Failure
<1> QED
  BY <1>2, <1>3, <1>4

(* What was there already is a directory, or the call fails.                 *)
LEMMA InspectDirStep ==
  ASSUME IInv, NEW d \in Calls, InspectDir(d)
  PROVE  Result(d)
<1>1. /\ TypeInv /\ call[d] \in Locals /\ At(d, "inspect") /\ call[d].at <= Len(DirOf(d))
      /\ gone' = gone /\ UNCHANGED tree /\ call[d].data = <<>> /\ Ask[d].kind # "read"
      /\ call[d].at \in 1..Len(DirOf(d)) /\ CopyInv(d)
  <2>1. call[d].at \in Nat /\ Len(DirOf(d)) \in Nat
    BY Known, PathsOfCall DEF Locals
  <2> QED
    BY <2>1, Known DEF InspectDir, Calm, StepsInv, At
<1>2. CASE tree[Ancestor(d)] = Dir
  <2> DEFINE r == [call[d] EXCEPT !.pc = "mkdirs", !.at = @ + 1]
  <2>1. r \in Locals /\ Becomes(d, r)
    <3>1. call[d].at + 1 \in Nat
      BY <1>1
    <3>2. r \in Locals
      BY <1>1, <3>1 DEF Locals
    <3> QED
      BY <1>2, <3>2 DEF InspectDir
  <2>2. TypeInv' /\ Keeps(d) /\ Only(d) /\ call'[d] = r
    BY <1>1, <2>1, TreeStays
  <2>3. /\ call'[d].pc = "mkdirs" /\ call'[d].at = call[d].at + 1 /\ call'[d].data = <<>>
        /\ call'[d].seen = call[d].seen
    BY <1>1, <2>2 DEF Locals
  <2>4. StepsInv(d)'
    BY <1>1, <2>3, PathsOfCall DEF StepsInv, At, DirOf
  <2>5. BytesInv(d)' /\ ReadInv(d)'
    BY <1>1, <2>3 DEF BytesInv, ReadInv, At
  <2>6. CopyInv(d)'
    BY <1>1, <2>3 DEF CopyInv, At, From
  <2>7. DirsInv(d)'
    <3>1. ASSUME Ask[d].kind = "mkdirs"
          PROVE  tree'[SubSeq(Target(d), 1, call'[d].at - 1)] = Dir
      <4>1. Ancestor(d) = SubSeq(Target(d), 1, call[d].at) /\ call'[d].at - 1 = call[d].at
        BY <1>1, <2>3, <3>1, PathsOfCall DEF Ancestor
      <4> QED
        BY <1>1, <1>2, <4>1
    <3> QED
      BY <2>3, <3>1 DEF DirsInv, At, Target
  <2> QED
    BY <2>2, <2>4, <2>5, <2>6, <2>7 DEF Result, CallInv
<1>3. CASE tree[Ancestor(d)] # Dir
  <2> DEFINE r == [call[d] EXCEPT !.pc = "close", !.rc = -1]
  <2>1. r \in Locals /\ Becomes(d, r) /\ r.pc = "close" /\ r.rc = -1
    BY <1>1, <1>3 DEF InspectDir, Fails, Locals
  <2> QED
    BY <1>1, <2>1, Failure
<1> QED
  BY <1>2, <1>3

(* Past the last ancestor the directory itself is there.                     *)
LEMMA EndMakeDirsStep ==
  ASSUME IInv, NEW d \in Calls, EndMakeDirs(d)
  PROVE  Result(d)
<1> DEFINE r == [call[d] EXCEPT !.pc = "done"]
<1>1. /\ TypeInv /\ call[d] \in Locals /\ At(d, "mkdirs") /\ Ask[d].kind = "mkdirs"
      /\ gone' = gone /\ UNCHANGED tree /\ DirsInv(d)
      /\ call[d].at = Len(Target(d)) + 1 /\ Len(Target(d)) \in Nat \ {0}
  <2>1. call[d].at \in Nat /\ Len(DirOf(d)) \in Nat
    BY Known, PathsOfCall DEF Locals
  <2> QED
    BY <2>1, Known, PathsOfCall DEF EndMakeDirs, Calm, StepsInv, At
<1>2. r \in Locals /\ Becomes(d, r)
  BY <1>1 DEF EndMakeDirs, Goes, Locals
<1>3. TypeInv' /\ Keeps(d) /\ Only(d) /\ call'[d] = r
  BY <1>1, <1>2, TreeStays
<1>4. call'[d].pc = "done"
  BY <1>1, <1>3 DEF Locals
<1>5. SubSeq(Target(d), 1, call[d].at - 1) = Target(d)
  <2>1. Target(d) \in Seq(Names) /\ call[d].at - 1 = Len(Target(d))
    BY <1>1, PathsOfCall, HostFilesAssumption
  <2> QED
    BY <2>1, SubSeqFull
<1>6. gone = {} => tree[Target(d)] = Dir
  <2>1. call[d].at > 1
    BY <1>1
  <2> QED
    BY <1>1, <1>5, <2>1 DEF DirsInv, At
<1>7. StepsInv(d)'
  BY <1>4 DEF StepsInv, At
<1>8. BytesInv(d)' /\ ReadInv(d)' /\ CopyInv(d)'
  BY <1>1 DEF BytesInv, ReadInv, CopyInv
<1>9. DirsInv(d)'
  BY <1>1, <1>4, <1>6 DEF DirsInv, At, Target
<1> QED
  BY <1>3, <1>7, <1>8, <1>9 DEF Result, CallInv

(* An opened target is empty, and all is left to write.                      *)
LEMMA OpenTargetStep ==
  ASSUME IInv, NEW d \in Calls, OpenTarget(d)
  PROVE  Result(d)
<1>1. /\ TypeInv /\ call[d] \in Locals /\ At(d, "mkdirs") /\ gone' = gone
      /\ call[d].data = <<>> /\ Writer(d) /\ CopyInv(d) /\ <<>> \in Contents
      /\ Ask[d].bytes \in Contents
  BY Known, HostFilesAssumption DEF OpenTarget, Calm, StepsInv, At, Writer, Kinds
<1>2. CASE HasParent(Target(d)) /\ tree[Target(d)] # Dir
  <2> DEFINE left == IF Ask[d].kind = "bytes" THEN Ask[d].bytes ELSE <<>>
             r == [call[d] EXCEPT !.pc = "write", !.made = @ \cup {Target(d)}, !.todo = left]
  <2>1. call[d].made \cup {Target(d)} \in SUBSET Seq(Names) /\ left \in Contents
    <3>1. Target(d) \in Seq(Names)
      BY PathsOfCall, HostFilesAssumption
    <3> QED
      BY <1>1, <3>1 DEF Locals
  <2>2. r \in Locals
    BY <1>1, <2>1 DEF Locals
  <2>3. Becomes(d, r) /\ tree' = [tree EXCEPT ![Target(d)] = <<>>]
    BY <1>2 DEF OpenTarget, Target
  <2> HIDE DEF r
  <2>4. /\ TypeInv' /\ Keeps(d) /\ Only(d) /\ call'[d] = r /\ tree'[Target(d)] = <<>>
    BY <1>1, <1>2, <2>2, <2>3, TargetIsWritten, Zenon
  <2>5. /\ call'[d].pc = "write" /\ call'[d].todo = left /\ call'[d].data = <<>>
        /\ call'[d].seen = call[d].seen
    BY <1>1, <2>4 DEF Locals, r
  <2>6. StepsInv(d)'
    BY <1>1, <2>5 DEF StepsInv, At, Writer
  <2>7. BytesInv(d)'
    <3>1. Ask[d].kind = "bytes" => tree'[Target(d)] \o call'[d].todo = Ask[d].bytes
      BY <1>1, <2>4, <2>5, Lengths
    <3> QED
      BY <1>1, <2>4, <2>5, <3>1 DEF BytesInv, At, Target
  <2>8. CopyInv(d)'
    <3>1. ASSUME Ask[d].kind = "file"
          PROVE  /\ tree'[From(d)] = tree[From(d)] /\ tree[From(d)] \in Contents
                 /\ tree[From(d)] \in call[d].seen
      <4>1. tree[From(d)] \in Contents /\ tree[From(d)] \in call[d].seen
        BY <1>1, <3>1 DEF CopyInv, At
      <4>2. From(d) # Target(d)
        BY <1>1, <3>1, HostFilesAssumption DEF Writer, Target
      <4> QED
        BY <1>1, <2>3, <4>1, <4>2 DEF TypeInv
    <3>2. ASSUME Ask[d].kind = "file"
          PROVE  tree'[Target(d)] \in Contents /\ tree'[Target(d)] \o call'[d].todo = call'[d].data
      <4>1. call'[d].todo = <<>>
        BY <2>5, <3>2
      <4> QED
        BY <1>1, <2>4, <2>5, <4>1, Lengths
    <3>3. ASSUME NEW content \in call[d].seen
          PROVE  /\ Len(call'[d].data) <= Len(content)
                 /\ call'[d].data = SubSeq(content, 1, Len(call'[d].data))
      <4>1. Len(content) \in Nat
        BY <1>1, Lengths DEF Locals
      <4>2. Len(call'[d].data) = 0 /\ SubSeq(content, 1, 0) = <<>>
        BY <2>5, EmptySeq, SubSeqEmpty
      <4> QED
        BY <2>5, <4>1, <4>2
    <3> QED
      BY <2>5, <3>1, <3>2, <3>3 DEF CopyInv, At, Target, From
  <2>9. DirsInv(d)' /\ ReadInv(d)'
    BY <1>1 DEF DirsInv, ReadInv, Writer
  <2> QED
    BY <2>4, <2>6, <2>7, <2>8, <2>9 DEF Result, CallInv
<1>3. CASE ~(HasParent(Target(d)) /\ tree[Target(d)] # Dir)
  <2> DEFINE r == [call[d] EXCEPT !.pc = "close", !.rc = -1]
  <2>1. r \in Locals /\ Becomes(d, r) /\ UNCHANGED tree /\ r.pc = "close" /\ r.rc = -1
    BY <1>1, <1>3 DEF OpenTarget, Fails, Locals, Target
  <2> QED
    BY <1>1, <2>1, Failure
<1> QED
  BY <1>2, <1>3

(* A short write moves bytes from what is left to what is there.             *)
LEMMA WriteSomeStep ==
  ASSUME IInv, NEW d \in Calls, WriteSome(d)
  PROVE  Result(d)
<1>1. /\ TypeInv /\ call[d] \in Locals /\ At(d, "write") /\ gone' = gone /\ Writer(d)
      /\ BytesInv(d) /\ CopyInv(d) /\ call[d].todo \in Contents /\ tree[Target(d)] \in Contents
  BY Known DEF WriteSome, Calm, StepsInv, BytesInv, CopyInv, At, Writer, Locals
<1>2. PICK n \in 1..Len(call[d].todo) :
        /\ tree' = [tree EXCEPT ![Target(d)] = @ \o SubSeq(call[d].todo, 1, n)]
        /\ Becomes(d, [call[d] EXCEPT !.todo = SubSeq(@, n + 1, Len(@))])
  BY DEF WriteSome, Target
<1> DEFINE content == tree[Target(d)] \o SubSeq(call[d].todo, 1, n)
           left == SubSeq(call[d].todo, n + 1, Len(call[d].todo))
           r == [call[d] EXCEPT !.todo = left]
<1>3. content \in Contents /\ left \in Contents /\ content \o left = tree[Target(d)] \o call[d].todo
  BY <1>1, WriteMoves, Pieces
<1>4. tree' = [tree EXCEPT ![Target(d)] = content] /\ Becomes(d, r)
  BY <1>2
<1>5. tree[Target(d)] # Dir
  BY <1>1, HostFilesAssumption
<1> HIDE DEF content, left
<1>6. r \in Locals
  BY <1>1, <1>3 DEF Locals
<1> HIDE DEF r
<1>7. TypeInv' /\ Keeps(d) /\ Only(d) /\ call'[d] = r /\ tree'[Target(d)] = content
  BY <1>1, <1>3, <1>4, <1>5, <1>6, TargetIsWritten, Zenon
<1>8. /\ call'[d].pc = "write" /\ call'[d].todo = left /\ call'[d].data = call[d].data
      /\ call'[d].seen = call[d].seen
  BY <1>1, <1>7 DEF Locals, At, r
<1>9. StepsInv(d)'
  BY <1>1, <1>8 DEF StepsInv, At, Writer
<1>10. BytesInv(d)'
  <2>1. Ask[d].kind = "bytes" => content \o left = Ask[d].bytes
    BY <1>1, <1>3 DEF BytesInv, At
  <2> QED
    BY <1>3, <1>7, <1>8, <2>1 DEF BytesInv, At, Target
<1>11. CopyInv(d)'
  <2> SUFFICES ASSUME Ask[d].kind = "file"
               PROVE  CopyInv(d)'
    BY DEF CopyInv
  <2>1. content \o left = call[d].data
    BY <1>1, <1>3 DEF CopyInv, At
  <2>2. tree'[From(d)] = tree[From(d)]
    <3>1. From(d) \in Paths /\ From(d) # Target(d)
      BY <1>1, PathsOfCall, HostFilesAssumption DEF Writer, Target
    <3> QED
      BY <1>1, <1>4, <3>1 DEF TypeInv
  <2>3. tree[From(d)] \in Contents /\ tree[From(d)] \in call[d].seen
    BY <1>1 DEF CopyInv, At
  <2>4. \A x \in call[d].seen : call[d].seen = {x} =>
          Len(call[d].data) <= Len(x) /\ call[d].data = SubSeq(x, 1, Len(call[d].data))
    BY <1>1 DEF CopyInv, At
  <2> QED
    BY <1>3, <1>7, <1>8, <2>1, <2>2, <2>3, <2>4, Zenon DEF CopyInv, At, Target, From
<1>12. DirsInv(d)' /\ ReadInv(d)'
  BY <1>1 DEF DirsInv, ReadInv, Writer
<1> QED
  BY <1>7, <1>9, <1>10, <1>11, <1>12 DEF Result, CallInv

(* A chunk goes on where the last one ended.                                 *)
LEMMA ReadChunkStep ==
  ASSUME IInv, NEW d \in Calls, ReadChunk(d)
  PROVE  Result(d)
<1>1. /\ TypeInv /\ call[d] \in Locals /\ At(d, "write") /\ gone' = gone /\ UNCHANGED tree
      /\ Ask[d].kind = "file" /\ call[d].todo = <<>> /\ CopyInv(d) /\ Writer(d)
      /\ call[d].data \in Contents
  BY Known DEF ReadChunk, Calm, Writer, Locals
<1> DEFINE source == tree[From(d)]
           k == Len(call[d].data)
<1>2. PICK n \in 1..Len(Rest(d)) :
        Becomes(d, [call[d] EXCEPT !.todo = SubSeq(Rest(d), 1, n),
                                   !.data = @ \o SubSeq(Rest(d), 1, n)])
  BY DEF ReadChunk
<1> DEFINE chunk == SubSeq(SubSeq(source, k + 1, Len(source)), 1, n)
           got == call[d].data \o chunk
           r == [call[d] EXCEPT !.todo = chunk, !.data = got]
<1>3. /\ source \in Contents /\ source \in call[d].seen /\ tree[Target(d)] \in Contents
      /\ tree[Target(d)] = call[d].data
  <2>1. /\ source \in Contents /\ source \in call[d].seen /\ tree[Target(d)] \in Contents
        /\ tree[Target(d)] \o <<>> = call[d].data
    BY <1>1 DEF CopyInv, At
  <2> QED
    BY <2>1, Lengths
<1>4. k \in Nat /\ n \in 1..Len(SubSeq(source, k + 1, Len(source)))
  BY <1>1, <1>2, Lengths DEF Rest
<1>5. chunk \in Contents /\ Len(chunk) = n
  BY <1>3, <1>4, ReadOn
<1>6. got \in Contents /\ Len(got) = k + n
  <2> HIDE DEF chunk
  <2>1. call[d].data \o chunk \in Contents /\ Len(call[d].data \o chunk) = k + Len(chunk)
    BY <1>1, <1>5, Concat
  <2> QED
    BY <1>5, <2>1
<1>7. Becomes(d, r)
  BY <1>2 DEF Rest
<1>8. \A x \in call[d].seen : call[d].seen = {x} =>
        Len(got) <= Len(x) /\ got = SubSeq(x, 1, Len(got))
  <2> SUFFICES ASSUME call[d].seen = {source}
               PROVE  Len(got) <= Len(source) /\ got = SubSeq(source, 1, Len(got))
    BY <1>3
  <2>1. k <= Len(source) /\ call[d].data = SubSeq(source, 1, k)
    BY <1>1, <1>3 DEF CopyInv, At
  <2>2. k \in 0..Len(source) /\ Len(source) \in Nat
    BY <1>3, <1>4, <2>1, Lengths
  <2>3. k + n \in 0..Len(source) /\ SubSeq(source, 1, k) \o chunk = SubSeq(source, 1, k + n)
    BY <1>3, <1>4, <2>2, ReadMoves
  <2> QED
    BY <1>6, <2>1, <2>2, <2>3
<1> HIDE DEF chunk, got
<1>9. r \in Locals
  BY <1>1, <1>5, <1>6 DEF Locals
<1> HIDE DEF r
<1>10. TypeInv' /\ Keeps(d) /\ Only(d) /\ call'[d] = r
  BY <1>1, <1>7, <1>9, TreeStays, Zenon
<1>11. /\ call'[d].pc = "write" /\ call'[d].todo = chunk /\ call'[d].data = got
       /\ call'[d].seen = call[d].seen
  BY <1>1, <1>10 DEF Locals, At, r
<1>12. StepsInv(d)'
  BY <1>1, <1>11 DEF StepsInv, At, Writer
<1>13. CopyInv(d)'
  <2>1. tree[Target(d)] \o chunk = got
    BY <1>3 DEF got
  <2> QED
    BY <1>1, <1>3, <1>8, <1>11, <2>1, Zenon DEF CopyInv, At, Target, From
<1>14. BytesInv(d)' /\ DirsInv(d)' /\ ReadInv(d)'
  BY <1>1 DEF BytesInv, DirsInv, ReadInv
<1> QED
  BY <1>10, <1>12, <1>13, <1>14 DEF Result, CallInv

(* With nothing left to write or to copy, all is there.                      *)
LEMMA EndWriteStep ==
  ASSUME IInv, NEW d \in Calls, EndWrite(d)
  PROVE  Result(d)
<1> DEFINE r == [call[d] EXCEPT !.pc = "close"]
<1>1. /\ TypeInv /\ call[d] \in Locals /\ At(d, "write") /\ gone' = gone /\ UNCHANGED tree
      /\ call[d].todo = <<>> /\ (Ask[d].kind = "file" => Rest(d) = <<>>) /\ Writer(d)
      /\ BytesInv(d) /\ CopyInv(d) /\ call[d].data \in Contents
  BY Known DEF EndWrite, Calm, StepsInv, Locals
<1>2. r \in Locals /\ Becomes(d, r)
  BY <1>1 DEF EndWrite, Goes, Locals
<1>3. TypeInv' /\ Keeps(d) /\ Only(d) /\ call'[d] = r
  BY <1>1, <1>2, TreeStays
<1>4. call'[d].pc = "close" /\ call'[d].seen = call[d].seen
  BY <1>1, <1>3 DEF Locals
<1>5. StepsInv(d)'
  BY <1>4 DEF StepsInv, At
<1>6. BytesInv(d)'
  <2>1. ASSUME Ask[d].kind = "bytes"
        PROVE  tree[Target(d)] = Ask[d].bytes
    <3>1. tree[Target(d)] \in Contents /\ tree[Target(d)] \o <<>> = Ask[d].bytes
      BY <1>1, <2>1 DEF BytesInv, At
    <3> QED
      BY <3>1, Lengths
  <2> QED
    BY <1>1, <1>4, <2>1 DEF BytesInv, At, Target
<1>7. CopyInv(d)'
  <2> SUFFICES ASSUME Ask[d].kind = "file"
               PROVE  CopyInv(d)'
    BY DEF CopyInv
  <2>1. /\ tree[Target(d)] = call[d].data
        /\ tree[From(d)] \in Contents /\ tree[From(d)] \in call[d].seen
    <3>1. tree[Target(d)] \in Contents /\ tree[Target(d)] \o <<>> = call[d].data
      BY <1>1 DEF CopyInv, At
    <3> QED
      BY <1>1, <3>1, Lengths DEF CopyInv, At
  <2>2. Len(tree[From(d)]) <= Len(call[d].data)
    BY <1>1, <2>1, Lengths, NothingLeft DEF Rest
  <2>3. ASSUME NEW content \in call[d].seen, call[d].seen = {content}
        PROVE  tree[Target(d)] = content
    <3>1. content = tree[From(d)] /\ content \in Contents
      BY <2>1, <2>3
    <3>2. Len(call[d].data) <= Len(content) /\ call[d].data = SubSeq(content, 1, Len(call[d].data))
      BY <1>1, <2>3 DEF CopyInv, At
    <3>3. Len(call[d].data) = Len(content)
      BY <1>1, <2>2, <3>1, <3>2, Lengths
    <3>4. SubSeq(content, 1, Len(content)) = content
      BY <3>1, SubSeqFull DEF Contents
    <3> QED
      BY <2>1, <3>2, <3>3, <3>4
  <2> QED
    BY <1>1, <1>4, <2>1, <2>3 DEF CopyInv, At, Target
<1>8. DirsInv(d)' /\ ReadInv(d)'
  BY <1>1 DEF DirsInv, ReadInv, Writer
<1> QED
  BY <1>3, <1>5, <1>6, <1>7, <1>8 DEF Result, CallInv

(* The size of a read is that of a version, within the limit.                *)
LEMMA OpenReadStep ==
  ASSUME IInv, NEW d \in Calls, OpenRead(d)
  PROVE  Result(d)
<1> DEFINE source == tree[From(d)]
           size == Len(source)
<1>1. /\ TypeInv /\ call[d] \in Locals /\ At(d, "open") /\ gone' = gone /\ UNCHANGED tree
      /\ Ask[d].kind = "read" /\ call[d].data = <<>>
  BY Known DEF OpenRead, Calm, StepsInv, At
<1>2. CASE IsFile(From(d)) /\ size > Ask[d].limit
  <2> DEFINE r == [call[d] EXCEPT !.pc = "close", !.rc = -1, !.size = size, !.seen = {source}]
  <2>1. source \in Contents /\ size \in Nat
    BY <1>2, Known, Lengths DEF IsFile
  <2>2. r \in Locals /\ r.pc = "close" /\ r.rc = -1
    BY <1>1, <2>1 DEF Locals
  <2>3. Becomes(d, r)
    BY <1>2 DEF OpenRead
  <2> QED
    BY <1>1, <2>2, <2>3, Failure
<1>3. CASE IsFile(From(d)) /\ ~(size > Ask[d].limit)
  <2> DEFINE r == [call[d] EXCEPT !.pc = "fill", !.rc = 0, !.size = size, !.seen = {source}]
  <2>1. source \in Contents /\ size \in Nat /\ size <= Ask[d].limit
    BY <1>3, Known, Lengths, HostFilesAssumption DEF IsFile
  <2>2. r \in Locals /\ Becomes(d, r)
    BY <1>1, <1>3, <2>1 DEF OpenRead, Locals
  <2>3. TypeInv' /\ Keeps(d) /\ Only(d) /\ call'[d] = r
    BY <1>1, <2>2, TreeStays
  <2>4. /\ call'[d].pc = "fill" /\ call'[d].size = size /\ call'[d].seen = {source}
        /\ call'[d].data = <<>>
    BY <1>1, <2>3 DEF Locals
  <2>5. StepsInv(d)'
    BY <1>1, <2>4 DEF StepsInv, At
  <2>6. SizeIsSeen(d)' /\ BytesAreSeen(d)'
    BY <2>4, EmptySeq DEF SizeIsSeen, BytesAreSeen
  <2>7. ReadInv(d)'
    BY <1>1, <2>1, <2>4, <2>6 DEF ReadInv, At, From
  <2>8. BytesInv(d)' /\ CopyInv(d)' /\ DirsInv(d)'
    BY <1>1 DEF BytesInv, CopyInv, DirsInv
  <2> QED
    BY <2>3, <2>5, <2>7, <2>8 DEF Result, CallInv
<1>4. CASE ~IsFile(From(d))
  <2> DEFINE r == [call[d] EXCEPT !.pc = "done", !.rc = -1]
  <2>1. r \in Locals /\ Becomes(d, r) /\ r.pc = "done" /\ r.rc = -1
    BY <1>1, <1>4 DEF OpenRead, Locals
  <2> QED
    BY <1>1, <2>1, Failure
<1> QED
  BY <1>2, <1>3, <1>4

(* Every byte a read gets is at its place in a version.                      *)
LEMMA FillStep ==
  ASSUME IInv, NEW d \in Calls, Fill(d)
  PROVE  Result(d)
<1> DEFINE source == tree[From(d)]
           k == Len(call[d].data)
<1>1. /\ TypeInv /\ call[d] \in Locals /\ At(d, "fill") /\ gone' = gone /\ UNCHANGED tree
      /\ Ask[d].kind = "read" /\ call[d].data \in Contents /\ k \in Nat
      /\ source \in Contents /\ source \in call[d].seen /\ call[d].size <= Ask[d].limit
      /\ SizeIsSeen(d) /\ BytesAreSeen(d)
  BY Known, Lengths DEF Fill, Calm, StepsInv, ReadInv, At, Locals
<1>2. CASE Rest(d) = <<>>
  <2> DEFINE r == [call[d] EXCEPT !.pc = "close", !.rc = -1]
  <2>1. r \in Locals /\ Becomes(d, r) /\ r.pc = "close" /\ r.rc = -1
    BY <1>1, <1>2 DEF Fill, Fails, Locals
  <2> QED
    BY <1>1, <2>1, Failure
<1>3. CASE Rest(d) # <<>>
  <2>1. PICK n \in 1..Len(Rest(d)) :
          Becomes(d, [call[d] EXCEPT !.data = @ \o SubSeq(Rest(d), 1, n)])
    BY <1>3 DEF Fill
  <2> DEFINE chunk == SubSeq(SubSeq(source, k + 1, Len(source)), 1, n)
             got == call[d].data \o chunk
             r == [call[d] EXCEPT !.data = got]
  <2>2. n \in 1..Len(SubSeq(source, k + 1, Len(source)))
    BY <2>1 DEF Rest
  <2>3. /\ chunk \in Contents /\ Len(chunk) = n /\ k + n <= Len(source)
        /\ \A j \in 1..n : chunk[j] = source[k + j]
    BY <1>1, <2>2, ReadOn
  <2>4. Becomes(d, r)
    BY <2>1 DEF Rest
  <2> HIDE DEF chunk
  <2>5. /\ got \in Contents /\ Len(got) = k + n
        /\ \A i \in 1..(k + n) : got[i] = IF i <= k THEN call[d].data[i] ELSE chunk[i - k]
    BY <1>1, <2>3, Concat
  <2> HIDE DEF got
  <2>6. r \in Locals
    BY <1>1, <2>5 DEF Locals
  <2> HIDE DEF r
  <2>7. TypeInv' /\ Keeps(d) /\ Only(d) /\ call'[d] = r
    BY <1>1, <2>4, <2>6, TreeStays, Zenon
  <2>8. /\ call'[d].pc = "fill" /\ call'[d].data = got /\ call'[d].size = call[d].size
        /\ call'[d].seen = call[d].seen
    BY <1>1, <2>7 DEF Locals, At, r
  <2>9. ASSUME NEW i \in 1..Len(got)
        PROVE  \E x \in call[d].seen : i \in 1..Len(x) /\ got[i] = x[i]
    <3>1. CASE i <= k
      <4>1. got[i] = call[d].data[i] /\ i \in 1..k
        BY <1>1, <2>2, <2>5, <3>1
      <4>2. PICK x \in call[d].seen : i \in 1..Len(x) /\ call[d].data[i] = x[i]
        BY <1>1, <4>1, Zenon DEF BytesAreSeen
      <4>3. i \in 1..Len(x) /\ got[i] = x[i]
        BY <4>1, <4>2, Zenon
      <4> QED
        BY <4>3, Zenon
    <3>2. CASE ~(i <= k)
      <4>1. i - k \in 1..n /\ i \in 1..Len(source)
        <5>1. Len(source) \in Nat /\ k \in Nat
          BY <1>1, Lengths
        <5>2. n \in Nat /\ i \in 1..(k + n)
          BY <2>2, <2>5
        <5>3. k + n <= Len(source)
          BY <2>3
        <5> HIDE DEF k, source
        <5> QED
          BY <3>2, <5>1, <5>2, <5>3
      <4>2. got[i] = chunk[i - k] /\ chunk[i - k] = source[k + (i - k)] /\ k + (i - k) = i
        BY <1>1, <2>3, <2>5, <3>2, <4>1
      <4> QED
        BY <1>1, <4>1, <4>2
    <3> QED
      BY <3>1, <3>2
  <2>10. SizeIsSeen(d)' /\ BytesAreSeen(d)'
    BY <1>1, <2>8, <2>9 DEF SizeIsSeen, BytesAreSeen
  <2>11. StepsInv(d)'
    BY <1>1, <2>8 DEF StepsInv, At
  <2>12. ReadInv(d)'
    BY <1>1, <2>8, <2>10 DEF ReadInv, At, From
  <2>13. BytesInv(d)' /\ CopyInv(d)' /\ DirsInv(d)'
    BY <1>1 DEF BytesInv, CopyInv, DirsInv
  <2> QED
    BY <2>7, <2>11, <2>12, <2>13 DEF Result, CallInv
<1> QED
  BY <1>2, <1>3

(* A read that has its size, no more and no NUL, may succeed.                *)
LEMMA EndFillStep ==
  ASSUME IInv, NEW d \in Calls, EndFill(d)
  PROVE  Result(d)
<1> DEFINE grown == \/ Len(call[d].data) > call[d].size \/ Rest(d) # <<>>
                    \/ Nul \in Range(call[d].data)
<1>1. /\ TypeInv /\ call[d] \in Locals /\ At(d, "fill") /\ gone' = gone /\ UNCHANGED tree
      /\ Ask[d].kind = "read" /\ call[d].data \in Contents /\ Len(call[d].data) \in Nat
      /\ call[d].size \in Nat /\ call[d].size <= Ask[d].limit
      /\ SizeIsSeen(d) /\ BytesAreSeen(d)
  BY Known, Lengths DEF EndFill, Calm, StepsInv, ReadInv, At, Locals
<1>2. CASE grown
  <2> DEFINE r == [call[d] EXCEPT !.pc = "close", !.rc = -1]
  <2>1. r \in Locals /\ Becomes(d, r) /\ r.pc = "close" /\ r.rc = -1
    BY <1>1, <1>2 DEF EndFill, Fails, Locals
  <2> QED
    BY <1>1, <2>1, Failure
<1>3. CASE ~grown
  <2> DEFINE r == [call[d] EXCEPT !.pc = "close"]
  <2>1. r \in Locals /\ Becomes(d, r)
    BY <1>1, <1>3 DEF EndFill, Goes, Locals
  <2>2. TypeInv' /\ Keeps(d) /\ Only(d) /\ call'[d] = r
    BY <1>1, <2>1, TreeStays
  <2>3. /\ call'[d].pc = "close" /\ call'[d].data = call[d].data
        /\ call'[d].size = call[d].size /\ call'[d].seen = call[d].seen
    BY <1>1, <2>2 DEF Locals
  <2>4. Len(call[d].data) = call[d].size /\ Nul \notin Range(call[d].data)
    <3>1. Len(call[d].data) >= call[d].size
      BY DEF EndFill
    <3> QED
      BY <1>1, <1>3, <3>1
  <2>5. SizeIsSeen(d)' /\ BytesAreSeen(d)'
    BY <1>1, <2>3 DEF SizeIsSeen, BytesAreSeen
  <2>6. StepsInv(d)'
    BY <2>3 DEF StepsInv, At
  <2>7. ReadInv(d)'
    BY <1>1, <2>3, <2>4, <2>5 DEF ReadInv, At
  <2>8. BytesInv(d)' /\ CopyInv(d)' /\ DirsInv(d)'
    BY <1>1 DEF BytesInv, CopyInv, DirsInv
  <2> QED
    BY <2>2, <2>6, <2>7, <2>8 DEF Result, CallInv
<1> QED
  BY <1>2, <1>3

(* A close changes nothing.                                                  *)
LEMMA CloseStep ==
  ASSUME IInv, NEW d \in Calls, Close(d)
  PROVE  Result(d)
<1> DEFINE r == [call[d] EXCEPT !.pc = "done"]
<1>1. /\ TypeInv /\ call[d] \in Locals /\ At(d, "close") /\ gone' = gone /\ UNCHANGED tree
      /\ BytesInv(d) /\ CopyInv(d) /\ DirsInv(d) /\ ReadInv(d)
  BY Known DEF Close, Calm
<1>2. r \in Locals /\ Becomes(d, r)
  BY <1>1 DEF Close, Goes, Locals
<1>3. TypeInv' /\ Keeps(d) /\ Only(d) /\ call'[d] = r
  BY <1>1, <1>2, TreeStays
<1>4. /\ call'[d].pc = "done" /\ call'[d].data = call[d].data /\ call'[d].size = call[d].size
      /\ call'[d].seen = call[d].seen /\ call'[d].rc = call[d].rc
  BY <1>1, <1>3 DEF Locals
<1>5. StepsInv(d)'
  BY <1>4 DEF StepsInv, At
<1>6. BytesInv(d)'
  BY <1>1, <1>4, Zenon DEF BytesInv, At, Target
<1>7. CopyInv(d)'
  BY <1>1, <1>4 DEF CopyInv, At, Target
<1>8. DirsInv(d)'
  BY <1>1, <1>4 DEF DirsInv, At, Target
<1>9. ReadInv(d)'
  BY <1>1, <1>4 DEF ReadInv, At, SizeIsSeen, BytesAreSeen
<1> QED
  BY <1>3, <1>5, <1>6, <1>7, <1>8, <1>9 DEF Result, CallInv

(* A failing system call fails the call it is in.                            *)
LEMMA SystemCallFailsStep ==
  ASSUME IInv, NEW d \in Calls, SystemCallFails(d)
  PROVE  Result(d)
<1> DEFINE pc == IF call[d].pc \in {"source", "open", "close"} THEN "done" ELSE "close"
           r == [call[d] EXCEPT !.rc = -1, !.pc = pc]
<1>1. TypeInv /\ call[d] \in Locals /\ gone' = gone /\ UNCHANGED tree
  BY Known DEF SystemCallFails
<1>2. r \in Locals /\ Becomes(d, r) /\ r.pc \in {"close", "done"} /\ r.rc = -1
  BY <1>1 DEF SystemCallFails, Locals
<1> QED
  BY <1>1, <1>2, Failure

(* Every step of a call keeps what is promised of it.                        *)
LEMMA CallStep ==
  ASSUME IInv, NEW d \in Calls, Step(d) \/ SystemCallFails(d)
  PROVE  Result(d)
BY OpenSourceStep, MakeDirStep, InspectDirStep, EndMakeDirsStep, OpenTargetStep, WriteSomeStep,
   ReadChunkStep, EndWriteStep, OpenReadStep, FillStep, EndFillStep, CloseStep,
   SystemCallFailsStep DEF Step

-----------------------------------------------------------------------------
(* What other calls do leaves a call as it is.                               *)
LEMMA OthersStep ==
  ASSUME IInv, NEW c \in Calls, NEW d \in Calls, c # d, call'[c] = call[c], gone' = gone,
         Keeps(d)
  PROVE  CallInv(c)'
<1>1. /\ TypeInv /\ call[c] \in Locals /\ StepsInv(c) /\ BytesInv(c) /\ CopyInv(c)
      /\ DirsInv(c) /\ ReadInv(c) /\ Target(c) \in Paths /\ From(c) \in Paths
  BY Known, PathsOfCall
<1>2. ASSUME Writer(c), tree[Target(c)] \in Contents
      PROVE  tree'[Target(c)] = tree[Target(c)]
  <2>1. ~(Writer(d) /\ Target(c) = Target(d))
    BY <1>2, HostFilesAssumption DEF Writer, Target
  <2> QED
    BY <1>1, <1>2, <2>1 DEF Keeps
<1>3. ASSUME Ask[c].kind \in {"file", "read"}, tree[From(c)] \in Contents
      PROVE  tree'[From(c)] = tree[From(c)]
  <2>1. ~(Writer(d) /\ From(c) = Target(d))
    BY <1>3, HostFilesAssumption DEF Writer, Target
  <2> QED
    BY <1>1, <1>3, <2>1 DEF Keeps
<1>4. StepsInv(c)'
  BY <1>1 DEF StepsInv, At
<1>5. BytesInv(c)'
  <2> SUFFICES ASSUME Ask[c].kind = "bytes"
               PROVE  BytesInv(c)'
    BY DEF BytesInv
  <2>1. tree[Target(c)] \in Contents => tree'[Target(c)] = tree[Target(c)]
    BY <1>2 DEF Writer
  <2>2. Ask[c].bytes \in Contents
    BY HostFilesAssumption
  <2> QED
    BY <1>1, <2>1, <2>2, Zenon DEF BytesInv, At, Target
<1>6. CopyInv(c)'
  <2> SUFFICES ASSUME Ask[c].kind = "file"
               PROVE  CopyInv(c)'
    BY DEF CopyInv
  <2>1. tree[Target(c)] \in Contents => tree'[Target(c)] = tree[Target(c)]
    BY <1>2 DEF Writer
  <2>2. tree[From(c)] \in Contents => tree'[From(c)] = tree[From(c)]
    BY <1>3
  <2>3. call[c].seen \subseteq Contents
    BY <1>1 DEF Locals
  <2> QED
    BY <1>1, <2>1, <2>2, <2>3 DEF CopyInv, At, Target, From
<1>7. DirsInv(c)'
  <2> SUFFICES ASSUME Ask[c].kind = "mkdirs"
               PROVE  DirsInv(c)'
    BY DEF DirsInv
  <2>1. ASSUME call[c].pc \in {"mkdirs", "inspect"}, call[c].at > 1
        PROVE  SubSeq(Target(c), 1, call[c].at - 1) \in Paths
    <3>1. call[c].at \in 1..(Len(Target(c)) + 1) /\ Len(Target(c)) \in Nat
      BY <1>1, <2>1, PathsOfCall DEF StepsInv
    <3>2. call[c].at - 1 \in 1..Len(Target(c))
      BY <2>1, <3>1
    <3> QED
      BY <3>2, PathsOfCall
  <2>2. \A p \in Paths : tree[p] = Dir => tree'[p] = Dir
    BY DEF Keeps
  <2> QED
    BY <1>1, <2>1, <2>2 DEF DirsInv, At, Target
<1>8. ReadInv(c)'
  <2> SUFFICES ASSUME Ask[c].kind = "read"
               PROVE  ReadInv(c)'
    BY DEF ReadInv
  <2>1. tree[From(c)] \in Contents => tree'[From(c)] = tree[From(c)]
    BY <1>3
  <2>2. (SizeIsSeen(c) => SizeIsSeen(c)') /\ (BytesAreSeen(c) => BytesAreSeen(c)')
    BY DEF SizeIsSeen, BytesAreSeen
  <2> QED
    BY <1>1, <2>1, <2>2 DEF ReadInv, At, From
<1> QED
  BY <1>4, <1>5, <1>6, <1>7, <1>8 DEF CallInv

(* The user changes a file that calls copy or read.                          *)
LEMMA ChangeStep ==
  ASSUME IInv, NEW p \in Sources, NEW content \in Contents, Change(p, content)
  PROVE  IInv'
<1>1. TypeInv /\ IsFile(p) /\ gone' = gone /\ tree' = [tree EXCEPT ![p] = content]
  BY DEF IInv, Change
<1>2. PICK s \in Calls : Ask[s].kind \in {"file", "read"} /\ p = From(s)
  BY DEF Sources
<1>3. p \in Paths /\ \A c \in Calls : Writer(c) => p # Target(c)
  BY <1>2, PathsOfCall, HostFilesAssumption DEF Writer, Target
<1>4. tree[p] \in Contents /\ tree[p] # Dir
  BY <1>1, <1>3 DEF IsFile, TypeInv
<1>5. ASSUME NEW c \in Calls
      PROVE  \/ /\ call[c].seen # {} /\ ~At(c, "done") /\ From(c) = p
                /\ call'[c] = [call[c] EXCEPT !.seen = @ \cup {content}]
             \/ /\ ~(call[c].seen # {} /\ ~At(c, "done") /\ From(c) = p)
                /\ call'[c] = call[c]
  BY DEF Change
<1>6. TypeInv'
  <2>1. tree' \in [Paths -> Contents \cup {None, Dir}]
    BY <1>1 DEF TypeInv
  <2>2. ASSUME NEW c \in Calls
        PROVE  call'[c] \in Locals
    <3>1. call[c] \in Locals /\ call[c].seen \cup {content} \in SUBSET Contents
      BY <1>1 DEF TypeInv, Locals
    <3> QED
      BY <1>5, <3>1 DEF Locals
  <2>3. call' = [c \in Calls |-> call'[c]]
    BY DEF Change
  <2>4. call' \in [Calls -> Locals]
    BY <2>2, <2>3
  <2> QED
    BY <1>1, <2>1, <2>4 DEF TypeInv
<1>7. ASSUME NEW c \in Calls
      PROVE  CallInv(c)'
  <2>1. /\ call[c] \in Locals /\ StepsInv(c) /\ BytesInv(c) /\ CopyInv(c) /\ DirsInv(c)
        /\ ReadInv(c) /\ Target(c) \in Paths /\ From(c) \in Paths
    BY Known, PathsOfCall
  <2>2. /\ call'[c].pc = call[c].pc /\ call'[c].at = call[c].at /\ call'[c].todo = call[c].todo
        /\ call'[c].data = call[c].data /\ call'[c].size = call[c].size /\ call'[c].rc = call[c].rc
        /\ \/ call'[c].seen = call[c].seen
           \/ /\ call'[c].seen = call[c].seen \cup {content}
              /\ call[c].seen # {} /\ From(c) = p
        /\ call[c].seen # {} /\ ~At(c, "done") /\ From(c) = p =>
             call'[c].seen = call[c].seen \cup {content}
    BY <1>5, <2>1 DEF Locals
  <2>3. Writer(c) => tree'[Target(c)] = tree[Target(c)]
    BY <1>1, <1>3, <2>1 DEF TypeInv
  <2>4. call[c].seen # {} /\ ~At(c, "done") /\ tree[From(c)] \in call[c].seen =>
          /\ tree'[From(c)] \in call'[c].seen
          /\ tree[From(c)] \in Contents => tree'[From(c)] \in Contents
    <3>1. From(c) = p => tree'[From(c)] = content
      BY <1>1, <1>3 DEF TypeInv
    <3>2. From(c) # p => tree'[From(c)] = tree[From(c)]
      BY <1>1, <2>1 DEF TypeInv
    <3> QED
      BY <2>2, <3>1, <3>2
  <2>5. /\ call[c].seen \subseteq call'[c].seen
        /\ \A x : call'[c].seen = {x} => call[c].seen = {x}
    BY <2>2
  <2>6. StepsInv(c)'
    BY <2>1, <2>2 DEF StepsInv, At
  <2>7. BytesInv(c)'
    BY <2>1, <2>2, <2>3 DEF BytesInv, At, Target, Writer
  <2>8. CopyInv(c)'
    <3> SUFFICES ASSUME Ask[c].kind = "file"
                 PROVE  CopyInv(c)'
      BY DEF CopyInv
    <3>1. call'[c].pc \in {"mkdirs", "inspect", "write"} =>
            tree'[From(c)] \in Contents /\ tree'[From(c)] \in call'[c].seen
      BY <2>1, <2>2, <2>4 DEF CopyInv, At
    <3>2. call'[c].pc = "close" /\ call'[c].rc = 0 => call'[c].seen # {}
      BY <2>1, <2>2 DEF CopyInv, At
    <3>3. call'[c].pc = "write" =>
            /\ tree'[Target(c)] \in Contents /\ tree'[Target(c)] \o call'[c].todo = call'[c].data
            /\ \A x \in call'[c].seen : call'[c].seen = {x} =>
                 /\ Len(call'[c].data) <= Len(x)
                 /\ call'[c].data = SubSeq(x, 1, Len(call'[c].data))
      <4> SUFFICES ASSUME call[c].pc = "write"
                   PROVE  /\ tree[Target(c)] \in Contents
                          /\ tree[Target(c)] \o call[c].todo = call[c].data
                          /\ \A x \in call'[c].seen : call'[c].seen = {x} =>
                               /\ Len(call[c].data) <= Len(x)
                               /\ call[c].data = SubSeq(x, 1, Len(call[c].data))
        BY <2>2, <2>3 DEF Writer
      <4>1. /\ tree[Target(c)] \in Contents /\ tree[Target(c)] \o call[c].todo = call[c].data
            /\ \A x \in call[c].seen : call[c].seen = {x} =>
                 /\ Len(call[c].data) <= Len(x)
                 /\ call[c].data = SubSeq(x, 1, Len(call[c].data))
        BY <2>1, Zenon DEF CopyInv, At
      <4> QED
        BY <2>5, <4>1, Zenon
    <3>4. call'[c].pc \in {"close", "done"} /\ call'[c].rc = 0 =>
            \A x \in call'[c].seen : call'[c].seen = {x} => tree'[Target(c)] = x
      BY <2>1, <2>2, <2>3, <2>5 DEF CopyInv, Writer
    <3> QED
      BY <3>1, <3>2, <3>3, <3>4, Zenon DEF CopyInv, At, Target, From
  <2>9. DirsInv(c)'
    <3>1. \A q \in Paths : tree[q] = Dir => tree'[q] = Dir
      BY <1>1, <1>4 DEF TypeInv
    <3>2. \A q : tree[q] = Dir => tree'[q] = Dir
      BY <1>1, <1>4 DEF TypeInv
    <3> QED
      BY <1>1, <2>1, <2>2, <3>2 DEF DirsInv, At, Target
  <2>10. ReadInv(c)'
    <3>1. SizeIsSeen(c) => SizeIsSeen(c)'
      BY <2>2, <2>5 DEF SizeIsSeen
    <3>2. BytesAreSeen(c) => BytesAreSeen(c)'
      BY <2>2, <2>5 DEF BytesAreSeen
    <3> QED
      BY <2>1, <2>2, <2>4, <3>1, <3>2 DEF ReadInv, At, From
  <2> QED
    BY <2>6, <2>7, <2>8, <2>9, <2>10 DEF CallInv
<1> QED
  BY <1>6, <1>7 DEF IInv

(* The user removes a directory, which "gone" remembers.                     *)
LEMMA RemoveDirStep ==
  ASSUME IInv, NEW p \in Paths, RemoveDir(p)
  PROVE  IInv'
<1>1. /\ TypeInv /\ tree[p] = Dir /\ gone' = gone \cup {p} /\ call' = call
      /\ tree' = [tree EXCEPT ![p] = None]
  BY DEF IInv, RemoveDir
<1>2. TypeInv'
  BY <1>1 DEF TypeInv
<1>3. Dir \notin Contents
  BY HostFilesAssumption
<1>4. \A q : tree[q] \in Contents => tree'[q] = tree[q]
  BY <1>1, <1>3 DEF TypeInv
<1>5. ASSUME NEW c \in Calls
      PROVE  CallInv(c)'
  <2>1. /\ call[c] \in Locals /\ StepsInv(c) /\ BytesInv(c) /\ CopyInv(c) /\ DirsInv(c)
        /\ ReadInv(c)
    BY Known
  <2>2. StepsInv(c)'
    BY <1>1, <2>1 DEF StepsInv, At
  <2>3. BytesInv(c)'
    <3>1. Ask[c].bytes \in Contents
      BY HostFilesAssumption
    <3> QED
      BY <1>1, <1>4, <2>1, <3>1, Zenon DEF BytesInv, At, Target
  <2>4. CopyInv(c)'
    <3>1. call[c].seen \subseteq Contents
      BY <2>1 DEF Locals
    <3> QED
      BY <1>1, <1>4, <2>1, <3>1 DEF CopyInv, At, Target, From
  <2>5. DirsInv(c)'
    BY <1>1, <2>1 DEF DirsInv, At, Target
  <2>6. ReadInv(c)'
    BY <1>1, <1>4, <2>1 DEF ReadInv, At, From, SizeIsSeen, BytesAreSeen
  <2> QED
    BY <2>2, <2>3, <2>4, <2>5, <2>6 DEF CallInv
<1> QED
  BY <1>2, <1>5 DEF IInv

(* What a cut leaves of a content is one.                                    *)
LEMMA CutIsContent ==
  ASSUME NEW s \in Contents, NEW n \in 0..(Len(s) - 1)
  PROVE  SubSeq(s, 1, n) \in Contents
<1>1. Len(s) \in Nat /\ \A i \in 1..Len(s) : s[i] \in Chars \cup {Nul}
  BY LenProperties, ElementOfSeq DEF Contents
<1>2. 1 \in Int /\ n \in Int /\ \A i \in 1..n : s[i] \in Chars \cup {Nul}
  BY <1>1
<1> QED
  BY <1>2, SubSeqProperties DEF Contents

(* So does every step of the user.                                           *)
LEMMA UserStep ==
  ASSUME IInv, User
  PROVE  IInv'
<1>1. ASSUME NEW p \in Sources, AppendTo(p) \/ CutShort(p)
      PROVE  IInv'
  <2>1. tree[p] \in Contents
    <3>1. p \in Paths
      BY PathsOfCall DEF Sources
    <3> QED
      BY <1>1, <3>1 DEF AppendTo, CutShort, IsFile, IInv, TypeInv
  <2>2. CASE AppendTo(p)
    <3>1. PICK char \in Chars : Change(p, Append(tree[p], char))
      BY <2>2 DEF AppendTo
    <3>2. Append(tree[p], char) \in Contents
      BY <2>1, AppendProperties DEF Contents
    <3> QED
      BY <3>1, <3>2, ChangeStep
  <2>3. CASE CutShort(p)
    <3>1. PICK n \in 0..(Len(tree[p]) - 1) : Change(p, SubSeq(tree[p], 1, n))
      BY <2>3 DEF CutShort
    <3>2. SubSeq(tree[p], 1, n) \in Contents
      BY <2>1, CutIsContent
    <3> QED
      BY <3>1, <3>2, ChangeStep
  <2> QED
    BY <1>1, <2>2, <2>3
<1>2. ASSUME NEW p \in Paths, RemoveDir(p)
      PROVE  IInv'
  BY <1>2, RemoveDirStep
<1> QED
  BY <1>1, <1>2 DEF User

(* The invariant holds before any call.                                      *)
LEMMA InitIInv == Init => IInv
<1> SUFFICES ASSUME Init
             PROVE  IInv
  OBVIOUS
<1>1. PICK start \in Starts :
        tree = start.tree /\ call = [c \in Calls |-> Entered(c, start.calls)]
  BY DEF Init
<1>2. ASSUME NEW c \in Calls
      PROVE  /\ call[c] \in Locals /\ call[c].data = <<>> /\ call[c].at = 1
             /\ call[c].pc \in {"idle", "source", "open", "mkdirs"}
             /\ At(c, "source") => Ask[c].kind = "file"
             /\ At(c, "open") => Ask[c].kind = "read"
             /\ At(c, "mkdirs") => Ask[c].kind \in {"mkdirs", "bytes"}
  <2>1. Ask[c].kind \in Kinds /\ <<>> \in Contents /\ call[c] = Entered(c, start.calls)
    BY <1>1, PathsOfCall, EmptySeq DEF Contents
  <2> QED
    BY <2>1 DEF Entered, Locals, At, Kinds
<1>3. TypeInv
  <2>1. tree \in [Paths -> Contents \cup {None, Dir}]
    BY <1>1, HostFilesAssumption
  <2>2. call \in [Calls -> Locals] /\ gone \subseteq Paths
    BY <1>1, <1>2 DEF Init
  <2> QED
    BY <2>1, <2>2 DEF TypeInv
<1>4. ASSUME NEW c \in Calls
      PROVE  CallInv(c)
  <2>1. StepsInv(c)
    BY <1>2, PathsOfCall DEF StepsInv, At
  <2>2. call[c].pc \notin {"inspect", "write", "fill", "close", "done"}
    BY <1>2
  <2>3. CopyInv(c)
    <3>1. Ask[c].kind = "file" => call[c].pc # "mkdirs"
      BY <1>2 DEF At
    <3> QED
      BY <2>2, <3>1 DEF CopyInv, At
  <2>4. BytesInv(c)
    BY <2>2 DEF BytesInv, At
  <2>5. DirsInv(c)
    BY <1>2, <2>2 DEF DirsInv, At
  <2>6. ReadInv(c)
    BY <2>2 DEF ReadInv, At
  <2> QED
    BY <2>1, <2>3, <2>4, <2>5, <2>6 DEF CallInv
<1> QED
  BY <1>3, <1>4 DEF IInv

(* Every step keeps the invariant.                                           *)
LEMMA StepIInv == IInv /\ [Next]_vars => IInv'
<1> SUFFICES ASSUME IInv, [Next]_vars
             PROVE  IInv'
  OBVIOUS
<1>1. ASSUME NEW d \in Calls, Step(d) \/ SystemCallFails(d)
      PROVE  IInv'
  <2>1. TypeInv' /\ Keeps(d) /\ Only(d) /\ CallInv(d)'
    BY <1>1, CallStep DEF Result
  <2>2. ASSUME NEW c \in Calls
        PROVE  CallInv(c)'
    <3>1. CASE c = d
      BY <2>1, <3>1
    <3>2. CASE c # d
      BY <2>1, <3>2, OthersStep DEF Only
    <3> QED
      BY <3>1, <3>2
  <2> QED
    BY <2>1, <2>2 DEF IInv
<1>2. CASE User
  BY <1>2, UserStep
<1>3. CASE UNCHANGED vars
  <2>1. tree' = tree /\ call' = call /\ gone' = gone
    BY <1>3 DEF vars
  <2>2. TypeInv'
    BY <2>1 DEF IInv, TypeInv
  <2>3. ASSUME NEW c \in Calls
        PROVE  CallInv(c)'
    <3>1. StepsInv(c)'
      BY <2>1, Known DEF StepsInv, At
    <3>2. BytesInv(c)'
      BY <2>1, Known, Zenon DEF BytesInv, At, Target
    <3>3. CopyInv(c)'
      BY <2>1, Known, Zenon DEF CopyInv, At, Target, From
    <3>4. DirsInv(c)'
      BY <2>1, Known DEF DirsInv, At, Target
    <3>5. ReadInv(c)'
      <4>1. ReadInv(c)
        BY Known
      <4> QED
        BY <2>1, <4>1 DEF ReadInv, At, From, SizeIsSeen, BytesAreSeen
    <3> QED
      BY <3>1, <3>2, <3>3, <3>4, <3>5 DEF CallInv
  <2> QED
    BY <2>2, <2>3 DEF IInv
<1> QED
  BY <1>1, <1>2, <1>3 DEF Next

(* Versions that extend each other, one of which has the size of what was    *)
(* read, leave only that one.                                                *)
LEMMA ChainIsOneVersion ==
  ASSUME NEW seen \in SUBSET Contents, NEW data \in Contents,
         \A x, y \in seen : IsPrefix(x, y) \/ IsPrefix(y, x),
         NEW whole \in seen, Len(whole) = Len(data),
         \A i \in 1..Len(data) : \E x \in seen : i \in 1..Len(x) /\ data[i] = x[i]
  PROVE  data \in seen
<1>1. ASSUME NEW x \in seen, NEW y \in seen, IsPrefix(x, y), NEW i \in 1..Len(x)
      PROVE  x[i] = y[i] /\ i \in 1..Len(y)
  <2>1. /\ Len(x) \in Nat /\ Len(y) \in Nat /\ Len(x) <= Len(y)
        /\ SubSeq(x, 1, Len(x)) = SubSeq(y, 1, Len(x))
    BY <1>1, Lengths DEF IsPrefix
  <2>2. \A z \in seen : Len(x) <= Len(z) => SubSeq(z, 1, Len(x))[i] = z[i]
    <3> SUFFICES ASSUME NEW z \in seen, Len(x) <= Len(z)
                 PROVE  SubSeq(z, 1, Len(x))[i] = z[i]
      OBVIOUS
    <3>1. Len(z) \in Nat /\ \A j \in 1..Len(z) : z[j] \in Chars \cup {Nul}
      BY LenProperties, ElementOfSeq DEF Contents
    <3>2. 1 \in Int /\ Len(x) \in Int /\ \A j \in 1..Len(x) : z[j] \in Chars \cup {Nul}
      BY <2>1, <3>1
    <3>3. \A j \in 1..(Len(x) - 1 + 1) : SubSeq(z, 1, Len(x))[j] = z[1 + j - 1]
      BY <3>2, SubSeqProperties
    <3>4. i \in 1..(Len(x) - 1 + 1) /\ 1 + i - 1 = i
      BY <2>1
    <3> QED
      BY <3>3, <3>4
  <2> QED
    BY <2>1, <2>2
<1>2. \A i \in 1..Len(data) : data[i] = whole[i]
  <2> SUFFICES ASSUME NEW i \in 1..Len(data)
               PROVE  data[i] = whole[i]
    OBVIOUS
  <2>1. PICK x \in seen : i \in 1..Len(x) /\ data[i] = x[i]
    OBVIOUS
  <2>2. i \in 1..Len(whole) /\ (IsPrefix(x, whole) \/ IsPrefix(whole, x))
    OBVIOUS
  <2> QED
    BY <1>1, <2>1, <2>2
<1>3. data = whole
  BY <1>2, SeqEqual DEF Contents
<1> QED
  BY <1>3

(* Whatever the calls do at once, however short each read and write is and   *)
(* whichever system call fails: what reports success is whole.               *)
THEOREM SuccessStaysWhole == Spec => []SuccessIsWhole
<1>1. IInv => SuccessIsWhole
  <2> SUFFICES ASSUME IInv, NEW c \in Calls, Succeeded(c)
               PROVE  /\ Ask[c].kind = "bytes" => tree[Ask[c].path] = Ask[c].bytes
                      /\ Ask[c].kind = "file" => \A content \in call[c].seen :
                           call[c].seen = {content} => tree[Ask[c].path] = content
                      /\ Ask[c].kind = "mkdirs" /\ gone = {} => tree[Ask[c].path] = Dir
                      /\ Ask[c].kind = "read" =>
                           /\ Len(call[c].data) <= Ask[c].limit /\ Nul \notin Range(call[c].data)
                           /\ (\A x, y \in call[c].seen : IsPrefix(x, y) \/ IsPrefix(y, x)) =>
                                call[c].data \in call[c].seen
    BY DEF SuccessIsWhole, WritesAreWhole, ReadsAreWhole
  <2>1. /\ call[c] \in Locals /\ BytesInv(c) /\ CopyInv(c) /\ DirsInv(c) /\ ReadInv(c)
        /\ call[c].pc = "done" /\ call[c].rc = 0
    BY Known DEF Succeeded, At
  <2>2. Ask[c].kind = "bytes" => tree[Ask[c].path] = Ask[c].bytes
    BY <2>1, Zenon DEF BytesInv, Target
  <2>3. Ask[c].kind = "file" => \A content \in call[c].seen :
          call[c].seen = {content} => tree[Ask[c].path] = content
    BY <2>1, Zenon DEF CopyInv, Target
  <2>4. Ask[c].kind = "mkdirs" /\ gone = {} => tree[Ask[c].path] = Dir
    BY <2>1 DEF DirsInv, At, Target
  <2>5. ASSUME Ask[c].kind = "read"
        PROVE  /\ Len(call[c].data) <= Ask[c].limit /\ Nul \notin Range(call[c].data)
               /\ (\A x, y \in call[c].seen : IsPrefix(x, y) \/ IsPrefix(y, x)) =>
                    call[c].data \in call[c].seen
    <3>1. /\ Len(call[c].data) = call[c].size /\ call[c].size <= Ask[c].limit
          /\ Nul \notin Range(call[c].data) /\ SizeIsSeen(c) /\ BytesAreSeen(c)
      BY <2>1, <2>5 DEF ReadInv
    <3>2. ASSUME \A x, y \in call[c].seen : IsPrefix(x, y) \/ IsPrefix(y, x)
          PROVE  call[c].data \in call[c].seen
      <4>1. PICK whole \in call[c].seen : Len(whole) = Len(call[c].data)
        BY <3>1 DEF SizeIsSeen
      <4>2. call[c].seen \in SUBSET Contents /\ call[c].data \in Contents
        BY <2>1 DEF Locals
      <4>3. \A i \in 1..Len(call[c].data) :
              \E x \in call[c].seen : i \in 1..Len(x) /\ call[c].data[i] = x[i]
        BY <3>1 DEF BytesAreSeen
      <4> QED
        BY <3>2, <4>1, <4>2, <4>3, ChainIsOneVersion
    <3> QED
      BY <3>1, <3>2
  <2> QED
    BY <2>2, <2>3, <2>4, <2>5
<1> QED
  BY <1>1, InitIInv, StepIInv, PTL DEF Spec

-----------------------------------------------------------------------------
(* Why a call may fail.  Of a file that changed while it was read there are   *)
(* two versions.                                                             *)
Part(c, n) == SubSeq(DirOf(c), 1, n)
IsBlocked(c) == \E n \in 1..Len(DirOf(c)) : IsFile(Part(c, n)) \/ Part(c, n) \in gone
IsTaken(c) == Ask[c].kind # "mkdirs" /\ (tree[Target(c)] = Dir \/ Target(c) \in gone)

HasNoSource(c) ==
  Ask[c].kind = "file" /\ call[c].seen = {} /\ ~IsFile(From(c)) /\ call[c].made = {}
HasNoPlace(c) ==
  Ask[c].kind # "read" /\ (Ask[c].kind = "file" => call[c].seen # {})
  /\ (IsBlocked(c) \/ IsTaken(c))
CannotRead(c) ==
  /\ Ask[c].kind = "read"
  /\ \/ ~IsFile(From(c))
     \/ \E x, y \in call[c].seen : x # y
     \/ \E x \in call[c].seen : Len(x) > Ask[c].limit \/ Nul \in Range(x)

HasReason(c) == faults > 0 \/ HasNoSource(c) \/ HasNoPlace(c) \/ CannotRead(c)

(* A source is opened before anything is made; the ancestors a call has      *)
(* passed are directories, unless the user removed them; a call that failed  *)
(* is over but for the close, and had a reason.                              *)
ReasonInv(c) ==
  /\ IsFiniteSet(call[c].seen)
  /\ At(c, "source") => call[c].seen = {} /\ call[c].made = {}
  /\ call[c].pc \in {"mkdirs", "inspect"} =>
       \A n \in 1..(call[c].at - 1) : tree[Part(c, n)] = Dir \/ Part(c, n) \in gone
  /\ At(c, "inspect") => tree[Ancestor(c)] # None \/ Ancestor(c) \in gone
  /\ call[c].rc = -1 => call[c].pc \in {"close", "done"} /\ HasReason(c)

RInv == IInv /\ faults \in Nat /\ \A c \in Calls : ReasonInv(c)

(* What no step undoes: a file stays one, and a directory unless the user    *)
(* removes it; no call makes the source of another.                          *)
Lasts ==
  /\ faults' \in Nat /\ faults <= faults' /\ gone \subseteq gone'
  /\ \A p \in Paths : /\ IsFile(p) => IsFile(p)'
                      /\ tree[p] = Dir => tree'[p] = Dir \/ p \in gone'
                      /\ tree[p] # None => tree'[p] # None \/ p \in gone'
  /\ \A c \in Calls : Ask[c].kind \in {"file", "read"} /\ ~IsFile(From(c)) => ~IsFile(From(c))'

(* The ancestors of a target are paths.                                      *)
LEMMA PartsArePaths ==
  ASSUME NEW c \in Calls, Ask[c].kind # "read"
  PROVE  /\ Len(DirOf(c)) \in Nat
         /\ \A n \in 1..Len(DirOf(c)) : /\ Part(c, n) \in Paths /\ Len(Part(c, n)) = n
                                        /\ n > 1 => Front(Part(c, n)) = Part(c, n - 1)
         /\ Ask[c].kind # "mkdirs" =>
              /\ Len(DirOf(c)) = Len(Target(c)) - 1
              /\ Len(Target(c)) > 1 => Part(c, Len(DirOf(c))) = Front(Target(c))
<1>1. /\ Target(c) \in Seq(Names) /\ Len(Target(c)) \in Nat \ {0} /\ DirOf(c) \in Seq(Names)
      /\ Len(DirOf(c)) \in Nat
      /\ \A n \in 1..Len(Target(c)) : SubSeq(Target(c), 1, n) \in Paths
  <2>1. Target(c) \in Seq(Names) /\ Target(c) # <<>>
    BY PathsOfCall, HostFilesAssumption
  <2> QED
    BY <2>1, PathsOfCall, EmptySeq, LenProperties
<1>2. \A i \in 1..Len(Target(c)) : Target(c)[i] \in Names
  BY <1>1, ElementOfSeq
<1>3. \A i \in 1..Len(DirOf(c)) : DirOf(c)[i] \in Names
  BY <1>1, ElementOfSeq
<1>4. ASSUME Ask[c].kind # "mkdirs"
      PROVE  /\ DirOf(c) = SubSeq(Target(c), 1, Len(Target(c)) - 1)
             /\ Len(DirOf(c)) = Len(Target(c)) - 1
  <2>1. DirOf(c) = SubSeq(Target(c), 1, Len(Target(c)) - 1)
    BY <1>4 DEF DirOf, Target, Front
  <2>2. /\ 1 \in Int /\ Len(Target(c)) - 1 \in Int
        /\ \A i \in 1..(Len(Target(c)) - 1) : Target(c)[i] \in Names
    BY <1>1, <1>2
  <2>3. Len(SubSeq(Target(c), 1, Len(Target(c)) - 1))
          = IF 1 <= Len(Target(c)) - 1 THEN Len(Target(c)) - 1 - 1 + 1 ELSE 0
    BY <2>2, SubSeqProperties
  <2>4. (IF 1 <= Len(Target(c)) - 1 THEN Len(Target(c)) - 1 - 1 + 1 ELSE 0) = Len(Target(c)) - 1
    <3>1. \A n \in Nat \ {0} : (IF 1 <= n - 1 THEN n - 1 - 1 + 1 ELSE 0) = n - 1
      OBVIOUS
    <3>2. Len(Target(c)) \in Nat \ {0}
      BY <1>1
    <3> QED
      BY <3>1, <3>2, Zenon
  <2>5. Len(DirOf(c)) = Len(SubSeq(Target(c), 1, Len(Target(c)) - 1))
    BY <2>1
  <2> QED
    BY <2>1, <2>3, <2>4, <2>5, Zenon
<1>5. ASSUME NEW n \in 1..Len(DirOf(c))
      PROVE  /\ Part(c, n) \in Paths /\ Len(Part(c, n)) = n
             /\ n > 1 => Front(Part(c, n)) = Part(c, n - 1)
  <2>1. Part(c, n) = SubSeq(Target(c), 1, n) /\ n \in 1..Len(Target(c))
    <3>1. CASE Ask[c].kind = "mkdirs"
      BY <3>1, PathsOfCall DEF Part
    <3>2. CASE Ask[c].kind # "mkdirs"
      <4>1. /\ 1 \in 1..Len(Target(c)) /\ Len(Target(c)) - 1 \in 1..Len(Target(c))
            /\ 1 \in 1..(Len(Target(c)) - 1 - 1 + 1) /\ n \in 1..(Len(Target(c)) - 1 - 1 + 1)
            /\ 1 + 1 - 1 = 1 /\ 1 + n - 1 = n /\ n \in 1..Len(Target(c))
        BY <1>1, <1>4, <3>2
      <4>2. SubSeq(SubSeq(Target(c), 1, Len(Target(c)) - 1), 1, n) = SubSeq(Target(c), 1, n)
        BY <1>1, <4>1, SubSeqOfSubSeq
      <4> QED
        BY <1>4, <3>2, <4>1, <4>2 DEF Part
    <3> QED
      BY <3>1, <3>2
  <2>2. Part(c, n) \in Paths
    BY <1>1, <2>1
  <2>3. Len(Part(c, n)) = n
    <3>1. 1 \in Int /\ n \in Int /\ \A i \in 1..n : DirOf(c)[i] \in Names
      BY <1>1, <1>3
    <3>2. Len(SubSeq(DirOf(c), 1, n)) = IF 1 <= n THEN n - 1 + 1 ELSE 0
      BY <3>1, SubSeqProperties
    <3> QED
      BY <3>2 DEF Part
  <2>4. ASSUME n > 1
        PROVE  Front(Part(c, n)) = Part(c, n - 1)
    <3>1. Front(Part(c, n)) = SubSeq(SubSeq(DirOf(c), 1, n), 1, n - 1)
      BY <2>3 DEF Front, Part
    <3>2. /\ 1 \in 1..Len(DirOf(c)) /\ 1 \in 1..(n - 1 + 1) /\ n - 1 \in 1..(n - 1 + 1)
          /\ 1 + 1 - 1 = 1 /\ 1 + (n - 1) - 1 = n - 1
      BY <1>1, <2>4
    <3>3. SubSeq(SubSeq(DirOf(c), 1, n), 1, n - 1) = SubSeq(DirOf(c), 1 + 1 - 1, 1 + (n - 1) - 1)
      BY <1>1, <3>2, SubSeqOfSubSeq
    <3> QED
      BY <3>1, <3>2, <3>3 DEF Part
  <2> QED
    BY <2>2, <2>3, <2>4
<1>6. ASSUME Ask[c].kind # "mkdirs", Len(Target(c)) > 1
      PROVE  Part(c, Len(DirOf(c))) = Front(Target(c))
  <2>1. SubSeq(DirOf(c), 1, Len(DirOf(c))) = DirOf(c)
    BY <1>1, SubSeqFull
  <2> QED
    BY <1>6, <2>1 DEF Part, DirOf, Target
<1> QED
  BY <1>1, <1>4, <1>5, <1>6

(* A reason lasts while the call is over.                                    *)
LEMMA ReasonLasts ==
  ASSUME Lasts, faults \in Nat, NEW c \in Calls, HasReason(c), call'[c].made = call[c].made,
         call[c].seen \subseteq call'[c].seen, call[c].seen = {} => call'[c].seen = {}
  PROVE  HasReason(c)'
<1>0. Target(c) \in Paths /\ From(c) \in Paths
  BY PathsOfCall
<1>1. CASE faults > 0
  BY <1>1 DEF Lasts, HasReason
<1>2. CASE HasNoSource(c)
  BY <1>2 DEF HasNoSource, Lasts, HasReason, From
<1>3. CASE HasNoPlace(c)
  <2>1. Ask[c].kind = "file" => call'[c].seen # {}
    BY <1>3 DEF HasNoPlace
  <2>2. IsBlocked(c) => IsBlocked(c)'
    <3>1. Ask[c].kind # "read"
      BY <1>3 DEF HasNoPlace
    <3>2. \A n \in 1..Len(DirOf(c)) : Part(c, n) \in Paths
      BY <3>1, PartsArePaths
    <3>3. ASSUME NEW n \in 1..Len(DirOf(c)), IsFile(Part(c, n)) \/ Part(c, n) \in gone
          PROVE  IsFile(Part(c, n))' \/ Part(c, n) \in gone'
      BY <3>2, <3>3 DEF Lasts, IsFile
    <3> QED
      BY <3>3 DEF IsBlocked, Part, DirOf, IsFile
  <2>3. IsTaken(c) => IsTaken(c)'
    BY <1>0 DEF IsTaken, Lasts, Target
  <2> QED
    BY <1>3, <2>1, <2>2, <2>3 DEF HasNoPlace, HasReason
<1>4. CASE CannotRead(c)
  <2>1. ~IsFile(From(c)) => ~IsFile(From(c))'
    BY <1>4 DEF CannotRead, Lasts
  <2>2. (\E x, y \in call[c].seen : x # y) => (\E x, y \in call'[c].seen : x # y)
    OBVIOUS
  <2>3. (\E x \in call[c].seen : Len(x) > Ask[c].limit \/ Nul \in Range(x)) =>
          (\E x \in call'[c].seen : Len(x) > Ask[c].limit \/ Nul \in Range(x))
    OBVIOUS
  <2> QED
    BY <1>4, <2>1, <2>2, <2>3 DEF CannotRead, HasReason, From
<1> QED
  BY <1>1, <1>2, <1>3, <1>4 DEF HasReason

(* The bytes of a content are those at its places.                           *)
LEMMA RangeOfContent ==
  ASSUME NEW s \in Contents, NEW byte
  PROVE  byte \in Range(s) <=> \E i \in 1..Len(s) : s[i] = byte
<1>1. DOMAIN s = 1..Len(s)
  BY LenProperties DEF Contents
<1> QED
  BY <1>1 DEF Range

(* Every step of a call, of the user or of none is one nothing undoes.       *)
LEMMA StillLasts ==
  ASSUME faults \in Nat, faults' \in Nat, faults <= faults', gone' = gone, tree' = tree
  PROVE  Lasts
BY DEF Lasts, IsFile, From

LEMMA DirLasts ==
  ASSUME TypeInv, faults \in Nat, faults' = faults, gone' = gone,
         NEW p, tree[p] = None, tree' = [tree EXCEPT ![p] = Dir]
  PROVE  Lasts
<1>1. \A q \in Paths : tree'[q] = IF q = p THEN Dir ELSE tree[q]
  BY DEF TypeInv
<1>2. \A c \in Calls : From(c) \in Paths
  BY PathsOfCall
<1>3. None # Dir
  BY HostFilesAssumption
<1> QED
  BY <1>1, <1>2, <1>3 DEF Lasts, IsFile, From

LEMMA FileLasts ==
  ASSUME TypeInv, faults \in Nat, faults' = faults, gone' = gone,
         NEW p \in Paths, tree[p] # Dir, NEW content \in Contents,
         tree' = [tree EXCEPT ![p] = content],
         IsFile(p) \/ \A c \in Calls : Ask[c].kind \in {"file", "read"} => From(c) # p
  PROVE  Lasts
<1>1. \A q \in Paths : tree'[q] = IF q = p THEN content ELSE tree[q]
  BY DEF TypeInv
<1>2. \A c \in Calls : From(c) \in Paths
  BY PathsOfCall
<1>3. content \notin {None, Dir}
  BY HostFilesAssumption
<1>4. \A q \in Paths : /\ IsFile(q) => IsFile(q)'
                       /\ tree[q] = Dir => tree'[q] = Dir
                       /\ tree[q] # None => tree'[q] # None
  BY <1>1, <1>3 DEF IsFile
<1>5. ASSUME NEW c \in Calls, Ask[c].kind \in {"file", "read"}, ~IsFile(From(c))
      PROVE  ~IsFile(From(c))'
  <2>1. From(c) # p
    BY <1>5
  <2> QED
    BY <1>1, <1>2, <1>5, <2>1 DEF IsFile, From
<1> QED
  BY <1>4, <1>5 DEF Lasts

LEMMA RemoveDirLasts ==
  ASSUME TypeInv, faults \in Nat, NEW p \in Paths, RemoveDir(p)
  PROVE  Lasts
<1>1. /\ tree[p] = Dir /\ faults' = faults /\ gone' = gone \cup {p} /\ None # Dir
      /\ \A q \in Paths : tree'[q] = IF q = p THEN None ELSE tree[q]
  BY HostFilesAssumption DEF RemoveDir, TypeInv
<1>2. \A c \in Calls : From(c) \in Paths
  BY PathsOfCall
<1> QED
  BY <1>1, <1>2 DEF Lasts, IsFile, From

(* No call writes what another copies or reads.                              *)
LEMMA TargetLasts ==
  ASSUME TypeInv, faults \in Nat, faults' = faults, gone' = gone, NEW d \in Calls, Writer(d),
         tree[Target(d)] # Dir, NEW content \in Contents,
         tree' = [tree EXCEPT ![Target(d)] = content]
  PROVE  Lasts
<1>1. \A c \in Calls : Ask[c].kind \in {"file", "read"} => From(c) # Target(d)
  BY HostFilesAssumption DEF Writer, Target
<1>2. Target(d) \in Paths
  BY PathsOfCall
<1> QED
  BY <1>1, <1>2, FileLasts

-----------------------------------------------------------------------------
(* A call whose step, place and result stand still keeps what is promised.   *)
LEMMA ReasonStays ==
  ASSUME RInv, Lasts, NEW c \in Calls, call'[c].pc = call[c].pc, call'[c].at = call[c].at,
         call'[c].rc = call[c].rc, call'[c].made = call[c].made, IsFiniteSet(call'[c].seen),
         call[c].seen \subseteq call'[c].seen, call[c].seen = {} => call'[c].seen = {}
  PROVE  ReasonInv(c)'
<1>1. /\ ReasonInv(c) /\ StepsInv(c) /\ faults \in Nat /\ call[c] \in Locals
  BY Known DEF RInv
<1>2. ASSUME call[c].pc \in {"mkdirs", "inspect"}
      PROVE  /\ Len(DirOf(c)) \in Nat /\ call[c].at \in 1..(Len(DirOf(c)) + 1)
             /\ \A n \in 1..Len(DirOf(c)) : Part(c, n) \in Paths
  BY <1>1, <1>2, PartsArePaths DEF StepsInv
<1>3. ASSUME call[c].pc \in {"mkdirs", "inspect"}, NEW n \in 1..(call[c].at - 1)
      PROVE  tree'[Part(c, n)] = Dir \/ Part(c, n) \in gone'
  <2>1. n \in 1..Len(DirOf(c))
    BY <1>2, <1>3
  <2>2. Part(c, n) \in Paths /\ (tree[Part(c, n)] = Dir \/ Part(c, n) \in gone)
    BY <1>1, <1>2, <1>3, <2>1 DEF ReasonInv
  <2> QED
    BY <2>2 DEF Lasts
<1>4. ASSUME call[c].pc = "inspect"
      PROVE  tree'[Part(c, call[c].at)] # None \/ Part(c, call[c].at) \in gone'
  <2>1. call[c].at \in 1..Len(DirOf(c))
    BY <1>1, <1>2, <1>4 DEF StepsInv, At
  <2>2. /\ Part(c, call[c].at) \in Paths
        /\ tree[Part(c, call[c].at)] # None \/ Part(c, call[c].at) \in gone
    BY <1>1, <1>2, <1>4, <2>1 DEF ReasonInv, At, Ancestor, Part
  <2> QED
    BY <2>2 DEF Lasts
<1>5. ASSUME call[c].rc = -1
      PROVE  HasReason(c)'
  BY <1>1, <1>5, ReasonLasts DEF ReasonInv
<1>6. At(c, "source")' => call'[c].seen = {} /\ call'[c].made = {}
  BY <1>1 DEF ReasonInv, At
<1>7. call'[c].pc \in {"mkdirs", "inspect"} =>
        \A n \in 1..(call'[c].at - 1) : tree'[Part(c, n)] = Dir \/ Part(c, n) \in gone'
  BY <1>3
<1>8. call'[c].pc = "inspect" =>
        tree'[Part(c, call'[c].at)] # None \/ Part(c, call'[c].at) \in gone'
  BY <1>4
<1>9. call'[c].rc = -1 => call'[c].pc \in {"close", "done"}
  BY <1>1 DEF ReasonInv
<1> QED
  BY <1>5, <1>6, <1>7, <1>8, <1>9 DEF ReasonInv, At, Ancestor, Part, DirOf

(* A call that is over keeps it by its reason, one that goes on by its rest. *)
LEMMA RefusalHasReason ==
  ASSUME NEW d \in Calls, call'[d].pc \in {"close", "done"}, IsFiniteSet(call'[d].seen),
         call'[d].rc = -1 => HasReason(d)'
  PROVE  ReasonInv(d)'
BY DEF ReasonInv, At

LEMMA WorkHasReason ==
  ASSUME NEW d \in Calls, call'[d].pc \in {"open", "write", "fill", "idle"}, call'[d].rc # -1,
         IsFiniteSet(call'[d].seen)
  PROVE  ReasonInv(d)'
BY DEF ReasonInv, At

LEMMA WalkHasReason ==
  ASSUME NEW d \in Calls, call'[d].pc = "mkdirs", call'[d].rc # -1, IsFiniteSet(call'[d].seen),
         \A n \in 1..(call'[d].at - 1) : tree'[Part(d, n)] = Dir \/ Part(d, n) \in gone'
  PROVE  ReasonInv(d)'
BY DEF ReasonInv, At, Part, DirOf

(* What is known of a call that is under way.                                *)
LEMMA KnownReason ==
  ASSUME RInv, NEW d \in Calls
  PROVE  /\ IInv /\ TypeInv /\ call[d] \in Locals /\ StepsInv(d) /\ CopyInv(d) /\ ReadInv(d)
         /\ ReasonInv(d) /\ IsFiniteSet(call[d].seen) /\ faults \in Nat
         /\ call[d].pc \notin {"close", "done"} => call[d].rc = 0
BY Known DEF RInv, ReasonInv, Locals

-----------------------------------------------------------------------------
(* What each step of a call is shown to do.                                  *)
Accounts(d) == Lasts /\ ReasonInv(d)'

(* A copy without a source has made nothing.                                 *)
LEMMA OpenSourceAccounts ==
  ASSUME RInv, NEW d \in Calls, OpenSource(d)
  PROVE  Accounts(d)
<1>1. /\ TypeInv /\ call[d] \in Locals /\ At(d, "source") /\ tree' = tree /\ gone' = gone
      /\ faults' = faults /\ faults \in Nat /\ call[d].rc = 0 /\ Ask[d].kind = "file"
      /\ call[d].at = 1 /\ call[d].seen = {} /\ call[d].made = {}
  BY KnownReason DEF OpenSource, Calm, At, StepsInv, ReasonInv
<1>2. Lasts
  BY <1>1, StillLasts
<1>3. CASE IsFile(From(d))
  <2>1. call'[d] = [call[d] EXCEPT !.pc = "mkdirs", !.seen = {tree[From(d)]}]
    BY <1>1, <1>3 DEF OpenSource, Becomes, TypeInv
  <2>2. /\ call'[d].pc = "mkdirs" /\ call'[d].rc = 0 /\ call'[d].at = 1
        /\ call'[d].seen = {tree[From(d)]}
    BY <1>1, <2>1 DEF Locals
  <2>3. IsFiniteSet(call'[d].seen)
    BY <2>2, FS_Singleton
  <2>4. \A n \in 1..(call'[d].at - 1) : tree'[Part(d, n)] = Dir \/ Part(d, n) \in gone'
    BY <2>2
  <2>5. call'[d].rc # -1
    BY <2>2
  <2> QED
    BY <1>2, <2>2, <2>3, <2>4, <2>5, WalkHasReason DEF Accounts
<1>4. CASE ~IsFile(From(d))
  <2>1. call'[d] = [call[d] EXCEPT !.pc = "done", !.rc = -1]
    BY <1>1, <1>4 DEF OpenSource, Becomes, TypeInv
  <2>2. call'[d].pc = "done" /\ call'[d].seen = {} /\ call'[d].made = {}
    BY <1>1, <2>1 DEF Locals
  <2>3. HasReason(d)'
    BY <1>1, <1>4, <2>2 DEF HasReason, HasNoSource, IsFile, From
  <2>4. IsFiniteSet(call'[d].seen)
    BY <2>2, FS_EmptySet
  <2> QED
    BY <1>2, <2>2, <2>3, <2>4, RefusalHasReason DEF Accounts
<1> QED
  BY <1>3, <1>4

(* A call that makes directories: its place, and what it has seen.           *)
LEMMA KnownWalk ==
  ASSUME RInv, NEW d \in Calls, call[d].pc \in {"mkdirs", "inspect"}
  PROVE  /\ TypeInv /\ call[d] \in Locals /\ faults \in Nat /\ call[d].rc = 0
         /\ Ask[d].kind # "read" /\ (Ask[d].kind = "file" => call[d].seen # {})
         /\ IsFiniteSet(call[d].seen) /\ Len(DirOf(d)) \in Nat
         /\ call[d].at \in 1..(Len(DirOf(d)) + 1)
         /\ \A n \in 1..(call[d].at - 1) : tree[Part(d, n)] = Dir \/ Part(d, n) \in gone
         /\ Ancestor(d) = Part(d, call[d].at)
<1>1. /\ TypeInv /\ call[d] \in Locals /\ faults \in Nat /\ call[d].rc = 0 /\ ReasonInv(d)
      /\ StepsInv(d) /\ CopyInv(d) /\ IsFiniteSet(call[d].seen)
  BY KnownReason
<1>2. Ask[d].kind # "read" /\ call[d].at \in 1..(Len(DirOf(d)) + 1)
  BY <1>1 DEF StepsInv
<1>3. Ask[d].kind = "file" => call[d].seen # {}
  BY <1>1 DEF CopyInv
<1> QED
  BY <1>1, <1>2, <1>3, PartsArePaths DEF ReasonInv, Ancestor, Part

(* A call with no place for its directories or its file fails.               *)
LEMMA NoPlaceAccounts ==
  ASSUME RInv, NEW d \in Calls, call[d].pc \in {"mkdirs", "inspect"}, Fails(d), tree' = tree,
         Calm, IsBlocked(d) \/ IsTaken(d)
  PROVE  Accounts(d)
<1>1. /\ TypeInv /\ call[d] \in Locals /\ faults \in Nat /\ Ask[d].kind # "read"
      /\ (Ask[d].kind = "file" => call[d].seen # {}) /\ IsFiniteSet(call[d].seen)
      /\ faults' = faults /\ gone' = gone
  BY KnownWalk DEF Calm
<1>2. call'[d] = [call[d] EXCEPT !.pc = "close", !.rc = -1]
  BY <1>1 DEF Fails, Becomes, TypeInv
<1>3. call'[d].pc = "close" /\ call'[d].seen = call[d].seen
  BY <1>1, <1>2 DEF Locals
<1>4. IsBlocked(d)' \/ IsTaken(d)'
  BY <1>1 DEF IsBlocked, IsTaken, IsFile, Part, DirOf, Target
<1>5. HasReason(d)'
  BY <1>1, <1>3, <1>4 DEF HasReason, HasNoPlace
<1>6. Lasts
  BY <1>1, StillLasts
<1> QED
  BY <1>1, <1>3, <1>5, <1>6, RefusalHasReason DEF Accounts

(* A directory can be made where its parent is, so a call that cannot make   *)
(* one had its parent removed.                                               *)
LEMMA MakeDirAccounts ==
  ASSUME RInv, NEW d \in Calls, MakeDir(d)
  PROVE  Accounts(d)
<1>1. /\ TypeInv /\ call[d] \in Locals /\ faults \in Nat /\ call[d].rc = 0 /\ At(d, "mkdirs")
      /\ Ask[d].kind # "read" /\ IsFiniteSet(call[d].seen)
      /\ Ancestor(d) = Part(d, call[d].at) /\ faults' = faults /\ gone' = gone /\ Calm
      /\ \A n \in 1..(call[d].at - 1) : tree[Part(d, n)] = Dir \/ Part(d, n) \in gone
  BY KnownWalk DEF MakeDir, Calm, At
<1>2. /\ call[d].at \in 1..Len(DirOf(d)) /\ Len(DirOf(d)) \in Nat
  BY KnownWalk DEF MakeDir, At
<1>3. CASE tree[Ancestor(d)] # None
  <2>1. call'[d] = [call[d] EXCEPT !.pc = "inspect"] /\ tree' = tree
    BY <1>1, <1>3 DEF MakeDir, Goes, Becomes, TypeInv
  <2>2. /\ call'[d].pc = "inspect" /\ call'[d].rc = 0 /\ call'[d].at = call[d].at
        /\ call'[d].seen = call[d].seen
    BY <1>1, <2>1 DEF Locals
  <2>3. ReasonInv(d)'
    BY <1>1, <1>3, <2>1, <2>2 DEF ReasonInv, At, Ancestor, Part, DirOf
  <2>4. Lasts
    BY <1>1, <2>1, StillLasts
  <2> QED
    BY <2>3, <2>4 DEF Accounts
<1>4. CASE tree[Ancestor(d)] = None /\ HasParent(Ancestor(d))
  <2>1. /\ call'[d] = [call[d] EXCEPT !.at = @ + 1, !.made = @ \cup {Ancestor(d)}]
        /\ tree' = [tree EXCEPT ![Ancestor(d)] = Dir]
    BY <1>1, <1>4 DEF MakeDir, Becomes, TypeInv
  <2>2. /\ call'[d].pc = "mkdirs" /\ call'[d].rc = 0 /\ call'[d].at = call[d].at + 1
        /\ call'[d].seen = call[d].seen
    BY <1>1, <2>1 DEF Locals, At
  <2>3. Lasts
    BY <1>1, <1>4, <2>1, DirLasts
  <2>4. ASSUME NEW n \in 1..(call'[d].at - 1)
        PROVE  tree'[Part(d, n)] = Dir \/ Part(d, n) \in gone'
    <3>0. Part(d, n) \in Paths /\ (n = call[d].at \/ n \in 1..(call[d].at - 1))
      <4>1. n \in 1..Len(DirOf(d)) /\ (n = call[d].at \/ n \in 1..(call[d].at - 1))
        BY <1>2, <2>2
      <4> QED
        BY <1>1, <4>1, PartsArePaths
    <3>1. CASE n = call[d].at
      BY <1>1, <2>1, <3>0, <3>1 DEF TypeInv
    <3>2. CASE n \in 1..(call[d].at - 1)
      BY <1>1, <2>3, <3>0, <3>2 DEF Lasts
    <3> QED
      BY <3>0, <3>1, <3>2
  <2>5. call'[d].rc # -1 /\ IsFiniteSet(call'[d].seen)
    BY <1>1, <2>2
  <2> QED
    BY <2>2, <2>3, <2>4, <2>5, WalkHasReason DEF Accounts
<1>5. CASE tree[Ancestor(d)] = None /\ ~HasParent(Ancestor(d))
  <2>1. Fails(d) /\ tree' = tree
    BY <1>5 DEF MakeDir
  <2>2. call[d].at > 1 /\ tree[Part(d, call[d].at - 1)] # Dir
    <3>1. /\ Len(Part(d, call[d].at)) = call[d].at
          /\ call[d].at > 1 => Front(Part(d, call[d].at)) = Part(d, call[d].at - 1)
      BY <1>1, <1>2, PartsArePaths
    <3>2. Len(Part(d, call[d].at)) # 1 /\ tree[Front(Part(d, call[d].at))] # Dir
      BY <1>1, <1>5 DEF HasParent
    <3>3. call[d].at > 1
      BY <1>2, <3>1, <3>2
    <3> QED
      BY <3>1, <3>2, <3>3
  <2>3. call[d].at - 1 \in 1..(call[d].at - 1) /\ call[d].at - 1 \in 1..Len(DirOf(d))
    BY <1>2, <2>2
  <2>4. IsBlocked(d)
    BY <1>1, <2>2, <2>3 DEF IsBlocked
  <2> QED
    BY <1>1, <2>1, <2>4, NoPlaceAccounts DEF At
<1> QED
  BY <1>3, <1>4, <1>5

(* What was there and is no directory is a file, or was removed.             *)
LEMMA InspectDirAccounts ==
  ASSUME RInv, NEW d \in Calls, InspectDir(d)
  PROVE  Accounts(d)
<1>1. /\ TypeInv /\ call[d] \in Locals /\ faults \in Nat /\ call[d].rc = 0 /\ At(d, "inspect")
      /\ Ask[d].kind # "read" /\ IsFiniteSet(call[d].seen) /\ StepsInv(d) /\ ReasonInv(d)
      /\ Ancestor(d) = Part(d, call[d].at) /\ tree' = tree /\ gone' = gone /\ Calm
      /\ faults' = faults
      /\ \A n \in 1..(call[d].at - 1) : tree[Part(d, n)] = Dir \/ Part(d, n) \in gone
  BY KnownReason, KnownWalk DEF InspectDir, Calm, At
<1>2. call[d].at \in 1..Len(DirOf(d))
  BY <1>1, KnownWalk DEF At, StepsInv
<1>3. CASE tree[Ancestor(d)] = Dir
  <2>1. call'[d] = [call[d] EXCEPT !.pc = "mkdirs", !.at = @ + 1]
    BY <1>1, <1>3 DEF InspectDir, Becomes, TypeInv
  <2>2. /\ call'[d].pc = "mkdirs" /\ call'[d].rc = 0 /\ call'[d].at = call[d].at + 1
        /\ call'[d].seen = call[d].seen
    BY <1>1, <2>1 DEF Locals
  <2>3. Lasts
    BY <1>1, StillLasts
  <2>4. ASSUME NEW n \in 1..(call'[d].at - 1)
        PROVE  tree'[Part(d, n)] = Dir \/ Part(d, n) \in gone'
    <3>1. n = call[d].at \/ n \in 1..(call[d].at - 1)
      BY <1>2, <2>2
    <3> QED
      BY <1>1, <1>3, <3>1
  <2>5. call'[d].rc # -1 /\ IsFiniteSet(call'[d].seen)
    BY <1>1, <2>2
  <2> QED
    BY <2>2, <2>3, <2>4, <2>5, WalkHasReason DEF Accounts
<1>4. CASE tree[Ancestor(d)] # Dir
  <2>1. Fails(d)
    BY <1>4 DEF InspectDir
  <2>2. IsBlocked(d)
    BY <1>1, <1>2, <1>4 DEF IsBlocked, IsFile, ReasonInv
  <2> QED
    BY <1>1, <2>1, <2>2, NoPlaceAccounts DEF At
<1> QED
  BY <1>3, <1>4

(* With all its ancestors there, a call has made its directory.              *)
LEMMA EndMakeDirsAccounts ==
  ASSUME RInv, NEW d \in Calls, EndMakeDirs(d)
  PROVE  Accounts(d)
<1>1. /\ TypeInv /\ call[d] \in Locals /\ faults \in Nat /\ call[d].rc = 0
      /\ IsFiniteSet(call[d].seen) /\ tree' = tree /\ gone' = gone /\ faults' = faults
  BY KnownWalk DEF EndMakeDirs, Calm, At
<1>2. call'[d] = [call[d] EXCEPT !.pc = "done"]
  BY <1>1 DEF EndMakeDirs, Goes, Becomes, TypeInv
<1>3. call'[d].pc = "done" /\ call'[d].rc # -1 /\ call'[d].seen = call[d].seen
  BY <1>1, <1>2 DEF Locals
<1>4. Lasts
  BY <1>1, StillLasts
<1> QED
  BY <1>1, <1>3, <1>4, RefusalHasReason DEF Accounts

(* A file can be made in a directory that is there, where no directory is.   *)
LEMMA OpenTargetAccounts ==
  ASSUME RInv, NEW d \in Calls, OpenTarget(d)
  PROVE  Accounts(d)
<1>1. /\ TypeInv /\ call[d] \in Locals /\ faults \in Nat /\ call[d].rc = 0 /\ At(d, "mkdirs")
      /\ Ask[d].kind \notin {"read", "mkdirs"} /\ IsFiniteSet(call[d].seen) /\ Calm
      /\ Len(DirOf(d)) \in Nat /\ call[d].at = Len(DirOf(d)) + 1
      /\ faults' = faults /\ gone' = gone
      /\ \A n \in 1..(call[d].at - 1) : tree[Part(d, n)] = Dir \/ Part(d, n) \in gone
  BY KnownWalk DEF OpenTarget, Calm, At
<1>2. CASE HasParent(Target(d)) /\ tree[Target(d)] # Dir
  <2> DEFINE left == IF Ask[d].kind = "bytes" THEN Ask[d].bytes ELSE <<>>
  <2>1. call'[d] = [call[d] EXCEPT !.pc = "write", !.made = @ \cup {Target(d)}, !.todo = left]
    BY <1>1, <1>2 DEF OpenTarget, Becomes, TypeInv, Target
  <2> HIDE DEF left
  <2>2. tree' = [tree EXCEPT ![Target(d)] = <<>>]
    BY <1>2 DEF OpenTarget, Target
  <2>3. call'[d].pc = "write" /\ call'[d].rc # -1 /\ call'[d].seen = call[d].seen
    BY <1>1, <2>1 DEF Locals
  <2>4. Writer(d) /\ <<>> \in Contents
    BY <1>1, Known DEF Writer, Kinds, RInv
  <2>5. Lasts
    BY <1>1, <1>2, <2>2, <2>4, TargetLasts
  <2> QED
    BY <1>1, <2>3, <2>5, WorkHasReason DEF Accounts
<1>3. CASE ~(HasParent(Target(d)) /\ tree[Target(d)] # Dir)
  <2>1. Fails(d) /\ tree' = tree
    BY <1>3 DEF OpenTarget, Target
  <2>2. CASE tree[Target(d)] = Dir
    BY <1>1, <2>1, <2>2, NoPlaceAccounts DEF At, IsTaken
  <2>3. CASE ~HasParent(Target(d))
    <3>1. /\ Len(Target(d)) # 1 /\ Len(DirOf(d)) = Len(Target(d)) - 1
          /\ tree[Front(Target(d))] # Dir
      BY <1>1, <2>3, PartsArePaths DEF HasParent
    <3>2. Len(Target(d)) \in Nat
      BY PathsOfCall, HostFilesAssumption, LenProperties
    <3>3. Len(DirOf(d)) \in 1..Len(DirOf(d)) /\ Len(DirOf(d)) \in 1..(call[d].at - 1)
          /\ Len(Target(d)) > 1
      BY <1>1, <3>1, <3>2
    <3>4. Part(d, Len(DirOf(d))) = Front(Target(d))
      BY <1>1, <3>3, PartsArePaths
    <3>5. IsBlocked(d)
      BY <1>1, <3>1, <3>3, <3>4 DEF IsBlocked
    <3> QED
      BY <1>1, <2>1, <3>5, NoPlaceAccounts DEF At
  <2> QED
    BY <1>3, <2>2, <2>3
<1> QED
  BY <1>2, <1>3

(* A write, a chunk and a close keep a call going or end it without failing. *)
LEMMA WriteSomeAccounts ==
  ASSUME RInv, NEW d \in Calls, WriteSome(d)
  PROVE  Accounts(d)
<1>1. /\ IInv /\ TypeInv /\ call[d] \in Locals /\ faults \in Nat /\ call[d].rc = 0
      /\ At(d, "write") /\ IsFiniteSet(call[d].seen) /\ faults' = faults /\ gone' = gone
  BY KnownReason DEF WriteSome, Calm, At
<1>2. Writer(d) /\ tree[Target(d)] \in Contents /\ call[d].todo \in Contents
  BY <1>1, Known DEF StepsInv, BytesInv, CopyInv, At, Writer, Locals
<1>3. PICK n \in 1..Len(call[d].todo) :
        /\ tree' = [tree EXCEPT ![Target(d)] = @ \o SubSeq(call[d].todo, 1, n)]
        /\ Becomes(d, [call[d] EXCEPT !.todo = SubSeq(@, n + 1, Len(@))])
  BY DEF WriteSome, Target
<1>4. /\ tree[Target(d)] \o SubSeq(call[d].todo, 1, n) \in Contents
      /\ tree' = [tree EXCEPT ![Target(d)] = tree[Target(d)] \o SubSeq(call[d].todo, 1, n)]
  BY <1>2, <1>3, WriteMoves
<1>5. tree[Target(d)] # Dir
  BY <1>2, HostFilesAssumption
<1>6. Lasts
  BY <1>1, <1>2, <1>4, <1>5, TargetLasts
<1>7. call'[d].pc = "write" /\ call'[d].rc # -1 /\ call'[d].seen = call[d].seen
  <2> DEFINE left == SubSeq(call[d].todo, n + 1, Len(call[d].todo))
  <2>1. call'[d] = [call[d] EXCEPT !.todo = left]
    BY <1>1, <1>3 DEF Becomes, TypeInv
  <2> HIDE DEF left
  <2> QED
    BY <1>1, <2>1 DEF Locals, At
<1> QED
  BY <1>1, <1>6, <1>7, WorkHasReason DEF Accounts

LEMMA ReadChunkAccounts ==
  ASSUME RInv, NEW d \in Calls, ReadChunk(d)
  PROVE  Accounts(d)
<1>1. /\ TypeInv /\ call[d] \in Locals /\ faults \in Nat /\ call[d].rc = 0 /\ At(d, "write")
      /\ IsFiniteSet(call[d].seen) /\ tree' = tree /\ faults' = faults /\ gone' = gone
  BY KnownReason DEF ReadChunk, Calm, At
<1>2. PICK n \in 1..Len(Rest(d)) :
        Becomes(d, [call[d] EXCEPT !.todo = SubSeq(Rest(d), 1, n),
                                   !.data = @ \o SubSeq(Rest(d), 1, n)])
  BY Zenon DEF ReadChunk
<1>3. call'[d].pc = "write" /\ call'[d].rc # -1 /\ call'[d].seen = call[d].seen
  <2> DEFINE chunk == SubSeq(Rest(d), 1, n)
             got == call[d].data \o chunk
  <2>1. call'[d] = [call[d] EXCEPT !.todo = chunk, !.data = got]
    BY <1>1, <1>2 DEF Becomes, TypeInv
  <2> HIDE DEF chunk, got
  <2> QED
    BY <1>1, <2>1 DEF Locals, At
<1>4. Lasts
  BY <1>1, StillLasts
<1> QED
  BY <1>1, <1>3, <1>4, WorkHasReason DEF Accounts

LEMMA EndWriteAccounts ==
  ASSUME RInv, NEW d \in Calls, EndWrite(d)
  PROVE  Accounts(d)
<1>1. /\ TypeInv /\ call[d] \in Locals /\ faults \in Nat /\ call[d].rc = 0
      /\ IsFiniteSet(call[d].seen) /\ tree' = tree /\ faults' = faults /\ gone' = gone
  BY KnownReason DEF EndWrite, Calm, At
<1>2. call'[d] = [call[d] EXCEPT !.pc = "close"]
  BY <1>1 DEF EndWrite, Goes, Becomes, TypeInv
<1>3. call'[d].pc = "close" /\ call'[d].rc # -1 /\ call'[d].seen = call[d].seen
  BY <1>1, <1>2 DEF Locals
<1>4. Lasts
  BY <1>1, StillLasts
<1> QED
  BY <1>1, <1>3, <1>4, RefusalHasReason DEF Accounts

LEMMA CloseAccounts ==
  ASSUME RInv, NEW d \in Calls, Close(d)
  PROVE  Accounts(d)
<1>1. /\ TypeInv /\ call[d] \in Locals /\ faults \in Nat /\ ReasonInv(d)
      /\ IsFiniteSet(call[d].seen) /\ tree' = tree /\ faults' = faults /\ gone' = gone
  BY KnownReason DEF Close, Calm
<1>2. call'[d] = [call[d] EXCEPT !.pc = "done"]
  BY <1>1 DEF Close, Goes, Becomes, TypeInv
<1>3. /\ call'[d].pc = "done" /\ call'[d].rc = call[d].rc /\ call'[d].seen = call[d].seen
      /\ call'[d].made = call[d].made
  BY <1>1, <1>2 DEF Locals
<1>4. Lasts
  BY <1>1, StillLasts
<1>5. call[d].rc = -1 => HasReason(d)
  BY <1>1 DEF ReasonInv
<1>6. call[d].rc = -1 => HasReason(d)'
  BY <1>1, <1>3, <1>4, <1>5, ReasonLasts
<1> QED
  BY <1>1, <1>3, <1>4, <1>6, RefusalHasReason DEF Accounts

(* A read fails at once without a file, and for one past the limit.          *)
LEMMA OpenReadAccounts ==
  ASSUME RInv, NEW d \in Calls, OpenRead(d)
  PROVE  Accounts(d)
<1> DEFINE size == Len(tree[From(d)])
<1>1. /\ TypeInv /\ call[d] \in Locals /\ faults \in Nat /\ call[d].rc = 0
      /\ IsFiniteSet(call[d].seen) /\ tree' = tree /\ faults' = faults /\ gone' = gone
      /\ Ask[d].kind = "read"
  BY KnownReason DEF OpenRead, Calm, At, StepsInv
<1>2. Lasts
  BY <1>1, StillLasts
<1>3. CASE IsFile(From(d)) /\ size > Ask[d].limit
  <2>1. call'[d] = [call[d] EXCEPT !.pc = "close", !.rc = -1, !.size = size,
                                   !.seen = {tree[From(d)]}]
    BY <1>1, <1>3 DEF OpenRead, Becomes, TypeInv
  <2>2. call'[d].pc = "close" /\ call'[d].seen = {tree[From(d)]}
    BY <1>1, <2>1 DEF Locals
  <2>3. HasReason(d)'
    BY <1>1, <1>3, <2>2 DEF HasReason, CannotRead
  <2>4. IsFiniteSet(call'[d].seen)
    BY <2>2, FS_Singleton
  <2> QED
    BY <1>2, <2>2, <2>3, <2>4, RefusalHasReason DEF Accounts
<1>4. CASE IsFile(From(d)) /\ ~(size > Ask[d].limit)
  <2>1. call'[d] = [call[d] EXCEPT !.pc = "fill", !.rc = 0, !.size = size,
                                   !.seen = {tree[From(d)]}]
    BY <1>1, <1>4 DEF OpenRead, Becomes, TypeInv
  <2>2. call'[d].pc = "fill" /\ call'[d].rc # -1 /\ call'[d].seen = {tree[From(d)]}
    BY <1>1, <2>1 DEF Locals
  <2>3. IsFiniteSet({tree[From(d)]})
    BY FS_Singleton, Zenon
  <2>4. IsFiniteSet(call'[d].seen)
    BY <2>2, <2>3, Zenon
  <2> QED
    BY <1>2, <2>2, <2>4, WorkHasReason DEF Accounts
<1>5. CASE ~IsFile(From(d))
  <2>1. call'[d] = [call[d] EXCEPT !.pc = "done", !.rc = -1]
    BY <1>1, <1>5 DEF OpenRead, Becomes, TypeInv
  <2>2. call'[d].pc = "done" /\ call'[d].seen = call[d].seen
    BY <1>1, <2>1 DEF Locals
  <2>3. HasReason(d)'
    BY <1>1, <1>5 DEF HasReason, CannotRead, IsFile, From
  <2> QED
    BY <1>1, <1>2, <2>2, <2>3, RefusalHasReason DEF Accounts
<1> QED
  BY <1>3, <1>4, <1>5

(* A read that cannot go on has a reason.                                    *)
LEMMA CannotReadAccounts ==
  ASSUME RInv, NEW d \in Calls, Fails(d), CannotRead(d), tree' = tree, Calm
  PROVE  Accounts(d)
<1>1. /\ TypeInv /\ call[d] \in Locals /\ faults \in Nat /\ IsFiniteSet(call[d].seen)
      /\ faults' = faults /\ gone' = gone
  BY KnownReason DEF Calm
<1>2. call'[d] = [call[d] EXCEPT !.pc = "close", !.rc = -1]
  BY <1>1 DEF Fails, Becomes, TypeInv
<1>3. /\ call'[d].pc = "close" /\ call'[d].seen = call[d].seen
      /\ call'[d].made = call[d].made
  BY <1>1, <1>2 DEF Locals
<1>4. Lasts
  BY <1>1, StillLasts
<1>5. HasReason(d)'
  BY <1>1, <1>3, <1>4, ReasonLasts DEF HasReason
<1> QED
  BY <1>1, <1>3, <1>4, <1>5, RefusalHasReason DEF Accounts

(* A file that ends before the size that was asked for has changed.          *)
LEMMA FillAccounts ==
  ASSUME RInv, NEW d \in Calls, Fill(d)
  PROVE  Accounts(d)
<1>1. /\ TypeInv /\ call[d] \in Locals /\ faults \in Nat /\ call[d].rc = 0 /\ At(d, "fill")
      /\ IsFiniteSet(call[d].seen) /\ tree' = tree /\ faults' = faults /\ gone' = gone
      /\ Ask[d].kind = "read" /\ ReadInv(d) /\ Calm
  BY KnownReason DEF Fill, Calm, At, StepsInv
<1>2. CASE Rest(d) = <<>>
  <2>1. /\ tree[From(d)] \in Contents /\ tree[From(d)] \in call[d].seen
        /\ call[d].data \in Contents /\ call[d].size \in Nat /\ Len(call[d].data) < call[d].size
    BY <1>1 DEF ReadInv, Locals, Fill
  <2>2. PICK x \in call[d].seen : Len(x) = call[d].size
    BY <1>1 DEF ReadInv, SizeIsSeen
  <2>3. Len(tree[From(d)]) <= Len(call[d].data)
    BY <1>2, <2>1, Lengths, NothingLeft DEF Rest
  <2>4. Len(tree[From(d)]) \in Nat /\ Len(call[d].data) \in Nat
    BY <2>1, Lengths
  <2>5. x # tree[From(d)]
    BY <2>1, <2>2, <2>3, <2>4
  <2>6. CannotRead(d)
    BY <1>1, <2>1, <2>5 DEF CannotRead
  <2>7. Fails(d)
    BY <1>2 DEF Fill
  <2> QED
    BY <1>1, <2>6, <2>7, CannotReadAccounts
<1>3. CASE Rest(d) # <<>>
  <2>1. PICK n \in 1..Len(Rest(d)) :
          Becomes(d, [call[d] EXCEPT !.data = @ \o SubSeq(Rest(d), 1, n)])
    BY <1>3 DEF Fill
  <2>2. call'[d].pc = "fill" /\ call'[d].rc # -1 /\ call'[d].seen = call[d].seen
    <3> DEFINE got == call[d].data \o SubSeq(Rest(d), 1, n)
    <3>1. call'[d] = [call[d] EXCEPT !.data = got]
      BY <1>1, <2>1 DEF Becomes, TypeInv
    <3> HIDE DEF got
    <3> QED
      BY <1>1, <3>1 DEF Locals, At
  <2>3. Lasts
    BY <1>1, StillLasts
  <2> QED
    BY <1>1, <2>2, <2>3, WorkHasReason DEF Accounts
<1> QED
  BY <1>2, <1>3

(* So has a file with more than its size, and a NUL stood in a version.      *)
LEMMA EndFillAccounts ==
  ASSUME RInv, NEW d \in Calls, EndFill(d)
  PROVE  Accounts(d)
<1>1. /\ TypeInv /\ call[d] \in Locals /\ faults \in Nat /\ call[d].rc = 0 /\ At(d, "fill")
      /\ IsFiniteSet(call[d].seen) /\ tree' = tree /\ faults' = faults /\ gone' = gone
      /\ Ask[d].kind = "read" /\ ReadInv(d) /\ Calm
  BY KnownReason DEF EndFill, Calm, At, StepsInv
<1>2. /\ tree[From(d)] \in Contents /\ tree[From(d)] \in call[d].seen
      /\ call[d].data \in Contents /\ call[d].size \in Nat /\ Len(call[d].data) >= call[d].size
      /\ SizeIsSeen(d) /\ BytesAreSeen(d) /\ call[d].seen \subseteq Contents
  BY <1>1 DEF ReadInv, Locals, EndFill
<1>3. PICK x \in call[d].seen : Len(x) = call[d].size
  BY <1>2 DEF SizeIsSeen
<1>4. Len(call[d].data) \in Nat /\ Len(tree[From(d)]) \in Nat
  BY <1>2, Lengths
<1>5. CASE Len(call[d].data) > call[d].size
  <2>1. Len(call[d].data) \in 1..Len(call[d].data)
    BY <1>2, <1>4, <1>5
  <2>2. PICK y \in call[d].seen : Len(call[d].data) \in 1..Len(y)
    BY <1>2, <2>1 DEF BytesAreSeen
  <2>3. x # y
    BY <1>2, <1>3, <1>4, <1>5, <2>2
  <2>4. CannotRead(d)
    BY <1>1, <2>3 DEF CannotRead
  <2>5. Fails(d)
    BY <1>5 DEF EndFill
  <2> QED
    BY <1>1, <2>4, <2>5, CannotReadAccounts
<1>6. CASE Rest(d) # <<>>
  <2>1. Len(tree[From(d)]) > Len(call[d].data)
    <3> SUFFICES ASSUME Len(tree[From(d)]) <= Len(call[d].data)
                 PROVE  FALSE
      BY <1>4
    <3>1. /\ Len(call[d].data) + 1 \in Int /\ Len(tree[From(d)]) \in Int
          /\ Len(tree[From(d)]) < Len(call[d].data) + 1
      BY <1>4
    <3>2. SubSeq(tree[From(d)], Len(call[d].data) + 1, Len(tree[From(d)])) = <<>>
      BY <3>1, SubSeqEmpty
    <3> QED
      BY <1>6, <3>2 DEF Rest
  <2>2. x # tree[From(d)]
    BY <1>2, <1>3, <1>4, <2>1
  <2>3. CannotRead(d)
    BY <1>1, <1>2, <2>2 DEF CannotRead
  <2>4. Fails(d)
    BY <1>6 DEF EndFill
  <2> QED
    BY <1>1, <2>3, <2>4, CannotReadAccounts
<1>7. CASE Nul \in Range(call[d].data)
  <2>1. PICK i \in 1..Len(call[d].data) : call[d].data[i] = Nul
    BY <1>2, <1>7, RangeOfContent
  <2>2. PICK y \in call[d].seen : i \in 1..Len(y) /\ call[d].data[i] = y[i]
    BY <1>2 DEF BytesAreSeen
  <2>3. Nul \in Range(y)
    BY <1>2, <2>1, <2>2, RangeOfContent
  <2>4. CannotRead(d)
    BY <1>1, <2>3 DEF CannotRead
  <2>5. Fails(d)
    BY <1>7 DEF EndFill
  <2> QED
    BY <1>1, <2>4, <2>5, CannotReadAccounts
<1>8. CASE ~(\/ Len(call[d].data) > call[d].size \/ Rest(d) # <<>> \/ Nul \in Range(call[d].data))
  <2>1. call'[d] = [call[d] EXCEPT !.pc = "close"]
    BY <1>1, <1>8 DEF EndFill, Goes, Becomes, TypeInv
  <2>2. call'[d].pc = "close" /\ call'[d].rc # -1 /\ call'[d].seen = call[d].seen
    BY <1>1, <2>1 DEF Locals
  <2>3. Lasts
    BY <1>1, StillLasts
  <2> QED
    BY <1>1, <2>2, <2>3, RefusalHasReason DEF Accounts
<1> QED
  BY <1>5, <1>6, <1>7, <1>8

(* A failing system call is a reason.                                        *)
LEMMA SystemCallFailsAccounts ==
  ASSUME RInv, NEW d \in Calls, SystemCallFails(d)
  PROVE  Accounts(d)
<1> DEFINE pc == IF call[d].pc \in {"source", "open", "close"} THEN "done" ELSE "close"
<1>1. /\ TypeInv /\ call[d] \in Locals /\ faults \in Nat /\ IsFiniteSet(call[d].seen)
      /\ tree' = tree /\ gone' = gone /\ faults' = faults + 1
  BY KnownReason DEF SystemCallFails
<1>2. call'[d] = [call[d] EXCEPT !.rc = -1, !.pc = pc]
  BY <1>1 DEF SystemCallFails, Becomes, TypeInv
<1>3. call'[d].pc \in {"close", "done"} /\ call'[d].seen = call[d].seen
  BY <1>1, <1>2 DEF Locals
<1>4. Lasts
  <2>1. faults' \in Nat /\ faults <= faults'
    BY <1>1
  <2> QED
    BY <1>1, <2>1, StillLasts
<1>5. HasReason(d)'
  <2>1. faults' > 0
    BY <1>1
  <2> QED
    BY <2>1 DEF HasReason
<1> QED
  BY <1>1, <1>3, <1>4, <1>5, RefusalHasReason DEF Accounts

LEMMA CallAccounts ==
  ASSUME RInv, NEW d \in Calls, Step(d) \/ SystemCallFails(d)
  PROVE  Accounts(d)
BY OpenSourceAccounts, MakeDirAccounts, InspectDirAccounts, EndMakeDirsAccounts,
   OpenTargetAccounts, WriteSomeAccounts, ReadChunkAccounts, EndWriteAccounts, OpenReadAccounts,
   FillAccounts, EndFillAccounts, CloseAccounts, SystemCallFailsAccounts DEF Step

(* A user who changes a file adds a version of it for the calls that read it. *)
LEMMA ChangeAccounts ==
  ASSUME RInv, NEW p \in Sources, NEW content \in Contents, Change(p, content)
  PROVE  Lasts /\ \A c \in Calls : ReasonInv(c)'
<1>1. /\ TypeInv /\ faults \in Nat /\ IsFile(p) /\ gone' = gone /\ faults' = faults
      /\ tree' = [tree EXCEPT ![p] = content]
  BY DEF RInv, IInv, Change
<1>2. p \in Paths /\ tree[p] # Dir
  BY <1>1, PathsOfCall DEF Sources, IsFile
<1>3. Lasts
  BY <1>1, <1>2, FileLasts
<1>4. ASSUME NEW c \in Calls
      PROVE  ReasonInv(c)'
  <2>1. call[c] \in Locals /\ IsFiniteSet(call[c].seen)
    BY KnownReason
  <2>2. \/ call[c].seen # {} /\ call'[c] = [call[c] EXCEPT !.seen = @ \cup {content}]
        \/ call'[c] = call[c]
    BY DEF Change
  <2>3. /\ call'[c].pc = call[c].pc /\ call'[c].at = call[c].at /\ call'[c].rc = call[c].rc
        /\ call'[c].made = call[c].made /\ call[c].seen \subseteq call'[c].seen
        /\ call[c].seen = {} => call'[c].seen = {}
        /\ call'[c].seen \in {call[c].seen, call[c].seen \cup {content}}
    BY <2>1, <2>2 DEF Locals
  <2>4. IsFiniteSet(call[c].seen \cup {content})
    BY <2>1, FS_AddElement, Zenon
  <2>5. IsFiniteSet(call'[c].seen)
    BY <2>1, <2>3, <2>4
  <2> QED
    BY <1>3, <2>3, <2>5, ReasonStays
<1> QED
  BY <1>3, <1>4

(* The invariant holds before any call, and every step keeps it.             *)
LEMMA InitRInv == Init => RInv
<1> SUFFICES ASSUME Init
             PROVE  RInv
  OBVIOUS
<1>1. IInv /\ faults \in Nat
  BY InitIInv DEF Init
<1>2. ASSUME NEW c \in Calls
      PROVE  ReasonInv(c)
  <2>1. PICK start \in Starts : call[c] = Entered(c, start.calls)
    BY DEF Init
  <2>2. /\ call[c].pc \in {"idle", "source", "open", "mkdirs"} /\ call[c].at = 1
        /\ call[c].seen = {} /\ call[c].made = {} /\ call[c].rc = 0
    BY <2>1 DEF Entered
  <2>3. IsFiniteSet(call[c].seen)
    BY <2>2, FS_EmptySet
  <2>4. \A n \in 1..(call[c].at - 1) : tree[Part(c, n)] = Dir \/ Part(c, n) \in gone
    BY <2>2
  <2> QED
    BY <2>2, <2>3, <2>4 DEF ReasonInv, At
<1> QED
  BY <1>1, <1>2 DEF RInv

LEMMA StepRInv == RInv /\ [Next]_vars => RInv'
<1> SUFFICES ASSUME RInv, [Next]_vars
             PROVE  RInv'
  OBVIOUS
<1>1. IInv' /\ IInv /\ TypeInv /\ faults \in Nat
  BY StepIInv DEF RInv, IInv
<1>2. ASSUME Lasts, \A c \in Calls : ReasonInv(c)'
      PROVE  RInv'
  BY <1>1, <1>2 DEF RInv, Lasts
<1>3. ASSUME Lasts, NEW c \in Calls, call'[c] = call[c]
      PROVE  ReasonInv(c)'
  <2>1. IsFiniteSet(call'[c].seen)
    BY <1>3, KnownReason
  <2> QED
    BY <1>3, <2>1, ReasonStays
<1>4. ASSUME NEW d \in Calls, Step(d) \/ SystemCallFails(d)
      PROVE  RInv'
  <2>1. Lasts /\ ReasonInv(d)'
    BY <1>4, CallAccounts DEF Accounts
  <2>2. ASSUME NEW c \in Calls
        PROVE  ReasonInv(c)'
    <3>1. CASE c = d
      BY <2>1, <3>1
    <3>2. CASE c # d
      <4>1. call'[c] = call[c]
        BY <1>1, <1>4, <3>2, CallStep DEF Result, Only
      <4> QED
        BY <1>3, <2>1, <4>1
    <3> QED
      BY <3>1, <3>2
  <2> QED
    BY <1>2, <2>1, <2>2
<1>5. ASSUME NEW p \in Sources, AppendTo(p) \/ CutShort(p)
      PROVE  RInv'
  <2>1. tree[p] \in Contents
    <3>1. p \in Paths
      BY PathsOfCall DEF Sources
    <3> QED
      BY <1>1, <1>5, <3>1 DEF AppendTo, CutShort, IsFile, TypeInv
  <2>2. PICK content \in Contents : Change(p, content)
    <3>1. CASE AppendTo(p)
      <4>1. PICK char \in Chars : Change(p, Append(tree[p], char))
        BY <3>1 DEF AppendTo
      <4>2. Append(tree[p], char) \in Contents
        BY <2>1, AppendProperties DEF Contents
      <4> QED
        BY <4>1, <4>2
    <3>2. CASE CutShort(p)
      <4>1. PICK n \in 0..(Len(tree[p]) - 1) : Change(p, SubSeq(tree[p], 1, n))
        BY <3>2 DEF CutShort
      <4>2. SubSeq(tree[p], 1, n) \in Contents
        BY <2>1, CutIsContent
      <4> QED
        BY <4>1, <4>2
    <3> QED
      BY <1>5, <3>1, <3>2
  <2>3. Lasts /\ \A c \in Calls : ReasonInv(c)'
    BY <2>2, ChangeAccounts
  <2> QED
    BY <1>2, <2>3
<1>6. ASSUME NEW p \in Paths, RemoveDir(p)
      PROVE  RInv'
  <2>1. Lasts /\ call' = call
    BY <1>1, <1>6, RemoveDirLasts DEF RemoveDir
  <2> QED
    BY <1>2, <1>3, <2>1
<1>7. CASE UNCHANGED vars
  <2>1. tree' = tree /\ call' = call /\ gone' = gone /\ faults' = faults
    BY <1>7 DEF vars
  <2>2. Lasts
    BY <1>1, <2>1, StillLasts
  <2> QED
    BY <1>2, <1>3, <2>1, <2>2
<1> QED
  BY <1>4, <1>5, <1>6, <1>7 DEF Next, User

(* A set with two members has more than one.                                 *)
LEMMA TwoAreMoreThanOne ==
  ASSUME NEW S, IsFiniteSet(S), NEW x \in S, NEW y \in S, x # y
  PROVE  Cardinality(S) > 1
<1>1. Cardinality(S) \in Nat
  BY FS_CardinalityType
<1>2. Cardinality(S) # 0
  BY FS_EmptySet
<1>3. Cardinality(S) # 1
  BY FS_Singleton
<1> QED
  BY <1>1, <1>2, <1>3

(* Whatever the calls and the user do at once: a call that fails was refused *)
(* by a system call, by a file or a removal in its way, by a directory where *)
(* its file goes, or by a file that is not there, changed, is past the limit *)
(* or holds a NUL; and a copy without a source has made nothing.             *)
THEOREM FailuresKeepAReason == Spec => []FailuresHaveAReason
<1>1. RInv => FailuresHaveAReason
  <2> SUFFICES ASSUME RInv, NEW c \in Calls, At(c, "done"), call[c].rc = -1
               PROVE  \/ faults > 0
                      \/ /\ Ask[c].kind = "file" /\ call[c].seen = {} /\ ~IsFile(From(c))
                         /\ call[c].made = {}
                      \/ /\ Ask[c].kind # "read" /\ (Ask[c].kind = "file" => call[c].seen # {})
                         /\ \/ \E n \in 1..Len(DirOf(c)) : IsFile(SubSeq(DirOf(c), 1, n))
                                                           \/ SubSeq(DirOf(c), 1, n) \in gone
                            \/ /\ Ask[c].kind # "mkdirs"
                               /\ tree[Ask[c].path] = Dir \/ Ask[c].path \in gone
                      \/ /\ Ask[c].kind = "read"
                         /\ \/ ~IsFile(From(c)) \/ Cardinality(call[c].seen) > 1
                            \/ \E content \in call[c].seen :
                                 Len(content) > Ask[c].limit \/ Nul \in Range(content)
    BY DEF FailuresHaveAReason
  <2>1. HasReason(c) /\ IsFiniteSet(call[c].seen)
    BY KnownReason DEF ReasonInv
  <2>2. (\E x, y \in call[c].seen : x # y) => Cardinality(call[c].seen) > 1
    BY <2>1, TwoAreMoreThanOne
  <2>3. CASE faults > 0
    BY <2>3
  <2>4. CASE HasNoSource(c)
    BY <2>4 DEF HasNoSource
  <2>5. CASE HasNoPlace(c)
    BY <2>5 DEF HasNoPlace, IsBlocked, IsTaken, Part, Target
  <2>6. CASE CannotRead(c)
    BY <2>2, <2>6 DEF CannotRead
  <2> QED
    BY <2>1, <2>3, <2>4, <2>5, <2>6 DEF HasReason
<1> QED
  BY <1>1, InitRInv, StepRInv, PTL DEF Spec

=============================================================================
