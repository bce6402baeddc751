---------------------------- MODULE InputsProofs ----------------------------
(***************************************************************************)
(* For every config, however wrong, and every permalink pattern: what the   *)
(* load leaves is usable, and the four samples vouch for every entry.  And  *)
(* for every command line: its elements, wherever they stand, are answered. *)
(***************************************************************************)
EXTENDS Inputs, FiniteSetTheorems, SequenceTheorems, WellFoundedInduction, TLAPS

-----------------------------------------------------------------------------
(* A fold over a sequence is a function of how far it got. *)
LEMMA SetInduction ==
  ASSUME NEW S \in SUBSET Nat, 0 \in S, \A n \in S : n + 1 \in S
  PROVE  S = Nat
<1> SUFFICES ASSUME Nat \ S # {}
             PROVE  FALSE
  OBVIOUS
<1> DEFINE R == {ss \in Nat \X Nat : ss[1] < ss[2]}
<1>0. IsWellFoundedOn(R, Nat)
  BY NatLessThanWellFounded, Zenon DEF OpToRel
<1>1. PICK n \in Nat \ S : \A m \in Nat \ S : ~ (<<m, n>> \in R)
  <2> HIDE DEF R
  <2>1. Nat \ S \subseteq Nat
    OBVIOUS
  <2> QED
    BY <1>0, <2>1, WFMin, Zenon
<1>2. n # 0 /\ n - 1 \in Nat
  OBVIOUS
<1>3. n - 1 \in S
  <2>1. <<n - 1, n>> \in R
    BY <1>2
  <2> QED
    BY <1>1, <1>2, <2>1
<1>4. n - 1 + 1 = n
  OBVIOUS
<1> QED
  BY <1>3, <1>4

\* The function over sets of positions that a fold names; step gets a position
\* and the value so far.
Folds(f, N, base, step) ==
  f = [s \in SUBSET (1 .. N) |-> IF s = {} THEN base ELSE step[<<Max(s), f[s \ {Max(s)}]>>]]

LEMMA MaxIsLast ==
  ASSUME NEW n \in Nat, NEW s \in SUBSET (1 .. n + 1), n + 1 \in s
  PROVE  Max(s) = n + 1
<1>1. \A x \in s : x \in Int /\ n + 1 >= x
  OBVIOUS
<1>2. \A x \in s : (\A y \in s : x >= y) => x = n + 1
  <2>1. ASSUME NEW x \in s, \A y \in s : x >= y
        PROVE  x = n + 1
    <3>1. x >= n + 1 /\ n + 1 >= x /\ x \in Int
      BY <1>1, <2>1
    <3> QED
      BY <3>1
  <2> QED
    BY <2>1
<1> QED
  BY <1>1, <1>2 DEF Max

LEMMA MaxOfSome ==
  ASSUME NEW n \in Nat, NEW s \in SUBSET (1 .. n), s # {}
  PROVE  Max(s) \in s
<1> DEFINE K == {k \in Nat : \A t \in SUBSET (1 .. k) : t # {} => Max(t) \in t}
<1>1. 0 \in K
  <2>1. 1 .. 0 = {}
    OBVIOUS
  <2> QED
    BY <2>1
<1>2. ASSUME NEW k \in K
      PROVE  k + 1 \in K
  <2>1. k \in Nat /\ k + 1 \in Nat
    OBVIOUS
  <2>2. ASSUME NEW t \in SUBSET (1 .. k + 1), t # {}
        PROVE  Max(t) \in t
    <3>1. CASE k + 1 \in t
      BY <2>1, <3>1, MaxIsLast
    <3>2. CASE k + 1 \notin t
      <4>1. t \in SUBSET (1 .. k)
        BY <2>1, <3>2
      <4> QED
        BY <2>2, <4>1
    <3> QED
      BY <3>1, <3>2
  <2> QED
    BY <2>1, <2>2
<1> HIDE DEF K
<1>3. K = Nat
  <2>1. K \in SUBSET Nat
    BY DEF K
  <2> QED
    BY <1>1, <1>2, <2>1, SetInduction
<1> QED
  BY <1>3 DEF K

LEMMA FoldExists ==
  ASSUME NEW N \in Nat, NEW V, NEW base \in V, NEW step \in [Nat \X V -> V]
  PROVE  \E f \in [SUBSET (1 .. N) -> V] : Folds(f, N, base, step)
<1> DEFINE Good(f, n) == \A s \in SUBSET (1 .. n) : f[s] = IF s = {} THEN base ELSE step[<<Max(s), f[s \ {Max(s)}]>>]
           S == {n \in Nat : \E f \in [SUBSET (1 .. n) -> V] : Good(f, n)}
<1>1. 0 \in S
  <2> DEFINE g == [s \in SUBSET (1 .. 0) |-> base]
  <2>1. \A s \in SUBSET (1 .. 0) : s = {}
    OBVIOUS
  <2>2. g \in [SUBSET (1 .. 0) -> V] /\ Good(g, 0)
    BY <2>1
  <2> QED
    BY <2>2
<1>2. ASSUME NEW n \in S
      PROVE  n + 1 \in S
  <2>1. PICK f \in [SUBSET (1 .. n) -> V] : Good(f, n)
    OBVIOUS
  <2>2. n \in Nat
    OBVIOUS
  <2> DEFINE g == [s \in SUBSET (1 .. n + 1) |-> IF n + 1 \in s THEN step[<<n + 1, f[s \ {n + 1}]>>] ELSE f[s]]
  <2>3. \A s \in SUBSET (1 .. n + 1) : s \ {n + 1} \in SUBSET (1 .. n) /\ (n + 1 \notin s => s \in SUBSET (1 .. n))
    BY <2>2
  <2>4. g \in [SUBSET (1 .. n + 1) -> V]
    <3>1. ASSUME NEW s \in SUBSET (1 .. n + 1)
          PROVE  (IF n + 1 \in s THEN step[<<n + 1, f[s \ {n + 1}]>>] ELSE f[s]) \in V
      <4>1. CASE n + 1 \in s
        <5>1. f[s \ {n + 1}] \in V /\ n + 1 \in Nat
          BY <2>2, <2>3
        <5> QED
          BY <4>1, <5>1
      <4>2. CASE n + 1 \notin s
        BY <2>3, <4>2
      <4> QED
        BY <4>1, <4>2
    <3> QED
      BY <3>1
  <2>5. ASSUME NEW s \in SUBSET (1 .. n + 1)
        PROVE  g[s] = IF s = {} THEN base ELSE step[<<Max(s), g[s \ {Max(s)}]>>]
    <3>1. CASE n + 1 \in s
      <4>1. Max(s) = n + 1
        BY <2>2, <3>1, MaxIsLast
      <4>2. s \ {n + 1} \in SUBSET (1 .. n + 1) /\ g[s \ {n + 1}] = f[s \ {n + 1}]
        OBVIOUS
      <4> QED
        BY <3>1, <4>1, <4>2
    <3>2. CASE n + 1 \notin s
      <4>1. s \in SUBSET (1 .. n)
        BY <2>3, <3>2
      <4>2. g[s] = f[s]
        BY <3>2
      <4>3. CASE s = {}
        BY <2>1, <4>1, <4>2, <4>3
      <4>4. CASE s # {}
        <5>1. s \ {Max(s)} \in SUBSET (1 .. n + 1) /\ n + 1 \notin s \ {Max(s)}
          BY <3>2
        <5>2. g[s \ {Max(s)}] = f[s \ {Max(s)}]
          BY <5>1
        <5> QED
          BY <2>1, <4>1, <4>2, <4>4, <5>2
      <4> QED
        BY <4>3, <4>4
    <3> QED
      BY <3>1, <3>2
  <2> HIDE DEF g
  <2>6. Good(g, n + 1)
    BY <2>5
  <2>7. \E h \in [SUBSET (1 .. n + 1) -> V] : Good(h, n + 1)
    <3> HIDE DEF Good
    <3> QED
      BY <2>4, <2>6
  <2>8. n + 1 \in Nat
    BY <2>2
  <2> QED
    BY <2>7, <2>8
<1> HIDE DEF S
<1>3. S = Nat
  <2>1. S \in SUBSET Nat
    BY DEF S
  <2> QED
    BY <1>1, <1>2, <2>1, SetInduction
<1>4. PICK f \in [SUBSET (1 .. N) -> V] : Good(f, N)
  <2>1. N \in S
    BY <1>3
  <2> QED
    BY <2>1 DEF S
<1>5. f = [s \in SUBSET (1 .. N) |-> IF s = {} THEN base ELSE step[<<Max(s), f[s \ {Max(s)}]>>]]
  BY <1>4
<1> QED
  BY <1>5 DEF Folds

LEMMA MaxUpTo ==
  ASSUME NEW k \in Nat, k # 0
  PROVE  Max(1 .. k) = k /\ ((1 .. k) \ {k}) = 1 .. (k - 1)
<1>1. PICK n \in Nat : n + 1 = k
  <2>1. k - 1 \in Nat /\ k - 1 + 1 = k
    OBVIOUS
  <2> QED
    BY <2>1
<1>2. (1 .. k) \in SUBSET (1 .. n + 1) /\ n + 1 \in 1 .. k
  BY <1>1
<1>3. Max(1 .. k) = n + 1
  BY <1>2, MaxIsLast
<1> QED
  BY <1>1, <1>3

-----------------------------------------------------------------------------
(* The expansion of a permalink, token by token. *)
IsExpansion(u, pattern, section, slug) ==
  /\ u[0] = <<"/">>
  /\ \A k \in 1 .. Len(pattern) : u[k] = AppendToken(u[k - 1], pattern[k], section, slug)

Close(url) == IF Last(url) = "/" THEN url \o <<"i", ".", "h">> ELSE url

LEMMA ExpandIs ==
  ASSUME NEW C, {"/", "i", ".", "h"} \subseteq C,
         NEW pattern \in Seq(C), NEW section \in Seq(C), NEW slug \in Seq(C)
  PROVE  \E u \in [0 .. Len(pattern) -> Seq(C)] :
           /\ IsExpansion(u, pattern, section, slug)
           /\ Expand(pattern, section, slug) = Close(u[Len(pattern)])
<1> DEFINE V == Seq(C)
           N == Len(pattern)
           step == [p \in Nat \X V |-> IF p[1] \in 1 .. N THEN AppendToken(p[2], pattern[p[1]], section, slug) ELSE p[2]]
           iter == CHOOSE iter : iter = [s \in SUBSET (DOMAIN pattern) |->
                     IF s = {} THEN <<"/">> ELSE AppendToken(iter[s \ {Max(s)}], pattern[Max(s)], section, slug)]
<1>0. N \in Nat /\ DOMAIN pattern = 1 .. N
  OBVIOUS
<1>1. FoldLeft(LAMBDA text, token : AppendToken(text, token, section, slug), <<"/">>, pattern) = iter[1 .. N]
  BY <1>0 DEF FoldLeft, MapThenFoldSet
<1>2. ASSUME NEW text \in V, NEW k \in 1 .. N
      PROVE  AppendToken(text, pattern[k], section, slug) \in V
  <2>1. pattern[k] \in C /\ section \in V /\ slug \in V
    OBVIOUS
  <2>2. text \o section \in V /\ text \o slug \in V /\ Append(text, pattern[k]) \in V
    BY <2>1, ConcatProperties
  <2> QED
    BY <2>2 DEF AppendToken, ExpandToken
<1>3. step \in [Nat \X V -> V] /\ <<"/">> \in V
  <2>1. \A p \in Nat \X V : p[2] \in V
    OBVIOUS
  <2>2. <<"/">> \in V
    OBVIOUS
  <2> QED
    BY <1>2, <2>1, <2>2
<1>4. PICK f \in [SUBSET (1 .. N) -> V] : Folds(f, N, <<"/">>, step)
  <2> HIDE DEF step, V, N
  <2> QED
    BY <1>0, <1>3, FoldExists
<1>5. iter = [s \in SUBSET (1 .. N) |->
                IF s = {} THEN <<"/">> ELSE AppendToken(iter[s \ {Max(s)}], pattern[Max(s)], section, slug)]
  <2>1. ASSUME NEW s \in SUBSET (1 .. N), s # {}
        PROVE  step[<<Max(s), f[s \ {Max(s)}]>>] = AppendToken(f[s \ {Max(s)}], pattern[Max(s)], section, slug)
    <3>1. Max(s) \in s
      <4> HIDE DEF N
      <4> QED
        BY <1>0, <2>1, MaxOfSome
    <3>2. Max(s) \in 1 .. N /\ Max(s) \in Nat /\ s \ {Max(s)} \in SUBSET (1 .. N)
      <4>1. PICK m \in s : m = Max(s)
        BY <3>1
      <4>2. m \in 1 .. N /\ m \in Nat
        BY <1>0
      <4> QED
        BY <4>1, <4>2
    <3>3. f[s \ {Max(s)}] \in V
      <4> HIDE DEF V
      <4> QED
        BY <1>4, <3>2
    <3> QED
      BY <3>2, <3>3
  <2>2. f = [s \in SUBSET (DOMAIN pattern) |->
               IF s = {} THEN <<"/">> ELSE AppendToken(f[s \ {Max(s)}], pattern[Max(s)], section, slug)]
    <3> HIDE DEF step, V, N
    <3> QED
      BY <1>0, <1>4, <2>1 DEF Folds
  <2> QED
    BY <1>0, <2>2
<1> DEFINE u == [k \in 0 .. N |-> iter[1 .. k]]
<1>6. u[0] = <<"/">>
  <2>1. 1 .. 0 = {} /\ 0 \in 0 .. N /\ {} \in SUBSET (1 .. N)
    BY <1>0
  <2>2. iter[{}] = <<"/">>
    <3> HIDE DEF iter
    <3> QED
      BY <1>5, <2>1
  <2> HIDE DEF iter
  <2> QED
    BY <2>1, <2>2
<1>7. ASSUME NEW k \in 1 .. N
      PROVE  u[k] = AppendToken(u[k - 1], pattern[k], section, slug)
  <2>1. /\ k \in Nat /\ k # 0 /\ (1 .. k) # {} /\ (1 .. k) \in SUBSET (1 .. N)
        /\ k \in 0 .. N /\ k - 1 \in 0 .. N
    <3> HIDE DEF N, iter, step, V, u
    <3>1. N \in Nat /\ 1 <= k /\ k <= N /\ k \in Nat
      BY <1>0
    <3>2. \A i \in 1 .. k : i \in 1 .. N
      BY <3>1
    <3>3. k \in 1 .. k
      BY <3>1
    <3>4. (1 .. k) # {} /\ (1 .. k) \in SUBSET (1 .. N)
      BY <3>2, <3>3
    <3>5. k # 0 /\ k \in 0 .. N /\ k - 1 \in 0 .. N
      BY <3>1
    <3> QED
      BY <3>1, <3>4, <3>5
  <2>2. Max(1 .. k) = k /\ ((1 .. k) \ {k}) = 1 .. (k - 1)
    BY <2>1, MaxUpTo
  <2>3. iter[1 .. k] = AppendToken(iter[1 .. (k - 1)], pattern[k], section, slug)
    <3> HIDE DEF iter
    <3> QED
      BY <1>5, <2>1, <2>2
  <2> HIDE DEF iter
  <2> QED
    BY <2>1, <2>3
<1>8. u[N] = iter[1 .. N] /\ DOMAIN u = 0 .. N /\ u = [k \in 0 .. N |-> u[k]]
  <2> HIDE DEF iter
  <2> QED
    BY <1>0
<1> HIDE DEF u, iter
<1>9. \A k \in 0 .. N : u[k] \in V
  <2> DEFINE K == {k \in Nat : k \in 0 .. N => u[k] \in V}
  <2>1. 0 \in K
    BY <1>6, <1>3
  <2>2. ASSUME NEW k \in K
        PROVE  k + 1 \in K
    <3>1. CASE k + 1 \in 0 .. N
      <4>1. PICK m \in 1 .. N : m = k + 1
        BY <1>0, <3>1
      <4>2. u[m - 1] \in V /\ m \in Nat
        BY <4>1
      <4>3. u[m] \in V
        BY <1>2, <1>7, <4>2
      <4> QED
        BY <4>1, <4>2, <4>3
    <3>2. CASE k + 1 \notin 0 .. N
      BY <3>2
    <3> QED
      BY <3>1, <3>2
  <2> HIDE DEF K
  <2>3. K = Nat
    <3>1. K \in SUBSET Nat
      BY DEF K
    <3> QED
      BY <2>1, <2>2, <3>1, SetInduction
  <2>4. \A k \in 0 .. N : k \in Nat
    BY <1>0
  <2> QED
    BY <2>3, <2>4 DEF K
<1>10. u \in [0 .. N -> V]
  <2> HIDE DEF V, N
  <2> QED
    BY <1>8, <1>9
<1>11. IsExpansion(u, pattern, section, slug)
  BY <1>6, <1>7 DEF IsExpansion
<1>12. Expand(pattern, section, slug) = Close(u[N])
  BY <1>1, <1>8 DEF Expand, Close
<1> QED
  BY <1>10, <1>11, <1>12
-----------------------------------------------------------------------------
(* Whether a URL is safe is decided by what its segments could still become: *)
(* none begun, a dot, two dots, or a word, which no continuation makes       *)
(* unsafe.                                                                   *)
EndsAt(url, n) ==
  CASE url[n] = "/" -> "start"
    [] url[n] = "." /\ url[n - 1] = "/" -> "dot"
    [] url[n] = "." /\ url[n - 1] = "." /\ url[n - 2] = "/" -> "dots"
    [] OTHER -> "word"

After(ends, char) ==
  CASE char = "/" -> "start"
    [] char # "/" /\ char # "." -> "word"
    [] char = "." /\ ends = "start" -> "dot"
    [] char = "." /\ ends = "dot" -> "dots"
    [] OTHER -> "word"

IsRooted(url) == Len(url) >= 1 /\ url[1] = "/"

IsSafeSoFar(url) ==
  /\ \A i \in 1 .. Len(url) : url[i] \in PathChars
  /\ \A i \in 2 .. Len(url) : url[i] = "/" => EndsAt(url, i - 1) = "word"

Appends(w, url, char) == w = Append(url, char)

Continues(w, url, char) ==
  /\ IsRooted(w)
  /\ EndsAt(w, Len(w)) = After(EndsAt(url, Len(url)), char)
  /\ IsSafeSoFar(w) <=> /\ IsSafeSoFar(url) /\ char \in PathChars
                        /\ char = "/" => EndsAt(url, Len(url)) = "word"

LEMMA AppendEnds ==
  ASSUME NEW C, NEW url \in Seq(C), IsRooted(url), NEW char \in C, NEW w, Appends(w, url, char)
  PROVE  Continues(w, url, char)
<1> DEFINE n == Len(url)
<1>1. /\ w \in Seq(C) /\ Len(w) = n + 1 /\ n \in Nat /\ n >= 1 /\ w[n + 1] = char
      /\ \A i \in 1 .. n : w[i] = url[i]
  BY DEF IsRooted, Appends
<1>2. w[1] = "/" /\ url[1] = "/"
  BY <1>1 DEF IsRooted
<1> HIDE DEF n
<1>3. EndsAt(w, n + 1) = After(EndsAt(url, n), char)
  <2>1. CASE n = 1
    <3>1. EndsAt(url, n) = "start" /\ n + 1 - 1 = 1
      BY <1>2, <2>1 DEF EndsAt
    <3> QED
      BY <1>1, <1>2, <2>1, <3>1 DEF EndsAt, After
  <2>2. CASE n = 2
    <3>1. n + 1 - 1 = 2 /\ n + 1 - 2 = 1 /\ n - 1 = 1 /\ w[2] = url[2] /\ w[3] = char
      BY <1>1, <2>2
    <3> QED
      BY <1>1, <1>2, <2>2, <3>1 DEF EndsAt, After
  <2>3. CASE n > 2
    <3>1. /\ n + 1 - 1 = n /\ n + 1 - 2 = n - 1
          /\ w[n] = url[n] /\ w[n - 1] = url[n - 1] /\ w[n - 2] = url[n - 2]
      BY <1>1, <2>3
    <3> QED
      BY <1>1, <3>1 DEF EndsAt, After
  <2> QED
    BY <1>1, <2>1, <2>2, <2>3
<1>4. \A i \in 1 .. n : EndsAt(w, i) = EndsAt(url, i)
  <2> TAKE i \in 1 .. n
  <2>1. CASE i = 1
    BY <1>1, <1>2, <2>1 DEF EndsAt
  <2>2. CASE i = 2
    <3>1. i - 1 = 1 /\ w[2] = url[2]
      BY <1>1, <2>2
    <3> QED
      BY <1>1, <1>2, <2>2, <3>1 DEF EndsAt
  <2>3. CASE i > 2
    <3>1. w[i] = url[i] /\ w[i - 1] = url[i - 1] /\ w[i - 2] = url[i - 2]
      BY <1>1, <2>3
    <3> QED
      BY <3>1 DEF EndsAt
  <2> QED
    BY <1>1, <2>1, <2>2, <2>3
<1>5. IsSafeSoFar(w) <=> /\ IsSafeSoFar(url) /\ char \in PathChars
                         /\ char = "/" => EndsAt(url, n) = "word"
  <2>1. \A i \in 1 .. n + 1 : i = n + 1 \/ i \in 1 .. n
    BY <1>1
  <2>2. \A i \in 2 .. n + 1 : i = n + 1 \/ i \in 2 .. n
    BY <1>1
  <2>3. \A i \in 2 .. n : i \in 1 .. n /\ i - 1 \in 1 .. n /\ i \in 2 .. n + 1
    BY <1>1
  <2>4. \A i \in 1 .. n : i \in 1 .. n + 1
    BY <1>1
  <2>5. n + 1 \in 1 .. n + 1 /\ n + 1 \in 2 .. n + 1 /\ n + 1 - 1 = n /\ n \in 1 .. n
    BY <1>1
  <2>6. \A i \in 2 .. n : (w[i] = "/" => EndsAt(w, i - 1) = "word") <=> (url[i] = "/" => EndsAt(url, i - 1) = "word")
    BY <1>1, <1>4, <2>3
  <2>10. PICK m \in 2 .. n + 1 : m = n + 1 /\ m - 1 = n
    BY <2>5
  <2>7. (w[n + 1] = "/" => EndsAt(w, n) = "word") <=> (char = "/" => EndsAt(url, n) = "word")
    BY <1>1, <1>4, <2>5
  <2>8. (\A i \in 2 .. n + 1 : w[i] = "/" => EndsAt(w, i - 1) = "word")
          <=> /\ \A i \in 2 .. n : url[i] = "/" => EndsAt(url, i - 1) = "word"
              /\ char = "/" => EndsAt(url, n) = "word"
    <3>1. ASSUME \A i \in 2 .. n + 1 : w[i] = "/" => EndsAt(w, i - 1) = "word"
          PROVE  /\ \A i \in 2 .. n : url[i] = "/" => EndsAt(url, i - 1) = "word"
                 /\ char = "/" => EndsAt(url, n) = "word"
      <4>1. w[m] = "/" => EndsAt(w, m - 1) = "word"
        BY <2>10, <3>1
      <4>2. ASSUME NEW i \in 2 .. n
            PROVE  url[i] = "/" => EndsAt(url, i - 1) = "word"
        <5>1. i \in 2 .. n + 1
          BY <2>3
        <5>2. w[i] = "/" => EndsAt(w, i - 1) = "word"
          BY <3>1, <5>1
        <5> QED
          BY <2>6, <5>2
      <4> QED
        BY <2>7, <2>10, <4>1, <4>2
    <3>2. ASSUME \A i \in 2 .. n : url[i] = "/" => EndsAt(url, i - 1) = "word",
                 char = "/" => EndsAt(url, n) = "word",
                 NEW i \in 2 .. n + 1
          PROVE  w[i] = "/" => EndsAt(w, i - 1) = "word"
      <4>1. CASE i = n + 1
        <5>1. i = m /\ m - 1 = n
          BY <2>10, <4>1
        <5>2. w[m] = "/" => EndsAt(w, n) = "word"
          BY <2>7, <2>10, <3>2
        <5> QED
          BY <5>1, <5>2
      <4>2. CASE i \in 2 .. n
        <5>1. url[i] = "/" => EndsAt(url, i - 1) = "word"
          BY <3>2, <4>2
        <5> QED
          BY <2>6, <4>2, <5>1
      <4> QED
        BY <2>2, <4>1, <4>2
    <3> QED
      BY <3>1, <3>2
  <2>9. (\A i \in 1 .. n + 1 : w[i] \in PathChars) <=> (\A i \in 1 .. n : url[i] \in PathChars) /\ char \in PathChars
    BY <1>1, <2>1, <2>4, <2>5
  <2> QED
    BY <1>1, <2>8, <2>9 DEF IsSafeSoFar, n
<1> QED
  BY <1>1, <1>2, <1>3, <1>5 DEF IsRooted, Continues, n

LEMMA Chars ==
  /\ SlugChars \subseteq PathChars /\ "." \notin SlugChars /\ "/" \notin SlugChars
  /\ {"/", ".", "i", "h"} \subseteq PathChars
<1>1. Letters = {"a", "b", "c", "s", "i", "h", "u", "A"}
  BY DEF Letters, Lower
<1>2. SlugChars = {"a", "b", "c", "s", "i", "h", "u", "-"}
  <2>1. /\ Lower.a = "a" /\ Lower.b = "b" /\ Lower.c = "c" /\ Lower.s = "s"
        /\ Lower.i = "i" /\ Lower.h = "h" /\ Lower.u = "u" /\ Lower.A = "a"
    BY DEF Lower
  <2>2. {Lower[char] : char \in Letters} = {"a", "b", "c", "s", "i", "h", "u"}
    BY <1>1, <2>1
  <2> QED
    BY <2>2 DEF SlugChars
<1> QED
  BY <1>1, <1>2 DEF PathChars

\* A slug, or a section that is not empty.
IsWords(text) ==
  /\ text \in Seq(SlugChars \cup {"/"}) /\ Len(text) >= 1
  /\ text[1] # "/" /\ text[Len(text)] # "/"
  /\ \A i \in 2 .. Len(text) : text[i] = "/" => text[i - 1] # "/"

LEMMA SlugIsWords ==
  ASSUME NEW text, IsSlug(text)
  PROVE  IsWords(text)
<1>1. text \in Seq(SlugChars) /\ Len(text) \in Nat /\ Len(text) >= 1 /\ \A i \in 1 .. Len(text) : text[i] # "/"
  BY Chars, EmptySeq DEF IsSlug
<1>2. text \in Seq(SlugChars \cup {"/"})
  BY <1>1, SeqMonotonic, SlugChars \subseteq SlugChars \cup {"/"}
<1> QED
  BY <1>1, <1>2 DEF IsWords

LEMMA SectionIsWords ==
  ASSUME NEW text, IsSection(text), text # <<>>
  PROVE  IsWords(text)
<1> DEFINE n == Len(text)
<1>1. text \in Seq(SlugChars \cup {"/"}) /\ n \in Nat /\ n >= 1
  BY EmptySeq DEF IsSection
<1>2. ASSUME NEW i \in 1 .. n + 1, NEW j \in 0 .. n, IsSegment(text, i, j)
      PROVE  i <= j
  <2>1. <<i, j>> \in {at \in (1 .. n + 1) \X (0 .. n) : IsSegment(text, at[1], at[2])}
    BY <1>2
  <2>2. SubSeq(text, i, j) \in Segments(text)
    BY <2>1 DEF Segments
  <2>3. SubSeq(text, i, j) # <<>>
    BY <2>2 DEF IsSection
  <2>4. j < i => SubSeq(text, i, j) = <<>>
    BY SubSeqEmpty
  <2> QED
    BY <2>3, <2>4
<1>3. text[1] # "/"
  <2> SUFFICES ASSUME text[1] = "/"
               PROVE  FALSE
    OBVIOUS
  <2>1. 1 \in 1 .. n + 1 /\ 0 \in 0 .. n /\ IsSegment(text, 1, 0)
    BY <1>1 DEF IsSegment
  <2> QED
    BY <1>2, <2>1
<1>4. text[n] # "/"
  <2> SUFFICES ASSUME text[n] = "/"
               PROVE  FALSE
    OBVIOUS
  <2>1. n + 1 \in 1 .. n + 1 /\ n \in 0 .. n /\ IsSegment(text, n + 1, n)
    BY <1>1 DEF IsSegment
  <2> QED
    BY <1>1, <1>2, <2>1
<1>5. ASSUME NEW i \in 2 .. n, text[i] = "/", text[i - 1] = "/"
      PROVE  FALSE
  <2>1. i \in 1 .. n + 1 /\ i - 1 \in 0 .. n /\ IsSegment(text, i, i - 1)
    BY <1>1, <1>5 DEF IsSegment
  <2> QED
    BY <1>2, <2>1
<1> QED
  BY <1>1, <1>3, <1>4, <1>5 DEF IsWords

LEMMA ConcatAppend ==
  ASSUME NEW C, NEW s \in Seq(C), NEW t \in Seq(C), NEW c \in C
  PROVE  s \o (t \o <<c>>) = Append(s \o t, c)
<1>1. (s \o t) \o <<c>> = s \o (t \o <<c>>)
  BY ConcatAssociative
<1>2. s \o t \in Seq(C)
  BY ConcatProperties
<1> QED
  BY <1>1, <1>2

LEMMA WordsEnd ==
  ASSUME NEW C, NEW url \in Seq(C), IsRooted(url), NEW text \in Seq(C), IsWords(text),
         NEW w, w = url \o text
  PROVE  /\ w \in Seq(C) /\ IsRooted(w) /\ Len(w) = Len(url) + Len(text)
         /\ EndsAt(w, Len(w)) = "word"
         /\ IsSafeSoFar(w) <=> IsSafeSoFar(url)
<1> DEFINE n == Len(text)
           part(k) == url \o SubSeq(text, 1, k)
           Holds(k) == /\ part(k) \in Seq(C) /\ IsRooted(part(k))
                       /\ IsSafeSoFar(part(k)) <=> IsSafeSoFar(url)
                       /\ k >= 1 => EndsAt(part(k), Len(part(k))) = IF text[k] = "/" THEN "start" ELSE "word"
           K == {k \in Nat : k <= n => Holds(k)}
<1>1. /\ n \in Nat /\ n >= 1 /\ text[1] # "/" /\ text[n] # "/"
      /\ \A i \in 2 .. n : text[i] = "/" => text[i - 1] # "/"
      /\ \A i \in 1 .. n : text[i] \in SlugChars \cup {"/"} /\ text[i] \in C
  BY DEF IsWords
<1>2. 0 \in K
  <2>1. part(0) = url
    BY SubSeqEmpty, ConcatEmptySeq
  <2>2. url \in Seq(C) /\ IsRooted(url) /\ ~(0 >= 1)
    OBVIOUS
  <2>3. Holds(0)
    BY <2>1, <2>2, Zenon
  <2> HIDE DEF Holds
  <2> QED
    BY <2>3
<1>3. ASSUME NEW k \in K
      PROVE  k + 1 \in K
  <2>1. CASE k + 1 <= n
    <3> DEFINE char == text[k + 1]
    <3>1. k \in Nat /\ k <= n /\ k + 1 \in 1 .. n /\ k + 1 - 1 = k /\ Holds(k)
      BY <1>1, <2>1
    <3>2. part(k + 1) = Append(part(k), char)
      <4>1. SubSeq(text, 1, k + 1) = SubSeq(text, 1, k) \o <<char>>
        BY <1>1, <3>1, SubSeqRecursiveSecond
      <4>2. SubSeq(text, 1, k) \in Seq(C) /\ char \in C
        BY <1>1, <3>1
      <4>3. PICK s \in Seq(C) : s = SubSeq(text, 1, k)
        BY <4>2
      <4>4. url \o (s \o <<char>>) = Append(url \o s, char)
        <5> HIDE DEF char
        <5> QED
          BY <4>2, ConcatAppend
      <4> QED
        BY <4>1, <4>3, <4>4
    <3>3. PICK a : a = part(k)
      OBVIOUS
    <3>4. PICK b : b = part(k + 1)
      OBVIOUS
    <3>5. /\ a \in Seq(C) /\ IsRooted(a) /\ char \in C /\ b = Append(a, char)
      BY <1>1, <3>1, <3>2, <3>3, <3>4
    <3>6. /\ b \in Seq(C) /\ IsRooted(b)
          /\ EndsAt(b, Len(b)) = After(EndsAt(a, Len(a)), char)
          /\ IsSafeSoFar(b) <=> /\ IsSafeSoFar(a) /\ char \in PathChars
                                /\ char = "/" => EndsAt(a, Len(a)) = "word"
      <4>1. Appends(b, a, char)
        BY <3>5 DEF Appends
      <4>2. Continues(b, a, char)
        <5> HIDE DEF char
        <5> QED
          BY <3>5, <4>1, AppendEnds
      <4>3. b \in Seq(C)
        BY <3>5
      <4> QED
        BY <4>2, <4>3 DEF Continues
    <3>7. char \in PathChars /\ char # "."
      BY <1>1, <3>1, Chars
    <3>8. char = "/" => k >= 1 /\ text[k] # "/"
      <4> SUFFICES ASSUME char = "/"
                   PROVE  k >= 1 /\ text[k] # "/"
        OBVIOUS
      <4>1. k # 0
        BY <1>1
      <4>2. k + 1 \in 2 .. n
        BY <3>1, <4>1
      <4>3. PICK i \in 2 .. n : i = k + 1 /\ i - 1 = k
        BY <3>1, <4>2
      <4>4. text[i] = "/" => text[i - 1] # "/"
        BY <1>1
      <4> QED
        BY <3>1, <4>1, <4>3, <4>4
    <3>9. char = "/" => EndsAt(a, Len(a)) = "word"
      BY <3>1, <3>3, <3>8
    <3>10. IsSafeSoFar(b) <=> IsSafeSoFar(url)
      BY <3>1, <3>3, <3>6, <3>7, <3>9
    <3>11. EndsAt(b, Len(b)) = IF char = "/" THEN "start" ELSE "word"
      BY <3>6, <3>7 DEF After
    <3>12. Holds(k + 1)
      BY <3>4, <3>6, <3>10, <3>11
    <3> HIDE DEF Holds
    <3> QED
      BY <3>1, <3>12
  <2>2. CASE ~(k + 1 <= n)
    <3> HIDE DEF Holds
    <3> QED
      BY <2>2
  <2> QED
    BY <2>1, <2>2
<1> HIDE DEF K
<1>4. n \in K
  <2>1. K \in SUBSET Nat
    BY DEF K
  <2> QED
    BY <1>1, <1>2, <1>3, <2>1, SetInduction
<1>5. Holds(n)
  <2> HIDE DEF Holds
  <2> QED
    BY <1>1, <1>4 DEF K
<1>6. part(n) = w
  BY SubSeqFull
<1>7. Len(w) = Len(url) + Len(text)
  BY ConcatProperties
<1> QED
  BY <1>1, <1>5, <1>6, <1>7

\* Two expansions of one pattern go through the same states as long as one
\* section is empty just when the other is.
AreAlike(url, w) ==
  /\ IsRooted(url) /\ IsRooted(w)
  /\ EndsAt(url, Len(url)) = EndsAt(w, Len(w))
  /\ IsSafeSoFar(url) <=> IsSafeSoFar(w)

AreEntries(section, slug, section2, slug2) ==
  /\ section = <<>> <=> section2 = <<>>
  /\ section # <<>> => IsWords(section) /\ IsWords(section2)
  /\ IsWords(slug) /\ IsWords(slug2)

LEMMA EndsInSeparator ==
  ASSUME NEW C, NEW url \in Seq(C), IsRooted(url)
  PROVE  /\ Len(url) \in Nat /\ Last(url) = url[Len(url)]
         /\ Last(url) = "/" <=> EndsAt(url, Len(url)) = "start"
BY DEF IsRooted, EndsAt, Last

LEMMA TokensAlike ==
  ASSUME NEW C, NEW url \in Seq(C), NEW w \in Seq(C), AreAlike(url, w), NEW token \in C,
         NEW section \in Seq(C), NEW slug \in Seq(C), NEW section2 \in Seq(C), NEW slug2 \in Seq(C),
         AreEntries(section, slug, section2, slug2)
  PROVE  AreAlike(AppendToken(url, token, section, slug), AppendToken(w, token, section2, slug2))
<1>0. IsRooted(url) /\ IsRooted(w)
  BY DEF AreAlike
<1>1. ASSUME NEW a \in Seq(C), NEW b \in Seq(C), IsWords(a), IsWords(b)
      PROVE  AreAlike(url \o a, w \o b)
  <2>1. PICK x : x = url \o a
    OBVIOUS
  <2>2. PICK y : y = w \o b
    OBVIOUS
  <2>3. IsRooted(x) /\ EndsAt(x, Len(x)) = "word" /\ (IsSafeSoFar(x) <=> IsSafeSoFar(url))
    BY <1>0, <1>1, <2>1, WordsEnd
  <2>4. IsRooted(y) /\ EndsAt(y, Len(y)) = "word" /\ (IsSafeSoFar(y) <=> IsSafeSoFar(w))
    BY <1>0, <1>1, <2>2, WordsEnd
  <2> QED
    BY <2>1, <2>2, <2>3, <2>4 DEF AreAlike
<1>2. CASE token = "{slug}"
  BY <1>1, <1>2 DEF AppendToken, ExpandToken, AreEntries
<1>3. CASE token = "{section}"
  <2>1. CASE section = <<>>
    <3>1. url \o section = url /\ w \o section2 = w
      BY <2>1, ConcatEmptySeq DEF AreEntries
    <3> QED
      BY <1>3, <3>1 DEF AppendToken, ExpandToken
  <2>2. CASE section # <<>>
    BY <1>1, <1>3, <2>2 DEF AppendToken, ExpandToken, AreEntries
  <2> QED
    BY <2>1, <2>2
<1>4. CASE token \notin {"{slug}", "{section}"}
  <2>1. Last(url) = "/" <=> Last(w) = "/"
    BY <1>0, EndsInSeparator DEF AreAlike
  <2>2. CASE token = "/" /\ Last(url) = "/"
    BY <1>4, <2>1, <2>2 DEF AppendToken
  <2>3. CASE ~(token = "/" /\ Last(url) = "/")
    <3>1. PICK x : x = Append(url, token)
      OBVIOUS
    <3>2. PICK y : y = Append(w, token)
      OBVIOUS
    <3>3. /\ IsRooted(x) /\ EndsAt(x, Len(x)) = After(EndsAt(url, Len(url)), token)
          /\ IsSafeSoFar(x) <=> /\ IsSafeSoFar(url) /\ token \in PathChars
                                /\ token = "/" => EndsAt(url, Len(url)) = "word"
      <4>1. Appends(x, url, token)
        BY <3>1 DEF Appends
      <4>2. Continues(x, url, token)
        BY <1>0, <4>1, AppendEnds
      <4> QED
        BY <4>2 DEF Continues
    <3>4. /\ IsRooted(y) /\ EndsAt(y, Len(y)) = After(EndsAt(w, Len(w)), token)
          /\ IsSafeSoFar(y) <=> /\ IsSafeSoFar(w) /\ token \in PathChars
                                /\ token = "/" => EndsAt(w, Len(w)) = "word"
      <4>1. Appends(y, w, token)
        BY <3>2 DEF Appends
      <4>2. Continues(y, w, token)
        BY <1>0, <4>1, AppendEnds
      <4> QED
        BY <4>2 DEF Continues
    <3>5. AreAlike(x, y)
      BY <3>3, <3>4 DEF AreAlike
    <3> QED
      BY <1>4, <2>1, <2>3, <3>1, <3>2, <3>5 DEF AppendToken
  <2> QED
    BY <2>2, <2>3
<1> QED
  BY <1>2, <1>3, <1>4

LEMMA ShortTexts ==
  ASSUME NEW C, NEW s \in Seq(C)
  PROVE  /\ (s = <<".">>) <=> (Len(s) = 1 /\ s[1] = ".")
         /\ (s = <<".", ".">>) <=> (Len(s) = 2 /\ s[1] = "." /\ s[2] = ".")
<1> DEFINE D == C \cup {"."}
<1>1. s \in Seq(D) /\ <<".">> \in Seq(D) /\ <<".", ".">> \in Seq(D)
  <2>1. s \in Seq(D)
    BY SeqMonotonic, C \subseteq D
  <2>2. "." \in D
    OBVIOUS
  <2> HIDE DEF D
  <2> QED
    BY <2>1, <2>2
<1>2. Len(<<".">>) = 1 /\ <<".">>[1] = "." /\ Len(<<".", ".">>) = 2 /\ <<".", ".">>[1] = "." /\ <<".", ".">>[2] = "."
  OBVIOUS
<1>3. ASSUME Len(s) = 1, s[1] = "."
      PROVE  s = <<".">>
  <2>1. \A i \in 1 .. Len(s) : s[i] = <<".">>[i]
    BY <1>3
  <2> HIDE DEF D
  <2> QED
    BY <1>1, <1>2, <1>3, <2>1, SeqEqual
<1>4. ASSUME Len(s) = 2, s[1] = ".", s[2] = "."
      PROVE  s = <<".", ".">>
  <2>1. \A i \in 1 .. Len(s) : s[i] = <<".", ".">>[i]
    BY <1>4
  <2> HIDE DEF D
  <2> QED
    BY <1>1, <1>2, <1>4, <2>1, SeqEqual
<1> QED
  BY <1>2, <1>3, <1>4

LEMMA SafeIs ==
  ASSUME NEW C, NEW url \in Seq(C), IsRooted(url)
  PROVE  IsSafeRelative(Tail(url)) <=> IsSafeSoFar(url) /\ EndsAt(url, Len(url)) = "word"
<1> DEFINE n == Len(url)
<1>0. PICK path : path = Tail(url)
  OBVIOUS
<1>1. /\ n \in Nat /\ n >= 1 /\ url[1] = "/" /\ url # <<>>
      /\ path \in Seq(C) /\ Len(path) = n - 1
      /\ \A k \in 1 .. n - 1 : path[k] = url[k + 1]
  <2>1. url # <<>> /\ n \in Nat /\ n >= 1 /\ url[1] = "/"
    BY DEF IsRooted
  <2> QED
    BY <1>0, <2>1, HeadTailProperties
<1> HIDE DEF n
<1>2. "/" \in PathChars
  BY Chars
<1>3. (ToSet(path) \subseteq PathChars) <=> (\A i \in 1 .. n : url[i] \in PathChars)
  <2>1. ToSet(path) = {path[k] : k \in 1 .. n - 1}
    <3>1. DOMAIN path = 1 .. n - 1
      BY <1>1, LenProperties
    <3> QED
      BY <3>1 DEF ToSet
  <2>2. \A k \in 1 .. n - 1 : k + 1 \in 1 .. n
    BY <1>1
  <2>3. \A i \in 1 .. n : i = 1 \/ (i - 1 \in 1 .. n - 1 /\ i - 1 + 1 = i)
    BY <1>1
  <2>4. ASSUME ToSet(path) \subseteq PathChars, NEW i \in 1 .. n
        PROVE  url[i] \in PathChars
    <3>1. CASE i = 1
      BY <1>1, <1>2, <3>1
    <3>2. CASE i # 1
      <4>1. PICK k \in 1 .. n - 1 : k + 1 = i
        BY <2>3, <3>2
      <4> QED
        BY <1>1, <2>1, <2>4, <4>1
    <3> QED
      BY <3>1, <3>2
  <2>5. ASSUME \A i \in 1 .. n : url[i] \in PathChars, NEW k \in 1 .. n - 1
        PROVE  path[k] \in PathChars
    BY <1>1, <2>2, <2>5
  <2> QED
    BY <2>1, <2>4, <2>5
\* A segment from i to j of the path stands from i + 1 to j + 1 of the URL.
<1>4. ASSUME NEW i \in 1 .. n, NEW j \in 0 .. n - 1
      PROVE  IsSegment(path, i, j) <=>
               /\ i <= j + 1 /\ url[i] = "/" /\ (j = n - 1 \/ url[j + 2] = "/")
               /\ \A k \in i .. j : url[k + 1] # "/"
  <2>1. i - 1 \in 0 .. n - 1 /\ (i # 1 => path[i - 1] = url[i])
    <3>1. CASE i # 1
      <4>1. i - 1 \in 1 .. n - 1 /\ i - 1 + 1 = i
        BY <1>1, <3>1
      <4> QED
        BY <1>1, <4>1
    <3> QED
      BY <1>1, <3>1
  <2>2. j # n - 1 => path[j + 1] = url[j + 2]
    <3>1. CASE j # n - 1
      <4>1. j + 1 \in 1 .. n - 1 /\ j + 1 + 1 = j + 2
        BY <1>1, <3>1
      <4> QED
        BY <1>1, <4>1
    <3> QED
      BY <3>1
  <2>3. \A k \in i .. j : path[k] = url[k + 1]
    <3>1. \A k \in i .. j : k \in 1 .. n - 1
      BY <1>1
    <3> QED
      BY <1>1, <3>1
  <2> QED
    BY <1>1, <2>1, <2>2, <2>3 DEF IsSegment
<1>5. \A i \in 1 .. n : \A j \in 0 .. n - 1 : IsSegment(path, i, j) => SubSeq(path, i, j) \in Segments(path)
  <2>1. Len(path) + 1 = n
    BY <1>1
  <2>2. ASSUME NEW i \in 1 .. n, NEW j \in 0 .. n - 1, IsSegment(path, i, j)
        PROVE  SubSeq(path, i, j) \in Segments(path)
    <3>1. <<i, j>> \in {at \in (1 .. Len(path) + 1) \X (0 .. Len(path)) : IsSegment(path, at[1], at[2])}
      BY <1>1, <2>1, <2>2
    <3>2. PICK at \in {at \in (1 .. Len(path) + 1) \X (0 .. Len(path)) : IsSegment(path, at[1], at[2])} :
            at[1] = i /\ at[2] = j
      BY <3>1
    <3>3. SubSeq(path, at[1], at[2]) \in Segments(path)
      BY DEF Segments
    <3> QED
      BY <3>2, <3>3
  <2> QED
    BY <2>2
<1>6. \A segment \in Segments(path) : \E i \in 1 .. n : \E j \in 0 .. n - 1 :
        IsSegment(path, i, j) /\ segment = SubSeq(path, i, j)
  <2>1. Len(path) + 1 = n
    BY <1>1
  <2> TAKE segment \in Segments(path)
  <2>2. PICK at \in (1 .. Len(path) + 1) \X (0 .. Len(path)) : IsSegment(path, at[1], at[2]) /\ segment = SubSeq(path, at[1], at[2])
    BY DEF Segments
  <2>3. at[1] \in 1 .. n /\ at[2] \in 0 .. n - 1
    BY <1>1, <2>1, <2>2
  <2> QED
    BY <2>2, <2>3
\* What a segment is when it is short.
<1>7. ASSUME NEW i \in 1 .. n, NEW j \in 0 .. n - 1, i <= j + 1
      PROVE  /\ (SubSeq(path, i, j) = <<>>) <=> (i = j + 1)
             /\ (SubSeq(path, i, j) = <<".">>) <=> (i = j /\ url[i + 1] = ".")
             /\ (SubSeq(path, i, j) = <<".", ".">>) <=> (i = j - 1 /\ url[i + 1] = "." /\ url[i + 2] = ".")
  <2>1. \A k \in i .. j : k \in 1 .. n - 1 /\ path[k] \in C /\ path[k] = url[k + 1]
    <3>1. \A k \in i .. j : k \in 1 .. n - 1
      BY <1>1
    <3> QED
      BY <1>1, <3>1
  <2>2. PICK s : s = SubSeq(path, i, j)
    OBVIOUS
  <2>3. /\ s \in Seq(C) /\ Len(s) = IF i <= j THEN j - i + 1 ELSE 0
        /\ \A m \in 1 .. j - i + 1 : s[m] = path[i + m - 1]
    BY <2>1, <2>2, SubSeqProperties
  <2>4. (s = <<>>) <=> (i = j + 1)
    BY <1>7, <2>3, EmptySeq
  <2>5. (s = <<".">>) <=> (i = j /\ url[i + 1] = ".")
    <3>1. (s = <<".">>) <=> (Len(s) = 1 /\ s[1] = ".")
      BY <2>3, ShortTexts
    <3>2. Len(s) = 1 <=> i = j
      BY <1>7, <2>3
    <3>3. i = j => s[1] = url[i + 1]
      <4> SUFFICES ASSUME i = j
                   PROVE  s[1] = url[i + 1]
        OBVIOUS
      <4>1. 1 \in 1 .. j - i + 1 /\ i + 1 - 1 = i /\ i \in i .. j
        OBVIOUS
      <4> QED
        BY <2>1, <2>3, <4>1
    <3> QED
      BY <3>1, <3>2, <3>3
  <2>6. (s = <<".", ".">>) <=> (i = j - 1 /\ url[i + 1] = "." /\ url[i + 2] = ".")
    <3>1. (s = <<".", ".">>) <=> (Len(s) = 2 /\ s[1] = "." /\ s[2] = ".")
      BY <2>3, ShortTexts
    <3>2. Len(s) = 2 <=> i = j - 1
      BY <1>7, <2>3
    <3>3. i = j - 1 => s[1] = url[i + 1] /\ s[2] = url[i + 2]
      <4> SUFFICES ASSUME i = j - 1
                   PROVE  s[1] = url[i + 1] /\ s[2] = url[i + 2]
        OBVIOUS
      <4>1. /\ 1 \in 1 .. j - i + 1 /\ 2 \in 1 .. j - i + 1 /\ i + 1 - 1 = i /\ i + 2 - 1 = i + 1
            /\ i \in i .. j /\ i + 1 \in i .. j /\ i + 1 + 1 = i + 2
        OBVIOUS
      <4> QED
        BY <2>1, <2>3, <4>1
    <3> QED
      BY <3>1, <3>2, <3>3
  <2> QED
    BY <2>2, <2>4, <2>5, <2>6
<1>8. ASSUME IsSafeRelative(path)
      PROVE  IsSafeSoFar(url) /\ EndsAt(url, n) = "word"
  <2>1. \A i \in 1 .. n : \A j \in 0 .. n - 1 : IsSegment(path, i, j) =>
          i # j + 1 /\ ~(i = j /\ url[i + 1] = ".") /\ ~(i = j - 1 /\ url[i + 1] = "." /\ url[i + 2] = ".")
    <3> SUFFICES ASSUME NEW i \in 1 .. n, NEW j \in 0 .. n - 1, IsSegment(path, i, j)
                 PROVE  i # j + 1 /\ ~(i = j /\ url[i + 1] = ".") /\ ~(i = j - 1 /\ url[i + 1] = "." /\ url[i + 2] = ".")
      OBVIOUS
    <3>1. SubSeq(path, i, j) \in Segments(path) /\ i <= j + 1
      BY <1>5 DEF IsSegment
    <3>2. /\ SubSeq(path, i, j) # <<>> /\ SubSeq(path, i, j) # <<".">> /\ SubSeq(path, i, j) # <<".", ".">>
      BY <1>8, <3>1 DEF IsSafeRelative, IsDotSegment
    <3> QED
      BY <1>7, <3>1, <3>2
  <2>2. ASSUME NEW m \in 1 .. n, m = n \/ url[m + 1] = "/"
        PROVE  EndsAt(url, m) = "word"
    <3>0. m \in Nat /\ m - 1 \in 0 .. n - 1 /\ m - 1 + 2 = m + 1 /\ (m - 1 = n - 1 <=> m = n)
      BY <1>1
    <3>1. url[m] # "/"
      <4> SUFFICES ASSUME url[m] = "/"
                   PROVE  FALSE
        OBVIOUS
      <4>1. IsSegment(path, m, m - 1)
        <5>1. \A k \in m .. m - 1 : FALSE
          BY <3>0
        <5> QED
          BY <1>4, <2>2, <3>0, <5>1
      <4> QED
        BY <2>1, <3>0, <4>1
    <3>2. ~(url[m] = "." /\ url[m - 1] = "/")
      <4> SUFFICES ASSUME url[m] = ".", url[m - 1] = "/"
                   PROVE  FALSE
        OBVIOUS
      <4>1. PICK i \in 1 .. n : i = m - 1
        BY <1>1, <3>0, <3>1
      <4>2. i \in 0 .. n - 1 /\ i + 2 = m + 1 /\ i + 1 = m /\ (i = n - 1 <=> m = n)
        BY <1>1, <3>0, <4>1
      <4>3. \A k \in i .. i : k = i
        BY <4>2
      <4>4. IsSegment(path, i, i)
        <5>1. i <= i + 1 /\ url[i] = "/" /\ (i = n - 1 \/ url[i + 2] = "/")
          BY <1>1, <2>2, <4>1, <4>2
        <5>2. \A k \in i .. i : url[k + 1] # "/"
          BY <3>1, <4>2, <4>3
        <5> QED
          BY <1>4, <4>2, <5>1, <5>2
      <4> QED
        BY <2>1, <4>2, <4>4
    <3>3. ~(url[m] = "." /\ url[m - 1] = "." /\ url[m - 2] = "/")
      <4> SUFFICES ASSUME url[m] = ".", url[m - 1] = ".", url[m - 2] = "/"
                   PROVE  FALSE
        OBVIOUS
      <4>0. m # 1 /\ m # 2
        BY <1>1
      <4>1. PICK i \in 1 .. n : i = m - 2
        BY <1>1, <3>0, <4>0
      <4>2. PICK j \in 0 .. n - 1 : j = m - 1
        BY <3>0
      <4>3. j + 2 = m + 1 /\ i + 1 = m - 1 /\ i + 2 = m /\ (j = n - 1 <=> m = n) /\ i = j - 1 /\ i <= j + 1
        BY <1>1, <3>0, <4>1, <4>2
      <4>4. \A k \in i .. j : k + 1 = m - 1 \/ k + 1 = m
        BY <3>0, <4>1, <4>2
      <4>5. IsSegment(path, i, j)
        BY <1>4, <2>2, <4>1, <4>2, <4>3, <4>4
      <4> QED
        BY <2>1, <4>3, <4>5
    <3> QED
      BY <3>1, <3>2, <3>3 DEF EndsAt
  <2>3. EndsAt(url, n) = "word"
    BY <1>1, <2>2
  <2>4. ASSUME NEW i \in 2 .. n, url[i] = "/"
        PROVE  EndsAt(url, i - 1) = "word"
    <3>1. PICK m \in 1 .. n : m = i - 1 /\ m + 1 = i
      BY <1>1
    <3> QED
      BY <2>2, <2>4, <3>1
  <2>5. \A i \in 1 .. n : url[i] \in PathChars
    BY <1>3, <1>8 DEF IsSafeRelative
  <2> QED
    BY <2>3, <2>4, <2>5 DEF IsSafeSoFar, n
<1>9. ASSUME IsSafeSoFar(url), EndsAt(url, n) = "word"
      PROVE  IsSafeRelative(path)
  <2>1. ToSet(path) \subseteq PathChars
    BY <1>3, <1>9 DEF IsSafeSoFar, n
  <2>2. \A i \in 1 .. n : \A j \in 0 .. n - 1 : IsSegment(path, i, j) =>
          i # j + 1 /\ ~(i = j /\ url[i + 1] = ".") /\ ~(i = j - 1 /\ url[i + 1] = "." /\ url[i + 2] = ".")
    <3> SUFFICES ASSUME NEW i \in 1 .. n, NEW j \in 0 .. n - 1, IsSegment(path, i, j)
                 PROVE  i # j + 1 /\ ~(i = j /\ url[i + 1] = ".") /\ ~(i = j - 1 /\ url[i + 1] = "." /\ url[i + 2] = ".")
      OBVIOUS
    <3>1. i <= j + 1 /\ url[i] = "/" /\ (j = n - 1 \/ url[j + 2] = "/") /\ \A k \in i .. j : url[k + 1] # "/"
      BY <1>4
    <3>2. EndsAt(url, j + 1) = "word"
      <4>1. CASE j = n - 1
        <5>1. j + 1 = n
          BY <1>1, <4>1
        <5> QED
          BY <1>9, <5>1
      <4>2. CASE j # n - 1
        <5>1. PICK m \in 2 .. n : m = j + 2 /\ m - 1 = j + 1
          BY <1>1, <4>2
        <5>2. url[m] = "/" => EndsAt(url, m - 1) = "word"
          BY <1>9 DEF IsSafeSoFar, n
        <5> QED
          BY <3>1, <4>2, <5>1, <5>2
      <4> QED
        BY <4>1, <4>2
    <3>3. PICK e : e = j + 1
      OBVIOUS
    <3>4. EndsAt(url, e) = "word" /\ e - 1 = j /\ e - 2 = j - 1
      BY <3>2, <3>3
    <3>5. url[e] # "/" /\ ~(url[e] = "." /\ url[e - 1] = "/") /\ ~(url[e] = "." /\ url[e - 1] = "." /\ url[e - 2] = "/")
      BY <3>4 DEF EndsAt
    <3>6. i # j + 1
      BY <3>1, <3>3, <3>5
    <3>7. ~(i = j /\ url[i + 1] = ".")
      BY <3>1, <3>3, <3>4, <3>5
    <3>8. ~(i = j - 1 /\ url[i + 1] = "." /\ url[i + 2] = ".")
      <4> SUFFICES ASSUME i = j - 1, url[i + 1] = ".", url[i + 2] = "."
                   PROVE  FALSE
        OBVIOUS
      <4>1. i + 1 = e - 1 /\ i + 2 = e /\ i = e - 2
        BY <3>3
      <4> QED
        BY <3>1, <3>5, <4>1
    <3> QED
      BY <3>6, <3>7, <3>8
  <2>3. ASSUME NEW segment \in Segments(path)
        PROVE  segment # <<>> /\ ~IsDotSegment(segment)
    <3>1. PICK i \in 1 .. n : \E j \in 0 .. n - 1 : IsSegment(path, i, j) /\ segment = SubSeq(path, i, j)
      BY <1>6
    <3>2. PICK j \in 0 .. n - 1 : IsSegment(path, i, j) /\ segment = SubSeq(path, i, j)
      BY <3>1
    <3>3. i <= j + 1
      BY <3>2 DEF IsSegment
    <3> QED
      BY <1>7, <2>2, <3>2, <3>3 DEF IsDotSegment
  <2> QED
    BY <2>1, <2>3 DEF IsSafeRelative
<1> QED
  BY <1>0, <1>8, <1>9 DEF n

-----------------------------------------------------------------------------
(* What one section and slug show of a pattern, every other shows too. *)
LEMMA ExpansionsAlike ==
  ASSUME NEW C, NEW pattern \in Seq(C),
         NEW section \in Seq(C), NEW slug \in Seq(C), NEW section2 \in Seq(C), NEW slug2 \in Seq(C),
         AreEntries(section, slug, section2, slug2),
         NEW u \in [0 .. Len(pattern) -> Seq(C)], IsExpansion(u, pattern, section, slug),
         NEW v \in [0 .. Len(pattern) -> Seq(C)], IsExpansion(v, pattern, section2, slug2)
  PROVE  \A k \in 0 .. Len(pattern) : AreAlike(u[k], v[k])
<1> DEFINE N == Len(pattern)
           K == {k \in Nat : k \in 0 .. N => AreAlike(u[k], v[k])}
<1>0. N \in Nat
  OBVIOUS
<1>1. 0 \in K
  <2>1. u[0] = <<"/">> /\ v[0] = <<"/">>
    BY DEF IsExpansion
  <2>2. IsRooted(<<"/">>)
    BY DEF IsRooted
  <2> QED
    BY <2>1, <2>2 DEF AreAlike
<1>2. ASSUME NEW k \in K
      PROVE  k + 1 \in K
  <2>1. CASE k + 1 \in 0 .. N
    <3>1. PICK m \in 1 .. N : m = k + 1 /\ m - 1 = k
      BY <1>0, <2>1
    <3>2. k \in 0 .. N /\ m \in 0 .. N /\ pattern[m] \in C
      BY <1>0, <3>1
    <3>3. u[k] \in Seq(C) /\ v[k] \in Seq(C) /\ AreAlike(u[k], v[k])
      BY <3>2
    <3>4. u[m] = AppendToken(u[k], pattern[m], section, slug) /\ v[m] = AppendToken(v[k], pattern[m], section2, slug2)
      BY <3>1 DEF IsExpansion
    <3>5. AreAlike(u[m], v[m])
      BY <3>2, <3>3, <3>4, TokensAlike
    <3> QED
      BY <3>1, <3>5
  <2>2. CASE k + 1 \notin 0 .. N
    BY <2>2
  <2> QED
    BY <2>1, <2>2
<1> HIDE DEF K
<1>3. K = Nat
  <2>1. K \in SUBSET Nat
    BY DEF K
  <2> QED
    BY <1>1, <1>2, <2>1, SetInduction
<1>4. \A k \in 0 .. N : k \in Nat
  BY <1>0
<1> QED
  BY <1>3, <1>4 DEF K

LEMMA AppendedToConcat ==
  \A C : \A s, t \in Seq(C) : \A c \in C : s \o Append(t, c) = Append(s \o t, c)
<1> SUFFICES ASSUME NEW C, NEW s \in Seq(C), NEW t \in Seq(C), NEW c \in C
             PROVE  s \o Append(t, c) = Append(s \o t, c)
  OBVIOUS
<1>1. PICK u \in Seq(C) : u = Append(t, c)
  BY AppendProperties
<1>2. PICK v \in Seq(C) : v = s \o t
  BY ConcatProperties
<1>3. PICK w \in Seq(C) : w = s \o u
  BY ConcatProperties
<1>4. PICK x \in Seq(C) : x = Append(v, c)
  BY AppendProperties
<1>5. Len(w) = Len(x)
  BY <1>1, <1>2, <1>3, <1>4
<1>6. \A i \in 1 .. Len(w) : w[i] = x[i]
  BY <1>1, <1>2, <1>3, <1>4
<1>7. w = x
  BY <1>5, <1>6, SeqEqual
<1> QED
  BY <1>1, <1>2, <1>3, <1>4, <1>7

LEMMA IndexDocument ==
  ASSUME NEW C, {"/", "i", ".", "h"} \subseteq C, NEW url \in Seq(C)
  PROVE  Append(Append(Append(url, "i"), "."), "h") = url \o <<"i", ".", "h">>
<1>0. <<"i">> \in Seq(C) /\ <<"i", ".">> \in Seq(C) /\ <<"i", ".", "h">> \in Seq(C)
  OBVIOUS
<1>1. PICK i \in Seq(C) : i = <<"i">>
  BY <1>0
<1>2. PICK dot \in Seq(C) : dot = <<"i", ".">>
  BY <1>0
<1>3. PICK h \in Seq(C) : h = <<"i", ".", "h">>
  BY <1>0
<1>4. dot = Append(i, ".") /\ h = Append(dot, "h")
  BY <1>1, <1>2, <1>3
<1>5. url \o i = Append(url, "i")
  BY <1>1, AppendIsConcat
<1>6. url \o dot = Append(url \o i, ".")
  BY <1>4, AppendedToConcat
<1>7. url \o h = Append(url \o dot, "h")
  BY <1>4, AppendedToConcat
<1> QED
  BY <1>3, <1>5, <1>6, <1>7

LEMMA CloseIs ==
  ASSUME NEW C, {"/", "i", ".", "h"} \subseteq C, NEW url \in Seq(C), IsRooted(url)
  PROVE  /\ Close(url) \in Seq(C) /\ IsRooted(Close(url))
         /\ IsSafeRelative(Tail(Close(url))) <=> IsSafeSoFar(url) /\ EndsAt(url, Len(url)) \in {"start", "word"}
<1>1. CASE Last(url) = "/"
  <2>1. PICK a \in Seq(C) : a = Append(url, "i")
    BY AppendProperties
  <2>2. PICK b \in Seq(C) : b = Append(a, ".")
    BY AppendProperties
  <2>3. PICK c \in Seq(C) : c = Append(b, "h")
    BY AppendProperties
  <2>4. c = Close(url)
    BY <1>1, <2>1, <2>2, <2>3, IndexDocument DEF Close
  <2>5. Continues(a, url, "i")
    <3>1. Appends(a, url, "i")
      BY <2>1 DEF Appends
    <3> QED
      BY <3>1, AppendEnds
  <2>6. Continues(b, a, ".")
    <3>1. Appends(b, a, ".") /\ IsRooted(a)
      BY <2>2, <2>5 DEF Appends, Continues
    <3> QED
      BY <3>1, AppendEnds
  <2>7. Continues(c, b, "h")
    <3>1. Appends(c, b, "h") /\ IsRooted(b)
      BY <2>3, <2>6 DEF Appends, Continues
    <3> QED
      BY <3>1, AppendEnds
  <2>8. EndsAt(url, Len(url)) = "start"
    BY <1>1, EndsInSeparator
  <2>9. IsRooted(c) /\ EndsAt(c, Len(c)) = "word" /\ (IsSafeSoFar(c) <=> IsSafeSoFar(url))
    BY <2>5, <2>6, <2>7, Chars DEF Continues, After
  <2>10. IsSafeRelative(Tail(c)) <=> IsSafeSoFar(c) /\ EndsAt(c, Len(c)) = "word"
    BY <2>9, SafeIs
  <2> QED
    BY <2>4, <2>8, <2>9, <2>10
<1>2. CASE Last(url) # "/"
  <2>1. Close(url) = url /\ EndsAt(url, Len(url)) # "start"
    BY <1>2, EndsInSeparator DEF Close
  <2> QED
    BY <2>1, SafeIs
<1> QED
  BY <1>1, <1>2

LEMMA SampleVouches ==
  ASSUME NEW C, {"/", "i", ".", "h"} \subseteq C, NEW pattern \in Seq(C),
         NEW section \in Seq(C), NEW slug \in Seq(C), NEW section2 \in Seq(C), NEW slug2 \in Seq(C),
         AreEntries(section, slug, section2, slug2)
  PROVE  /\ Expand(pattern, section, slug)[1] = "/"
         /\ IsSafeRelative(Tail(Expand(pattern, section, slug))) <=> IsSafeRelative(Tail(Expand(pattern, section2, slug2)))
<1>1. PICK u \in [0 .. Len(pattern) -> Seq(C)] :
        IsExpansion(u, pattern, section, slug) /\ Expand(pattern, section, slug) = Close(u[Len(pattern)])
  BY ExpandIs
<1>2. PICK v \in [0 .. Len(pattern) -> Seq(C)] :
        IsExpansion(v, pattern, section2, slug2) /\ Expand(pattern, section2, slug2) = Close(v[Len(pattern)])
  BY ExpandIs
<1>3. Len(pattern) \in 0 .. Len(pattern)
  BY LenProperties
<1>4. AreAlike(u[Len(pattern)], v[Len(pattern)])
  BY <1>1, <1>2, <1>3, ExpansionsAlike
<1>5. PICK a \in Seq(C) : a = u[Len(pattern)]
  BY <1>3
<1>6. PICK b \in Seq(C) : b = v[Len(pattern)]
  BY <1>3
<1>7. IsRooted(a) /\ IsRooted(b) /\ EndsAt(a, Len(a)) = EndsAt(b, Len(b)) /\ (IsSafeSoFar(a) <=> IsSafeSoFar(b))
  BY <1>4, <1>5, <1>6 DEF AreAlike
<1>8. IsRooted(Close(a)) /\ (IsSafeRelative(Tail(Close(a))) <=> IsSafeSoFar(a) /\ EndsAt(a, Len(a)) \in {"start", "word"})
  BY <1>7, CloseIs
<1>9. IsSafeRelative(Tail(Close(b))) <=> IsSafeSoFar(b) /\ EndsAt(b, Len(b)) \in {"start", "word"}
  BY <1>7, CloseIs
<1>10. Expand(pattern, section, slug) = Close(a) /\ Expand(pattern, section2, slug2) = Close(b)
  BY <1>1, <1>2, <1>5, <1>6
<1>11. Close(a)[1] = "/"
  BY <1>8 DEF IsRooted
<1> QED
  BY <1>7, <1>8, <1>9, <1>10, <1>11

-----------------------------------------------------------------------------
(* Two slugs that differ stay apart: the URL of the shorter one is shorter, or *)
(* the URLs are as long and differ.                                            *)
AreApart(url, w, one, other) ==
  \/ Len(one) < Len(other) /\ Len(url) < Len(w)
  \/ Len(one) = Len(other) /\ Len(url) = Len(w) /\ url # w

LEMMA ApartGrows ==
  ASSUME NEW C, NEW url \in Seq(C), NEW w \in Seq(C), NEW one \in Seq(C), NEW other \in Seq(C),
         NEW a \in Seq(C), NEW b \in Seq(C), Len(a) = Len(b) \/ (a = one /\ b = other),
         AreApart(url, w, one, other)
  PROVE  AreApart(url \o a, w \o b, one, other)
<1>1. PICK x \in Seq(C) : x = url \o a
  BY ConcatProperties
<1>2. PICK y \in Seq(C) : y = w \o b
  BY ConcatProperties
<1>3. /\ Len(x) = Len(url) + Len(a) /\ Len(y) = Len(w) + Len(b)
      /\ \A i \in 1 .. Len(url) + Len(a) : i <= Len(url) => x[i] = url[i]
      /\ \A i \in 1 .. Len(w) + Len(b) : i <= Len(w) => y[i] = w[i]
  BY <1>1, <1>2, ConcatProperties
<1>4. /\ Len(url) \in Nat /\ Len(w) \in Nat /\ Len(a) \in Nat /\ Len(b) \in Nat
      /\ Len(one) \in Nat /\ Len(other) \in Nat
  BY LenProperties
<1>5. CASE Len(one) < Len(other) /\ Len(url) < Len(w)
  <2>1. Len(a) <= Len(b)
    BY <1>4, <1>5
  <2>2. Len(x) < Len(y)
    BY <1>3, <1>4, <1>5, <2>1
  <2> QED
    BY <1>1, <1>2, <1>5, <2>2 DEF AreApart
<1>6. CASE Len(one) = Len(other) /\ Len(url) = Len(w) /\ url # w
  <2>1. Len(a) = Len(b)
    BY <1>6
  <2>2. PICK i \in 1 .. Len(url) : url[i] # w[i]
    BY <1>6, SeqEqual
  <2>3. x[i] = url[i] /\ y[i] = w[i]
    BY <1>3, <1>4, <1>6, <2>1
  <2>4. Len(x) = Len(y) /\ x # y
    BY <1>3, <1>6, <2>1, <2>2, <2>3
  <2> QED
    BY <1>1, <1>2, <1>6, <2>4 DEF AreApart
<1> QED
  BY <1>5, <1>6 DEF AreApart

LEMMA SlugsPart ==
  ASSUME NEW C, NEW url \in Seq(C), NEW one \in Seq(C), NEW other \in Seq(C),
         one # other, Len(one) <= Len(other)
  PROVE  AreApart(url \o one, url \o other, one, other)
<1>1. PICK x \in Seq(C) : x = url \o one
  BY ConcatProperties
<1>2. PICK y \in Seq(C) : y = url \o other
  BY ConcatProperties
<1>3. Len(x) = Len(url) + Len(one) /\ Len(y) = Len(url) + Len(other)
  BY <1>1, <1>2, ConcatProperties
<1>4. Len(url) \in Nat /\ Len(one) \in Nat /\ Len(other) \in Nat
  BY LenProperties
<1>5. Len(one) = Len(other) => x # y
  <2> SUFFICES ASSUME Len(one) = Len(other)
               PROVE  x # y
    OBVIOUS
  <2>1. PICK i \in 1 .. Len(one) : one[i] # other[i]
    BY SeqEqual
  <2>2. PICK j \in 1 .. Len(url) + Len(one) : j = Len(url) + i
    <3>1. Len(url) + i \in 1 .. Len(url) + Len(one)
      BY <1>4
    <3> QED
      BY <3>1, Zenon
  <2>3. ~(j <= Len(url)) /\ j - Len(url) = i
    BY <1>4, <2>2
  <2>4. x[j] = one[i]
    BY <1>1, <2>3, ConcatProperties
  <2>5. y[j] = other[i]
    BY <1>2, <2>3, ConcatProperties
  <2> QED
    BY <2>1, <2>4, <2>5
<1>6. AreApart(x, y, one, other)
  <2>1. CASE Len(one) < Len(other)
    <3>1. Len(x) < Len(y)
      BY <1>3, <1>4, <2>1
    <3> QED
      BY <2>1, <3>1 DEF AreApart
  <2>2. CASE Len(one) = Len(other)
    BY <1>3, <1>5, <2>2 DEF AreApart
  <2> QED
    BY <1>4, <2>1, <2>2
<1> QED
  BY <1>1, <1>2, <1>6

Names(pattern, k) == \E j \in 1 .. k : pattern[j] = "{slug}"

\* So far: the same URL as long as no slug was named, and URLs apart after it.
Part(pattern, k, url, w, one, other) ==
  IF Names(pattern, k) THEN AreApart(url, w, one, other) ELSE url = w

Yields(x, url, token, section, slug) == x = AppendToken(url, token, section, slug)

Shows(x, y, token, one, other) == IF token = "{slug}" THEN AreApart(x, y, one, other) ELSE x = y

LEMMA TokenShows ==
  ASSUME NEW C, NEW url \in Seq(C), NEW token \in C,
         NEW section \in Seq(C), NEW one \in Seq(C), NEW other \in Seq(C),
         one # other, Len(one) <= Len(other),
         NEW x, Yields(x, url, token, section, one), NEW y, Yields(y, url, token, section, other)
  PROVE  Shows(x, y, token, one, other)
<1>1. token # "{slug}" => x = y
  BY DEF AppendToken, Yields
<1>2. token = "{slug}" => AreApart(x, y, one, other)
  BY SlugsPart DEF AppendToken, ExpandToken, Yields
<1> QED
  BY <1>1, <1>2 DEF Shows

LEMMA TokenParts ==
  ASSUME NEW C, NEW url \in Seq(C), NEW w \in Seq(C), AreAlike(url, w), NEW token \in C,
         NEW section \in Seq(C), NEW one \in Seq(C), NEW other \in Seq(C), AreApart(url, w, one, other)
  PROVE  AreApart(AppendToken(url, token, section, one), AppendToken(w, token, section, other), one, other)
<1>1. CASE token = "{slug}"
  <2>1. AreApart(url \o one, w \o other, one, other)
    BY ApartGrows
  <2> QED
    BY <1>1, <2>1 DEF AppendToken, ExpandToken
<1>2. CASE token = "{section}"
  <2>1. AreApart(url \o section, w \o section, one, other)
    BY ApartGrows
  <2> QED
    BY <1>2, <2>1 DEF AppendToken, ExpandToken
<1>3. CASE token \notin {"{slug}", "{section}"}
  <2>1. Last(url) = "/" <=> Last(w) = "/"
    BY EndsInSeparator DEF AreAlike
  <2>2. AreApart(Append(url, token), Append(w, token), one, other)
    <3>0. <<token>> \in Seq(C)
      OBVIOUS
    <3>1. PICK a \in Seq(C) : a = <<token>>
      BY <3>0
    <3>2. AreApart(url \o a, w \o a, one, other)
      BY ApartGrows
    <3>3. Append(url, token) = url \o a /\ Append(w, token) = w \o a
      BY <3>1, AppendIsConcat
    <3> QED
      BY <3>2, <3>3
  <2> QED
    BY <1>3, <2>1, <2>2 DEF AppendToken
<1> QED
  BY <1>1, <1>2, <1>3

LEMMA ExpansionsPart ==
  ASSUME NEW C, NEW pattern \in Seq(C),
         NEW section \in Seq(C), NEW one \in Seq(C), NEW other \in Seq(C),
         AreEntries(section, one, section, other), one # other, Len(one) <= Len(other),
         NEW u \in [0 .. Len(pattern) -> Seq(C)], IsExpansion(u, pattern, section, one),
         NEW v \in [0 .. Len(pattern) -> Seq(C)], IsExpansion(v, pattern, section, other)
  PROVE  \A k \in 0 .. Len(pattern) : Part(pattern, k, u[k], v[k], one, other)
<1> DEFINE N == Len(pattern)
           K == {k \in Nat : k \in 0 .. N => Part(pattern, k, u[k], v[k], one, other)}
<1>0. N \in Nat
  OBVIOUS
<1>1. 0 \in K
  <2>1. u[0] = v[0] /\ 1 .. 0 = {}
    BY DEF IsExpansion
  <2>2. Part(pattern, 0, u[0], v[0], one, other)
    BY <2>1 DEF Part, Names
  <2> QED
    BY <2>2
<1>2. ASSUME NEW k \in K
      PROVE  k + 1 \in K
  <2>1. CASE k + 1 \in 0 .. N
    <3>1. PICK m \in 1 .. N : m = k + 1 /\ m - 1 = k
      BY <1>0, <2>1
    <3>2. k \in 0 .. N /\ m \in 0 .. N /\ pattern[m] \in C
      BY <1>0, <3>1
    <3>3. u[k] \in Seq(C) /\ v[k] \in Seq(C) /\ Part(pattern, k, u[k], v[k], one, other)
      BY <3>2
    <3>4. u[m] = AppendToken(u[k], pattern[m], section, one) /\ v[m] = AppendToken(v[k], pattern[m], section, other)
      BY <3>1 DEF IsExpansion
    <3>5. AreAlike(u[k], v[k])
      BY <3>2, ExpansionsAlike
    <3>6. Names(pattern, m) <=> Names(pattern, k) \/ pattern[m] = "{slug}"
      <4>1. \A j \in 1 .. m : j = m \/ j \in 1 .. k
        BY <3>1
      <4>2. m \in 1 .. m /\ \A j \in 1 .. k : j \in 1 .. m
        BY <3>1
      <4> QED
        BY <4>1, <4>2 DEF Names
    <3>7. CASE Names(pattern, k)
      <4>1. AreApart(u[k], v[k], one, other)
        BY <3>3, <3>7 DEF Part
      <4>2. AreApart(AppendToken(u[k], pattern[m], section, one), AppendToken(v[k], pattern[m], section, other), one, other)
        BY <3>2, <3>3, <3>5, <4>1, TokenParts
      <4> QED
        BY <3>1, <3>4, <3>6, <3>7, <4>2 DEF Part
    <3>8. CASE ~Names(pattern, k)
      <4>1. v[k] = u[k]
        BY <3>3, <3>8 DEF Part
      <4>2. PICK url \in Seq(C), token \in C : url = u[k] /\ token = pattern[m]
        BY <3>2, <3>3
      <4>3. PICK x : Yields(x, url, token, section, one)
        BY DEF Yields
      <4>4. PICK y : Yields(y, url, token, section, other)
        BY DEF Yields
      <4>5. Shows(x, y, token, one, other)
        BY <4>3, <4>4, TokenShows
      <4>6. Part(pattern, m, x, y, one, other)
        BY <3>6, <3>8, <4>2, <4>5 DEF Part, Shows
      <4>7. x = u[m] /\ y = v[m]
        BY <3>4, <4>1, <4>2, <4>3, <4>4 DEF Yields
      <4> QED
        BY <3>1, <4>6, <4>7
    <3> QED
      BY <3>7, <3>8
  <2>2. CASE k + 1 \notin 0 .. N
    BY <2>2
  <2> QED
    BY <2>1, <2>2
<1> HIDE DEF K
<1>3. K = Nat
  <2>1. K \in SUBSET Nat
    BY DEF K
  <2> QED
    BY <1>1, <1>2, <2>1, SetInduction
<1>4. \A k \in 0 .. N : k \in Nat
  BY <1>0
<1> QED
  BY <1>3, <1>4 DEF K

\* A pattern names the slug, or gives every slug of a section the same URL.
LEMMA SlugsShow ==
  ASSUME NEW C, {"/", "i", ".", "h"} \subseteq C, NEW pattern \in Seq(C),
         NEW section \in Seq(C), NEW one \in Seq(C), NEW other \in Seq(C),
         AreEntries(section, one, section, other), one # other, Len(one) <= Len(other)
  PROVE  Expand(pattern, section, one) # Expand(pattern, section, other) <=> Names(pattern, Len(pattern))
<1>1. PICK u \in [0 .. Len(pattern) -> Seq(C)] :
        IsExpansion(u, pattern, section, one) /\ Expand(pattern, section, one) = Close(u[Len(pattern)])
  BY ExpandIs
<1>2. PICK v \in [0 .. Len(pattern) -> Seq(C)] :
        IsExpansion(v, pattern, section, other) /\ Expand(pattern, section, other) = Close(v[Len(pattern)])
  BY ExpandIs
<1>3. Len(pattern) \in 0 .. Len(pattern)
  BY LenProperties
<1>4. AreAlike(u[Len(pattern)], v[Len(pattern)])
  BY <1>1, <1>2, <1>3, ExpansionsAlike
<1>5. Part(pattern, Len(pattern), u[Len(pattern)], v[Len(pattern)], one, other)
  BY <1>1, <1>2, <1>3, ExpansionsPart
<1>6. PICK a \in Seq(C) : a = u[Len(pattern)]
  BY <1>3
<1>7. PICK b \in Seq(C) : b = v[Len(pattern)]
  BY <1>3
<1>8. AreAlike(a, b) /\ Part(pattern, Len(pattern), a, b, one, other)
  BY <1>4, <1>5, <1>6, <1>7
<1>9. AreApart(a, b, one, other) => AreApart(Close(a), Close(b), one, other)
  <2>1. Last(a) = "/" <=> Last(b) = "/"
    BY <1>8, EndsInSeparator DEF AreAlike
  <2>2. <<"i", ".", "h">> \in Seq(C)
    OBVIOUS
  <2>3. AreApart(a, b, one, other) => AreApart(a \o <<"i", ".", "h">>, b \o <<"i", ".", "h">>, one, other)
    BY <2>2, ApartGrows
  <2> QED
    BY <2>1, <2>3 DEF Close
<1>10. AreApart(Close(a), Close(b), one, other) => Close(a) # Close(b)
  <2>1. Close(a) \in Seq(C) /\ Close(b) \in Seq(C)
    BY <1>8, CloseIs DEF AreAlike
  <2>2. Len(Close(a)) \in Nat
    BY <2>1, LenProperties
  <2> QED
    BY <2>2 DEF AreApart
<1>11. Expand(pattern, section, one) = Close(a) /\ Expand(pattern, section, other) = Close(b)
  BY <1>1, <1>2, <1>6, <1>7
<1> QED
  BY <1>8, <1>9, <1>10, <1>11 DEF Part

-----------------------------------------------------------------------------
(* The verdict of the four samples. *)
LEMMA Samples ==
  /\ IsWords(<<"s">>) /\ IsWords(<<"s", "-", "a">>) /\ IsWords(<<"s", "-", "b">>)
  /\ <<"s", "-", "a">> # <<"s", "-", "b">> /\ Len(<<"s", "-", "a">>) = 3 /\ Len(<<"s", "-", "b">>) = 3
  /\ <<"s">> # <<>>
  /\ <<"s">> \in Seq(PathChars) /\ <<"s", "-", "a">> \in Seq(PathChars) /\ <<"s", "-", "b">> \in Seq(PathChars)
<1>1. {"s", "-", "a", "b"} \subseteq SlugChars
  <2>1. {"s", "a", "b"} \subseteq Letters /\ Lower.s = "s" /\ Lower.a = "a" /\ Lower.b = "b"
    BY DEF Letters, Lower
  <2>2. \A char \in {"s", "a", "b"} : Lower[char] = char
    BY <2>1
  <2> QED
    BY <2>1, <2>2 DEF SlugChars
<1>2. {"s", "-", "a", "b"} \subseteq PathChars
  BY <1>1, Chars
<1>3. ASSUME NEW C, {"s", "-", "a", "b"} \subseteq C
      PROVE  <<"s">> \in Seq(C) /\ <<"s", "-", "a">> \in Seq(C) /\ <<"s", "-", "b">> \in Seq(C)
  BY <1>3
<1>4. /\ <<"s">> \in Seq(SlugChars \cup {"/"}) /\ <<"s", "-", "a">> \in Seq(SlugChars \cup {"/"})
      /\ <<"s", "-", "b">> \in Seq(SlugChars \cup {"/"})
  <2>1. {"s", "-", "a", "b"} \subseteq SlugChars \cup {"/"}
    BY <1>1
  <2> QED
    BY <1>3, <2>1
<1>5. ASSUME NEW c \in {"a", "b"}
      PROVE  IsWords(<<"s", "-", c>>)
  <2>1. PICK w : w = <<"s", "-", c>>
    OBVIOUS
  <2>2. Len(w) = 3 /\ w[1] = "s" /\ w[2] = "-" /\ w[3] = c
    BY <2>1
  <2>3. \A i \in 2 .. 3 : i = 2 \/ i = 3
    OBVIOUS
  <2>4. w \in Seq(SlugChars \cup {"/"})
    BY <1>4, <2>1
  <2>5. \A i \in 2 .. Len(w) : w[i] # "/"
    BY <2>2, <2>3
  <2> QED
    BY <2>1, <2>2, <2>4, <2>5 DEF IsWords
<1>6. IsWords(<<"s">>)
  <2>1. \A i \in 2 .. 1 : FALSE
    OBVIOUS
  <2> QED
    BY <1>4, <2>1 DEF IsWords
<1>7. <<"s", "-", "a">> # <<"s", "-", "b">> /\ Len(<<"s", "-", "a">>) = 3 /\ Len(<<"s", "-", "b">>) = 3 /\ <<"s">> # <<>>
  OBVIOUS
<1>8. <<"s">> \in Seq(PathChars) /\ <<"s", "-", "a">> \in Seq(PathChars) /\ <<"s", "-", "b">> \in Seq(PathChars)
  BY <1>2, <1>3
<1> QED
  BY <1>5, <1>6, <1>7, <1>8

LEMMA VerdictIs ==
  ASSUME NEW pattern, CheckPermalink(pattern) = "valid"
  PROVE  /\ IsSafeRelative(Tail(Expand(pattern, <<"s">>, <<"s", "-", "a">>)))
         /\ IsSafeRelative(Tail(Expand(pattern, <<>>, <<"s", "-", "a">>)))
         /\ Expand(pattern, <<"s">>, <<"s", "-", "a">>) # Expand(pattern, <<"s">>, <<"s", "-", "b">>)
<1> DEFINE urls == [i \in DOMAIN SectionSamples |-> [j \in DOMAIN SlugSamples |->
                     Expand(pattern, SectionSamples[i], SlugSamples[j])]]
<1>1. /\ DOMAIN SectionSamples = {1, 2} /\ SectionSamples[1] = <<"s">> /\ SectionSamples[2] = <<>>
      /\ DOMAIN SlugSamples = {1, 2} /\ SlugSamples[1] = <<"s", "-", "a">> /\ SlugSamples[2] = <<"s", "-", "b">>
  BY DEF SectionSamples, SlugSamples
<1>2. /\ DOMAIN urls = {1, 2} /\ DOMAIN urls[1] = {1, 2} /\ DOMAIN urls[2] = {1, 2}
      /\ urls[1][1] = Expand(pattern, <<"s">>, <<"s", "-", "a">>) /\ urls[1][2] = Expand(pattern, <<"s">>, <<"s", "-", "b">>)
      /\ urls[2][1] = Expand(pattern, <<>>, <<"s", "-", "a">>)
  BY <1>1
<1>3. /\ ~\E i \in DOMAIN urls : \E j \in DOMAIN urls[i] : ~IsSafeRelative(Tail(urls[i][j]))
      /\ ~\E i \in DOMAIN urls : urls[i][1] = urls[i][2]
  <2> DEFINE unsafe == \E i \in DOMAIN urls : \E j \in DOMAIN urls[i] : ~IsSafeRelative(Tail(urls[i][j]))
             same == \E i \in DOMAIN urls : urls[i][1] = urls[i][2]
  <2>1. CheckPermalink(pattern) = IF unsafe THEN "unsafe" ELSE IF same THEN "not distinct" ELSE "valid"
    BY DEF CheckPermalink
  <2> HIDE DEF unsafe, same
  <2>2. ~unsafe /\ ~same
    BY <2>1
  <2> QED
    BY <2>2 DEF unsafe, same
<1> HIDE DEF urls
<1> QED
  BY <1>2, <1>3

\* The directory of the URL, and the pages of two slugs.
LEMMA VerdictHolds ==
  ASSUME NEW P, NEW pattern \in Seq(P), CheckPermalink(pattern) = "valid",
         NEW section, IsSection(section), NEW one, IsSlug(one), NEW other, IsSlug(other)
  PROVE  /\ Expand(pattern, section, one)[1] = "/"
         /\ IsSafeRelative(Tail(Expand(pattern, section, one)))
         /\ Expand(pattern, section, one) = Expand(pattern, section, other) => one = other
<1> DEFINE C == P \cup PathChars
<1>1. {"/", "i", ".", "h"} \subseteq C /\ SlugChars \cup {"/"} \subseteq C /\ PathChars \subseteq C /\ SlugChars \subseteq C
  BY Chars
<1>2. pattern \in Seq(C)
  BY SeqMonotonic, P \subseteq C
<1>3. section \in Seq(C) /\ one \in Seq(C) /\ other \in Seq(C)
  <2>1. section \in Seq(SlugChars \cup {"/"}) /\ one \in Seq(SlugChars) /\ other \in Seq(SlugChars)
    BY DEF IsSection, IsSlug
  <2> HIDE DEF C
  <2> QED
    BY <1>1, <2>1, SeqMonotonic
<1>4. <<"s">> \in Seq(C) /\ <<"s", "-", "a">> \in Seq(C) /\ <<"s", "-", "b">> \in Seq(C) /\ <<>> \in Seq(C)
  <2> HIDE DEF C
  <2> QED
    BY <1>1, Samples, SeqMonotonic, EmptySeq
<1> HIDE DEF C
<1>5. PICK sample : sample = IF section = <<>> THEN <<>> ELSE <<"s">>
  OBVIOUS
<1>6. AreEntries(section, one, sample, <<"s", "-", "a">>)
  BY <1>5, Samples, SlugIsWords, SectionIsWords DEF AreEntries
<1>7. IsSafeRelative(Tail(Expand(pattern, sample, <<"s", "-", "a">>)))
  BY <1>5, VerdictIs
<1>8. /\ Expand(pattern, section, one)[1] = "/"
      /\ IsSafeRelative(Tail(Expand(pattern, section, one)))
  <2>1. PICK slug \in Seq(C) : slug = <<"s", "-", "a">>
    BY <1>4
  <2>2. sample \in Seq(C) /\ AreEntries(section, one, sample, slug) /\ IsSafeRelative(Tail(Expand(pattern, sample, slug)))
    BY <1>4, <1>5, <1>6, <1>7, <2>1
  <2> QED
    BY <1>1, <1>2, <1>3, <2>2, SampleVouches
<1>9. Names(pattern, Len(pattern))
  <2>1. AreEntries(<<"s">>, <<"s", "-", "a">>, <<"s">>, <<"s", "-", "b">>)
    BY Samples DEF AreEntries
  <2>2. Expand(pattern, <<"s">>, <<"s", "-", "a">>) # Expand(pattern, <<"s">>, <<"s", "-", "b">>)
    BY VerdictIs
  <2>3. PICK a \in Seq(C), b \in Seq(C), s \in Seq(C) : a = <<"s", "-", "a">> /\ b = <<"s", "-", "b">> /\ s = <<"s">>
    BY <1>4
  <2>4. /\ AreEntries(s, a, s, b) /\ a # b /\ Len(a) <= Len(b)
        /\ Expand(pattern, s, a) # Expand(pattern, s, b)
    <3>1. Len(<<"s", "-", "a">>) <= Len(<<"s", "-", "b">>) /\ <<"s", "-", "a">> # <<"s", "-", "b">>
      OBVIOUS
    <3> QED
      BY <2>1, <2>2, <2>3, <3>1
  <2> QED
    BY <1>1, <1>2, <2>4, SlugsShow
<1>10. ASSUME one # other
       PROVE  Expand(pattern, section, one) # Expand(pattern, section, other)
  <2>1. AreEntries(section, one, section, other) /\ AreEntries(section, other, section, one)
    BY SlugIsWords, SectionIsWords DEF AreEntries
  <2>2. Len(one) \in Nat /\ Len(other) \in Nat
    BY <1>3, LenProperties
  <2>3. CASE Len(one) <= Len(other)
    BY <1>1, <1>2, <1>3, <1>9, <1>10, <2>1, <2>3, SlugsShow
  <2>4. CASE Len(other) <= Len(one)
    BY <1>1, <1>2, <1>3, <1>9, <1>10, <2>1, <2>4, SlugsShow
  <2> QED
    BY <2>2, <2>3, <2>4
<1> QED
  BY <1>8, <1>10

-----------------------------------------------------------------------------
(* Loading a config: what each step does to the config and to the log.      *)
IsSeq(s) == s \in Seq(ToSet(s))

Keys(log) == {log[i][1] : i \in DOMAIN log}
Multi == ToSet(Templates) \cup {"frontmatter_ignored_keys"}
Once(log) == \A i, j \in DOMAIN log : log[i][1] = log[j][1] /\ log[i][1] \notin Multi => i = j

IsLoad(l, table) ==
  /\ l = [table |-> table, config |-> l.config, log |-> l.log, rejected |-> l.rejected]
  /\ l.config = [key \in ConfigKeys |-> l.config[key]]
  /\ IsSeq(l.log)

\* A step that leaves a value for a key and reports it, or not.
Moves(l, m, table, key, value, faults) ==
  /\ IsLoad(m, table)
  /\ \A other \in ConfigKeys : m.config[other] = IF other = key THEN value ELSE l.config[other]
  /\ Keys(m.log) = Keys(l.log) \cup faults
  /\ Once(l.log) /\ faults \cap Keys(l.log) \subseteq Multi => Once(m.log)

LEMMA SeqIsSeq ==
  ASSUME NEW S, NEW s \in Seq(S)
  PROVE  IsSeq(s)
<1>1. ToSet(s) = {s[i] : i \in 1 .. Len(s)}
  BY DEF ToSet
<1>2. s \in [1 .. Len(s) -> ToSet(s)] /\ Len(s) \in Nat
  BY <1>1
<1> QED
  BY <1>2 DEF IsSeq

Joins(all, log, reports) == all = log \o reports

AreReports(reports, key) ==
  /\ IsSeq(reports)
  /\ \A i \in DOMAIN reports : reports[i][1] = key
  /\ Len(reports) = 1 \/ (Len(reports) > 1 /\ key \in Multi)

LEMMA ReportsJoin ==
  ASSUME NEW log, IsSeq(log), NEW key, NEW reports, AreReports(reports, key), NEW all, Joins(all, log, reports)
  PROVE  /\ IsSeq(all) /\ Len(all) = Len(log) + Len(reports)
         /\ Keys(all) = Keys(log) \cup {key}
         /\ Once(log) /\ {key} \cap Keys(log) \subseteq Multi => Once(all)
<1>0. /\ IsSeq(reports) /\ \A i \in DOMAIN reports : reports[i][1] = key
      /\ Len(reports) = 1 \/ (Len(reports) > 1 /\ key \in Multi)
  BY DEF AreReports
<1> DEFINE S == ToSet(log) \cup ToSet(reports)
<1>1. log \in Seq(S) /\ reports \in Seq(S)
  <2>1. log \in Seq(ToSet(log)) /\ reports \in Seq(ToSet(reports)) /\ ToSet(log) \subseteq S /\ ToSet(reports) \subseteq S
    BY <1>0 DEF IsSeq
  <2> HIDE DEF S
  <2> QED
    BY <2>1, SeqMonotonic
<1> HIDE DEF S
<1>2. /\ all \in Seq(S) /\ Len(all) = Len(log) + Len(reports)
      /\ \A i \in 1 .. Len(log) + Len(reports) : all[i] = IF i <= Len(log) THEN log[i] ELSE reports[i - Len(log)]
  BY <1>1, ConcatProperties DEF Joins
<1>3. /\ DOMAIN log = 1 .. Len(log) /\ DOMAIN reports = 1 .. Len(reports) /\ DOMAIN all = 1 .. Len(log) + Len(reports)
      /\ Len(log) \in Nat /\ Len(reports) \in Nat
  BY <1>1, <1>2, LenProperties
<1>4. \A i \in DOMAIN log : i \in DOMAIN all /\ all[i] = log[i]
  BY <1>2, <1>3
<1>5. \A i \in DOMAIN all : i \in DOMAIN log \/ (i \notin DOMAIN log /\ all[i][1] = key)
  <2> SUFFICES ASSUME NEW i \in DOMAIN all, i \notin DOMAIN log
               PROVE  all[i][1] = key
    OBVIOUS
  <2>1. PICK j \in DOMAIN reports : j = i - Len(log)
    BY <1>3
  <2>2. ~(i <= Len(log)) /\ i \in 1 .. Len(log) + Len(reports)
    BY <1>3
  <2>3. all[i] = reports[j]
    BY <1>2, <2>1, <2>2
  <2> QED
    BY <1>0, <2>1, <2>3
<1>6. PICK last \in DOMAIN all : last \notin DOMAIN log
  <2>1. Len(log) + 1 \in DOMAIN all /\ Len(log) + 1 \notin DOMAIN log
    BY <1>0, <1>3
  <2> QED
    BY <2>1
<1>7. Keys(all) = Keys(log) \cup {key}
  <2>1. all[last][1] = key
    BY <1>5, <1>6
  <2> QED
    BY <1>4, <1>5, <1>6, <2>1 DEF Keys
<1>8. ASSUME Once(log), {key} \cap Keys(log) \subseteq Multi
      PROVE  Once(all)
  <2> SUFFICES ASSUME NEW i \in DOMAIN all, NEW j \in DOMAIN all, all[i][1] = all[j][1], all[i][1] \notin Multi
               PROVE  i = j
    BY DEF Once
  <2>1. CASE i \in DOMAIN log /\ j \in DOMAIN log
    BY <1>4, <1>8, <2>1 DEF Once
  <2>2. CASE i \in DOMAIN log /\ j \notin DOMAIN log
    <3>1. all[j][1] = key /\ all[i][1] = log[i][1]
      BY <1>4, <1>5, <2>2
    <3>2. key \in Keys(log)
      BY <2>2, <3>1 DEF Keys
    <3> QED
      BY <1>8, <3>1, <3>2
  <2>3. CASE i \notin DOMAIN log /\ j \in DOMAIN log
    <3>1. all[i][1] = key /\ all[j][1] = log[j][1]
      BY <1>4, <1>5, <2>3
    <3>2. key \in Keys(log)
      BY <2>3, <3>1 DEF Keys
    <3> QED
      BY <1>8, <3>1, <3>2
  <2>4. CASE i \notin DOMAIN log /\ j \notin DOMAIN log
    <3>1. all[i][1] = key
      BY <1>5, <2>4
    <3>2. Len(reports) = 1
      BY <1>0, <3>1
    <3>3. i = Len(log) + 1 /\ j = Len(log) + 1
      BY <1>3, <2>4, <3>2
    <3> QED
      BY <3>3
  <2> QED
    BY <2>1, <2>2, <2>3, <2>4
<1>9. IsSeq(all)
  BY <1>2, SeqIsSeq
<1> QED
  BY <1>2, <1>7, <1>8, <1>9

IsReport(report, key) == report[1] = key

LEMMA ReportJoins ==
  ASSUME NEW log, IsSeq(log), NEW key, NEW report, IsReport(report, key), NEW all, Appends(all, log, report)
  PROVE  /\ IsSeq(all) /\ Len(all) = Len(log) + 1
         /\ Keys(all) = Keys(log) \cup {key}
         /\ Once(log) /\ {key} \cap Keys(log) \subseteq Multi => Once(all)
<1>1. PICK reports : reports = <<report>>
  OBVIOUS
<1>2. reports \in Seq({report}) /\ Len(reports) = 1 /\ \A i \in DOMAIN reports : reports[i][1] = key
  BY <1>1 DEF IsReport
<1>3. IsSeq(reports)
  BY <1>2, SeqIsSeq
<1>4. Joins(all, log, reports)
  <2>1. PICK S : log \in Seq(S)
    BY DEF IsSeq
  <2>2. log \in Seq(S \cup {report}) /\ report \in S \cup {report}
    BY <2>1, SeqMonotonic, S \subseteq S \cup {report}
  <2>3. Append(log, report) = log \o <<report>>
    BY <2>2, AppendIsConcat
  <2> QED
    BY <1>1, <2>3 DEF Joins, Appends
<1>5. AreReports(reports, key)
  BY <1>2, <1>3 DEF AreReports
<1>6. /\ IsSeq(all) /\ Len(all) = Len(log) + Len(reports)
      /\ Keys(all) = Keys(log) \cup {key}
      /\ Once(log) /\ {key} \cap Keys(log) \subseteq Multi => Once(all)
  BY <1>4, <1>5, ReportsJoin, Zenon
<1> QED
  BY <1>2, <1>6

\* The three ways to change a load.
IsReported(m, l, key, what) == m = Reported(l, key, what)
IsStored(m, l, key, value) == m = [l EXCEPT !.config[key] = value]
IsRejected(m, l, flag) == m = [l EXCEPT !.rejected = @ \cup {flag}]

IsLonger(m, l) == Len(m.log) > Len(l.log)

LEMMA Reporting ==
  ASSUME NEW table, NEW l, IsLoad(l, table), NEW key, NEW what, NEW m, IsReported(m, l, key, what)
  PROVE  Moves(l, m, table, key, l.config[key], {key}) /\ m.config = l.config /\ IsLonger(m, l)
<1>0. PICK report : report = <<key, what>>
  OBVIOUS
<1>1. PICK log : log = Append(l.log, report)
  OBVIOUS
<1>2. m = [table |-> table, config |-> l.config, log |-> log, rejected |-> l.rejected]
  <2>1. m = [l EXCEPT !.log = log]
    BY <1>0, <1>1, Zenon DEF Reported, IsReported
  <2> QED
    BY <2>1 DEF IsLoad
<1>3. /\ IsSeq(log) /\ Len(log) = Len(l.log) + 1 /\ Keys(log) = Keys(l.log) \cup {key}
      /\ Once(l.log) /\ {key} \cap Keys(l.log) \subseteq Multi => Once(log)
  <2>1. IsSeq(l.log) /\ Appends(log, l.log, report) /\ IsReport(report, key)
    BY <1>0, <1>1 DEF IsLoad, Appends, IsReport
  <2> QED
    BY <2>1, ReportJoins
<1>4. Len(l.log) \in Nat
  BY DEF IsLoad, IsSeq
<1> QED
  BY <1>2, <1>3, <1>4 DEF Moves, IsLoad, IsLonger

LEMMA Storing ==
  ASSUME NEW table, NEW l, IsLoad(l, table), NEW key \in ConfigKeys, NEW value, NEW m, IsStored(m, l, key, value)
  PROVE  Moves(l, m, table, key, value, {}) /\ ~IsLonger(m, l)
<1>1. m = [table |-> table, config |-> [l.config EXCEPT ![key] = value], log |-> l.log, rejected |-> l.rejected]
  BY DEF IsLoad, IsStored
<1>2. [l.config EXCEPT ![key] = value] = [other \in ConfigKeys |-> IF other = key THEN value ELSE l.config[other]]
  BY DEF IsLoad
<1>3. PICK config : config = [other \in ConfigKeys |-> IF other = key THEN value ELSE l.config[other]]
  OBVIOUS
<1>4. m = [table |-> table, config |-> config, log |-> l.log, rejected |-> l.rejected] /\ m.config = config /\ m.log = l.log
  BY <1>1, <1>2, <1>3
<1>5. IsLoad(m, table)
  <2>1. config = [other \in ConfigKeys |-> config[other]]
    BY <1>3
  <2> QED
    BY <1>4, <2>1 DEF IsLoad
<1>6. Len(l.log) \in Nat
  BY DEF IsLoad, IsSeq
<1> QED
  BY <1>3, <1>4, <1>5, <1>6 DEF Moves, IsLonger

LEMMA Rejecting ==
  ASSUME NEW table, NEW l, IsLoad(l, table), NEW flag, NEW m, IsRejected(m, l, flag)
  PROVE  IsLoad(m, table) /\ m.config = l.config /\ m.log = l.log
BY DEF IsLoad, IsRejected

LEMMA Resting ==
  ASSUME NEW table, NEW l, IsLoad(l, table), NEW key, NEW m, IsLoad(m, table), m.config = l.config, m.log = l.log
  PROVE  Moves(l, m, table, key, l.config[key], {}) /\ ~IsLonger(m, l)
<1>1. Len(l.log) \in Nat
  BY DEF IsLoad, IsSeq
<1> QED
  BY <1>1 DEF Moves, IsLonger

LEMMA MovesTwice ==
  ASSUME NEW table, NEW l, NEW m, NEW n, NEW key, NEW one, NEW other, NEW faults, NEW more,
         Moves(l, m, table, key, one, faults), Moves(m, n, table, key, other, more), faults = {} \/ more = {}
  PROVE  Moves(l, n, table, key, other, faults \cup more)
BY DEF Moves

LEMMA Smallest ==
  ASSUME NEW S \in SUBSET Nat, S # {}
  PROVE  \E n \in S : \A m \in S : n <= m
<1> DEFINE R == {ss \in Nat \X Nat : ss[1] < ss[2]}
<1>0. IsWellFoundedOn(R, Nat)
  BY NatLessThanWellFounded, Zenon DEF OpToRel
<1>1. PICK n \in S : \A m \in S : ~ (<<m, n>> \in R)
  <2> HIDE DEF R
  <2> QED
    BY <1>0, WFMin, Zenon
<1>2. ASSUME NEW m \in S
      PROVE  n <= m
  <2>1. n \in Nat /\ m \in Nat
    OBVIOUS
  <2>2. ~ (m < n)
    BY <1>1, <2>1
  <2> QED
    BY <2>1, <2>2
<1> QED
  BY <1>2

LEMMA Trimmed ==
  ASSUME NEW C, NEW text \in Seq(C)
  PROVE  /\ TrimTrailingSlashes(text) \in Seq(C)
         /\ TrimTrailingSlashes(text) # <<>> => Last(TrimTrailingSlashes(text)) # "/"
         /\ text # <<>> /\ Last(text) # "/" => TrimTrailingSlashes(text) = text
<1> DEFINE n == Len(text)
           kept == {i \in 0 .. n : \A j \in i + 1 .. n : text[j] = "/"}
<1>0. n \in Nat
  OBVIOUS
<1>1. n \in kept
  <2>1. \A j \in n + 1 .. n : FALSE
    BY <1>0
  <2> QED
    BY <1>0, <2>1
<1>2. kept \in SUBSET Nat /\ kept # {}
  BY <1>0, <1>1
<1>3. PICK k \in kept : k = (CHOOSE i \in kept : \A j \in kept : i <= j) /\ \A j \in kept : k <= j
  <2> HIDE DEF kept
  <2>1. \E i \in kept : \A j \in kept : i <= j
    BY <1>2, Smallest
  <2> QED
    BY <2>1
<1>4. k \in 0 .. n /\ \A j \in k + 1 .. n : text[j] = "/"
  OBVIOUS
<1>5. PICK t : t = TrimTrailingSlashes(text)
  OBVIOUS
<1>6. t = SubSeq(text, 1, k)
  BY <1>3, <1>5 DEF TrimTrailingSlashes
<1>7. t \in Seq(C) /\ Len(t) = k /\ \A i \in 1 .. k : t[i] = text[i]
  <2>1. \A i \in 1 .. k : text[i] \in C
    BY <1>0, <1>4
  <2>2. /\ SubSeq(text, 1, k) \in Seq(C) /\ Len(SubSeq(text, 1, k)) = IF 1 <= k THEN k - 1 + 1 ELSE 0
        /\ \A i \in 1 .. k - 1 + 1 : SubSeq(text, 1, k)[i] = text[1 + i - 1]
    BY <1>4, <2>1, SubSeqProperties
  <2> QED
    BY <1>4, <1>6, <2>2
<1>8. ASSUME t # <<>>
      PROVE  Last(t) # "/"
  <2>1. k >= 1 /\ Last(t) = text[k] /\ k - 1 \in 0 .. n
    BY <1>4, <1>7, <1>8, EmptySeq DEF Last
  <2>2. k - 1 \notin kept
    <3>1. \A j \in kept : k <= j
      BY <1>3
    <3>2. ~(k <= k - 1)
      BY <1>4
    <3> QED
      BY <3>1, <3>2
  <2>3. PICK j \in k - 1 + 1 .. n : text[j] # "/"
    BY <2>1, <2>2
  <2>4. j = k
    BY <1>4, <2>3
  <2> QED
    BY <2>1, <2>3, <2>4
<1>9. ASSUME text # <<>>, Last(text) # "/"
      PROVE  t = text
  <2>1. n >= 1 /\ text[n] # "/"
    BY <1>9, EmptySeq DEF Last
  <2>2. k = n
    <3>1. CASE k < n
      <4>1. n \in k + 1 .. n
        BY <1>0, <1>4, <3>1
      <4> QED
        BY <1>4, <2>1, <4>1
    <3> QED
      BY <1>4, <3>1
  <2> QED
    BY <1>6, <2>2, SubSeqFull
<1> QED
  BY <1>5, <1>7, <1>8, <1>9

LEMMA DirsAre ==
  /\ Dirs[1] = "content_dir" /\ Dirs[2] = "output_dir" /\ Dirs[3] = "templates_dir" /\ Dirs[4] = "static_dir"
  /\ ToSet(Dirs) = {"content_dir", "output_dir", "templates_dir", "static_dir"}
<1>1. DOMAIN Dirs = {1, 2, 3, 4}
  <2>1. DOMAIN Dirs = 1 .. 4
    BY DEF Dirs
  <2> QED
    BY <2>1
<1>2. Dirs[1] = "content_dir" /\ Dirs[2] = "output_dir" /\ Dirs[3] = "templates_dir" /\ Dirs[4] = "static_dir"
  BY DEF Dirs
<1> QED
  BY <1>1, <1>2 DEF ToSet

LEMMA TemplatesAre ==
  /\ Templates[1] = "aggregate_templates" /\ Templates[2] = "feed_templates"
  /\ ToSet(Templates) = {"aggregate_templates", "feed_templates"}
<1>1. DOMAIN Templates = {1, 2}
  <2>1. DOMAIN Templates = 1 .. 2
    BY DEF Templates
  <2> QED
    BY <2>1
<1>2. Templates[1] = "aggregate_templates" /\ Templates[2] = "feed_templates"
  BY DEF Templates
<1> QED
  BY <1>1, <1>2 DEF ToSet

LEMMA KeysAre ==
  ConfigKeys = {"base_url", "title", "author", "permalink", "content_template", "feed_count", "frontmatter_ignored_keys",
                "content_dir", "output_dir", "templates_dir", "static_dir", "aggregate_templates", "feed_templates"}
BY DirsAre, TemplatesAre DEF ConfigKeys

\* What the defaults are, as the checks see them.
LEMMA DefaultDirs ==
  ASSUME NEW key \in ToSet(Dirs)
  PROVE  TrimTrailingSlashes(Default[key]) = Default[key] /\ Default[key] # <<>> /\ Last(Default[key]) # "/"
<1>1. PICK c \in {"c", "b", "h", "s"} : Default[key] = <<c>>
  <2>1. ToSet(Dirs) = {"content_dir", "output_dir", "templates_dir", "static_dir"}
    BY DirsAre
  <2>2. /\ Default.content_dir = <<"c">> /\ Default.output_dir = <<"b">>
        /\ Default.templates_dir = <<"h">> /\ Default.static_dir = <<"s">>
    BY DEF Default
  <2>3. \E c \in {"c", "b", "h", "s"} : Default[key] = <<c>>
    BY <2>1, <2>2
  <2> QED
    BY <2>3
<1>2. PICK t : t = <<c>>
  OBVIOUS
<1>3. t \in Seq({c}) /\ t # <<>> /\ Last(t) # "/"
  BY <1>2 DEF Last
<1>4. TrimTrailingSlashes(t) = t
  BY <1>3, Trimmed
<1> QED
  BY <1>1, <1>2, <1>3, <1>4

LEMMA DefaultTemplate == IsSafeRelative(Default.content_template)
<1> DEFINE C == {"/", "c", ".", "h"}
<1>1. PICK url : url = <<"/", "c", ".", "h">>
  OBVIOUS
<1>2. /\ url \in Seq(C) /\ Len(url) = 4 /\ url[1] = "/" /\ url[2] = "c" /\ url[3] = "." /\ url[4] = "h" /\ url # <<>>
  BY <1>1
<1>3. IsRooted(url) /\ EndsAt(url, 4) = "word"
  BY <1>2 DEF IsRooted, EndsAt
<1>4. IsSafeSoFar(url)
  <2>1. "c" \in PathChars
    BY DEF PathChars, Letters, Lower
  <2>2. \A i \in 1 .. 4 : i = 1 \/ i = 2 \/ i = 3 \/ i = 4
    OBVIOUS
  <2>3. \A i \in 2 .. 4 : i = 2 \/ i = 3 \/ i = 4
    OBVIOUS
  <2> QED
    BY <1>2, <2>1, <2>2, <2>3, Chars DEF IsSafeSoFar
<1>5. PICK path : path = Tail(url)
  OBVIOUS
<1>6. path \in Seq(C) /\ Len(path) = 3 /\ path[1] = "c" /\ path[2] = "." /\ path[3] = "h"
  <2>1. /\ Tail(url) \in Seq(C) /\ Len(Tail(url)) = Len(url) - 1
        /\ \A i \in 1 .. Len(Tail(url)) : Tail(url)[i] = url[i + 1]
    <3> HIDE DEF C
    <3> QED
      BY <1>2, HeadTailProperties
  <2>2. Len(path) = 3
    BY <1>2, <1>5, <2>1
  <2> QED
    BY <1>2, <1>5, <2>1, <2>2
<1>7. path = <<"c", ".", "h">>
  <2>1. <<"c", ".", "h">> \in Seq(C) /\ Len(<<"c", ".", "h">>) = 3
    OBVIOUS
  <2>2. \A i \in 1 .. Len(path) : path[i] = <<"c", ".", "h">>[i]
    BY <1>6
  <2> HIDE DEF C
  <2> QED
    BY <1>6, <2>1, <2>2, SeqEqual
<1>8. Default.content_template = path
  BY <1>7 DEF Default
<1>9. IsSafeRelative(Tail(url))
  <2> HIDE DEF C
  <2> QED
    BY <1>2, <1>3, <1>4, SafeIs
<1> QED
  BY <1>5, <1>8, <1>9

\* A section of an entry, empty at the root.
IsEntrySection(section) == section = <<>> \/ IsWords(section)

IsDefaultPattern(pattern) ==
  /\ Len(pattern) = 6 /\ pattern[1] = "/" /\ pattern[2] = "{section}" /\ pattern[3] = "/" /\ pattern[4] = "{slug}"
  /\ pattern[5] = "." /\ pattern[6] = "h"

LEMMA DefaultIsSafe ==
  ASSUME NEW C, PathChars \subseteq C, NEW pattern \in Seq(C), IsDefaultPattern(pattern),
         NEW section \in Seq(C), IsEntrySection(section), NEW slug \in Seq(C), IsWords(slug)
  PROVE  IsSafeRelative(Tail(Expand(pattern, section, slug)))
<1>1. /\ Len(pattern) = 6 /\ pattern[1] = "/" /\ pattern[2] = "{section}" /\ pattern[3] = "/" /\ pattern[4] = "{slug}"
      /\ pattern[5] = "." /\ pattern[6] = "h"
  BY DEF IsDefaultPattern
<1>2. {"/", "i", ".", "h"} \subseteq C
  BY Chars
<1>3. PICK u \in [0 .. Len(pattern) -> Seq(C)] :
        IsExpansion(u, pattern, section, slug) /\ Expand(pattern, section, slug) = Close(u[Len(pattern)])
  BY <1>2, ExpandIs
<1>4. u[0] = <<"/">> /\ \A k \in 1 .. 6 : u[k] = AppendToken(u[k - 1], pattern[k], section, slug)
  BY <1>1, <1>3 DEF IsExpansion
<1>5. /\ 1 - 1 = 0 /\ 2 - 1 = 1 /\ 3 - 1 = 2 /\ 4 - 1 = 3 /\ 5 - 1 = 4 /\ 6 - 1 = 5
      /\ 1 \in 1 .. 6 /\ 2 \in 1 .. 6 /\ 3 \in 1 .. 6 /\ 4 \in 1 .. 6 /\ 5 \in 1 .. 6 /\ 6 \in 1 .. 6
  OBVIOUS
<1>6. /\ u[1] = AppendToken(u[0], "/", section, slug) /\ u[2] = AppendToken(u[1], "{section}", section, slug)
      /\ u[3] = AppendToken(u[2], "/", section, slug) /\ u[4] = AppendToken(u[3], "{slug}", section, slug)
      /\ u[5] = AppendToken(u[4], ".", section, slug) /\ u[6] = AppendToken(u[5], "h", section, slug)
  BY <1>1, <1>4, <1>5
<1>7. PICK a : a = <<"/">>
  OBVIOUS
<1>8. a \in Seq(C) /\ IsRooted(a) /\ Last(a) = "/" /\ EndsAt(a, Len(a)) = "start" /\ IsSafeSoFar(a)
  <2>1. Len(a) = 1 /\ a[1] = "/" /\ a \in Seq(C)
    BY <1>2, <1>7
  <2>2. \A i \in 2 .. 1 : FALSE
    OBVIOUS
  <2>3. \A i \in 1 .. 1 : i = 1
    OBVIOUS
  <2>4. IsSafeSoFar(a)
    BY <2>1, <2>2, <2>3, Chars DEF IsSafeSoFar
  <2> QED
    BY <2>1, <2>4 DEF IsRooted, EndsAt, Last
<1>9. u[1] = a
  BY <1>4, <1>6, <1>7, <1>8 DEF AppendToken
<1>10. u[2] = a \o section
  BY <1>6, <1>9 DEF AppendToken, ExpandToken
<1>11. PICK b \in Seq(C) : b = u[3] /\ IsRooted(b) /\ EndsAt(b, Len(b)) = "start" /\ IsSafeSoFar(b)
  <2>1. CASE section = <<>>
    <3>1. u[2] = a
      BY <1>8, <1>10, <2>1, ConcatEmptySeq
    <3>2. u[3] = a
      BY <1>6, <1>8, <3>1 DEF AppendToken
    <3> QED
      BY <1>8, <3>2
  <2>2. CASE IsWords(section)
    <3>1. PICK x : x = a \o section
      OBVIOUS
    <3>2. x \in Seq(C) /\ IsRooted(x) /\ EndsAt(x, Len(x)) = "word" /\ IsSafeSoFar(x)
      BY <1>8, <2>2, <3>1, WordsEnd
    <3>3. Last(x) # "/"
      BY <3>2, EndsInSeparator
    <3>4. PICK y \in Seq(C) : y = Append(x, "/")
      BY <1>2, <3>2, AppendProperties
    <3>5. u[3] = y
      BY <1>6, <1>10, <3>1, <3>3, <3>4 DEF AppendToken
    <3>6. Continues(y, x, "/")
      <4>1. Appends(y, x, "/") /\ "/" \in C
        BY <1>2, <3>4 DEF Appends
      <4> QED
        BY <3>2, <4>1, AppendEnds
    <3>7. IsRooted(y) /\ EndsAt(y, Len(y)) = "start" /\ IsSafeSoFar(y)
      BY <3>2, <3>6, Chars DEF Continues, After
    <3> QED
      BY <3>5, <3>7
  <2> QED
    BY <2>1, <2>2 DEF IsEntrySection
<1>12. PICK c : c = b \o slug
  OBVIOUS
<1>13. c \in Seq(C) /\ IsRooted(c) /\ EndsAt(c, Len(c)) = "word" /\ IsSafeSoFar(c) /\ c = u[4]
  <2>1. c \in Seq(C) /\ IsRooted(c) /\ EndsAt(c, Len(c)) = "word" /\ IsSafeSoFar(c)
    <3>1. IsRooted(b) /\ IsSafeSoFar(b)
      BY <1>11
    <3> QED
      BY <1>12, <3>1, WordsEnd
  <2> QED
    BY <1>6, <1>11, <1>12, <2>1 DEF AppendToken, ExpandToken
<1>14. PICK d \in Seq(C) : d = Append(c, ".")
  BY <1>2, <1>13, AppendProperties
<1>15. IsRooted(d) /\ EndsAt(d, Len(d)) = "word" /\ IsSafeSoFar(d) /\ d = u[5]
  <2>1. Appends(d, c, ".") /\ "." \in C
    BY <1>2, <1>14 DEF Appends
  <2>2. Continues(d, c, ".")
    BY <1>13, <2>1, AppendEnds
  <2> QED
    BY <1>6, <1>13, <1>14, <2>2, Chars DEF Continues, After, AppendToken
<1>16. PICK e \in Seq(C) : e = Append(d, "h")
  BY <1>2, AppendProperties
<1>17. IsRooted(e) /\ EndsAt(e, Len(e)) = "word" /\ IsSafeSoFar(e) /\ e = u[6]
  <2>1. Appends(e, d, "h") /\ "h" \in C
    BY <1>2, <1>16 DEF Appends
  <2>2. Continues(e, d, "h")
    BY <1>15, <2>1, AppendEnds
  <2> QED
    BY <1>6, <1>15, <1>16, <2>2, Chars DEF Continues, After, AppendToken
<1>18. Expand(pattern, section, slug) = Close(e)
  BY <1>1, <1>3, <1>17
<1>19. IsSafeRelative(Tail(Close(e)))
  BY <1>2, <1>17, CloseIs
<1> QED
  BY <1>18, <1>19

LEMMA DefaultPermalink ==
  /\ CheckPermalink(Default.permalink) = "valid"
  /\ Default.permalink \in Seq(PathChars \cup {"{section}", "{slug}"})
<1> DEFINE C == PathChars \cup {"{section}", "{slug}"}
<1>1. Default.permalink \in Seq(C)
  <2>1. Default.permalink = <<"/", "{section}", "/", "{slug}", ".", "h">>
    BY DEF Default
  <2>2. "/" \in C /\ "{section}" \in C /\ "{slug}" \in C /\ "." \in C /\ "h" \in C
    BY Chars
  <2> HIDE DEF C
  <2>3. <<"/", "{section}", "/", "{slug}", ".", "h">> \in Seq(C)
    <3> DEFINE L == {"/", "{section}", "{slug}", ".", "h"}
    <3>1. <<"/", "{section}", "/", "{slug}", ".", "h">> \in Seq(L)
      OBVIOUS
    <3>2. L \subseteq C
      BY <2>2
    <3> HIDE DEF L
    <3> QED
      BY <3>1, <3>2, SeqMonotonic
  <2> QED
    BY <2>1, <2>3, Zenon
<1>2. PICK pattern \in Seq(C) : pattern = Default.permalink
  BY <1>1
<1>3. /\ <<"s">> \in Seq(C) /\ <<"s", "-", "a">> \in Seq(C) /\ <<"s", "-", "b">> \in Seq(C) /\ <<>> \in Seq(C)
      /\ {"/", "i", ".", "h"} \subseteq C
  <2>1. PathChars \subseteq C
    OBVIOUS
  <2> HIDE DEF C
  <2> QED
    BY <2>1, Chars, Samples, SeqMonotonic, EmptySeq
<1>4. PICK a \in Seq(C), b \in Seq(C), s \in Seq(C), e \in Seq(C) :
        a = <<"s", "-", "a">> /\ b = <<"s", "-", "b">> /\ s = <<"s">> /\ e = <<>>
  BY <1>3
<1>5. IsWords(a) /\ IsWords(b) /\ IsWords(s) /\ a # b /\ Len(a) <= Len(b) /\ s # <<>> /\ b # a
  <2> HIDE DEF C
  <2>1. Len(a) = 3 /\ Len(b) = 3
    BY <1>4, Samples
  <2> QED
    BY <1>4, <2>1, Samples
<1>6. PathChars \subseteq C /\ IsDefaultPattern(pattern) /\ IsEntrySection(s) /\ IsEntrySection(e)
  <2>1. IsEntrySection(s) /\ IsEntrySection(e)
    BY <1>4, <1>5 DEF IsEntrySection
  <2>2. pattern = <<"/", "{section}", "/", "{slug}", ".", "h">>
    BY <1>2 DEF Default
  <2> HIDE DEF C
  <2>3. IsDefaultPattern(pattern)
    BY <2>2 DEF IsDefaultPattern
  <2> QED
    BY <2>1, <2>3 DEF C
<1> HIDE DEF C
<1>7. /\ IsSafeRelative(Tail(Expand(pattern, s, a))) /\ IsSafeRelative(Tail(Expand(pattern, s, b)))
      /\ IsSafeRelative(Tail(Expand(pattern, e, a))) /\ IsSafeRelative(Tail(Expand(pattern, e, b)))
  BY <1>5, <1>6, DefaultIsSafe
<1>8. Names(pattern, Len(pattern))
  <2>1. Len(pattern) = 6 /\ pattern[4] = "{slug}"
    BY <1>6 DEF IsDefaultPattern
  <2>2. 4 \in 1 .. 6
    OBVIOUS
  <2> QED
    BY <2>1, <2>2 DEF Names
<1>9. Expand(pattern, s, a) # Expand(pattern, s, b) /\ Expand(pattern, e, a) # Expand(pattern, e, b)
  <2>1. AreEntries(s, a, s, b) /\ AreEntries(e, a, e, b)
    BY <1>4, <1>5 DEF AreEntries
  <2> QED
    BY <1>3, <1>5, <1>8, <2>1, SlugsShow
<1> DEFINE urls == [i \in DOMAIN SectionSamples |-> [j \in DOMAIN SlugSamples |->
                     Expand(pattern, SectionSamples[i], SlugSamples[j])]]
<1>10. /\ DOMAIN SectionSamples = {1, 2} /\ SectionSamples[1] = s /\ SectionSamples[2] = e
       /\ DOMAIN SlugSamples = {1, 2} /\ SlugSamples[1] = a /\ SlugSamples[2] = b
  BY <1>4 DEF SectionSamples, SlugSamples
<1>11. /\ DOMAIN urls = {1, 2} /\ DOMAIN urls[1] = {1, 2} /\ DOMAIN urls[2] = {1, 2}
       /\ urls[1][1] = Expand(pattern, s, a) /\ urls[1][2] = Expand(pattern, s, b)
       /\ urls[2][1] = Expand(pattern, e, a) /\ urls[2][2] = Expand(pattern, e, b)
  BY <1>10
<1> DEFINE unsafe == \E i \in DOMAIN urls : \E j \in DOMAIN urls[i] : ~IsSafeRelative(Tail(urls[i][j]))
           same == \E i \in DOMAIN urls : urls[i][1] = urls[i][2]
<1>12. CheckPermalink(pattern) = IF unsafe THEN "unsafe" ELSE IF same THEN "not distinct" ELSE "valid"
  BY DEF CheckPermalink
<1> HIDE DEF urls
<1>13. ~unsafe /\ ~same
  <2>1. ~same
    BY <1>9, <1>11
  <2>2. \A i \in DOMAIN urls : \A j \in DOMAIN urls[i] : IsSafeRelative(Tail(urls[i][j]))
    BY <1>7, <1>11
  <2> QED
    BY <2>1, <2>2
<1> HIDE DEF unsafe, same
<1>14. CheckPermalink(pattern) = "valid"
  BY <1>12, <1>13
<1> QED
  BY <1>1, <1>2, <1>14 DEF C

-----------------------------------------------------------------------------
(* What each key of a table ends as. *)
IsTable(table) ==
  /\ IsFiniteSet(DOMAIN table)
  /\ \A key \in DOMAIN table : IsValue(table[key])

Final(table, key) ==
  IF key \in DOMAIN table /\ IsRight(key, table[key]) THEN Normalized(key, table[key]) ELSE Default[key]

HasText(table, key) == key \in DOMAIN table /\ table[key][1] = "string"
HasProblem(table, key) == IF key \in DOMAIN table THEN table[key][1] # "string" ELSE key \in Required

Wrongs(table, keys) == {key \in keys : IsWrong(table, key)}
Problems(table, keys) == {key \in keys : HasProblem(table, key)}

LEMMA RightIs ==
  ASSUME NEW key, NEW value
  PROVE  /\ key \in ToSet(Dirs) =>
              /\ IsRight(key, value) <=> value[1] = "string" /\ TrimTrailingSlashes(value[2]) # <<>>
              /\ Normalized(key, value) = TrimTrailingSlashes(value[2])
         /\ key \in ToSet(Templates) =>
              /\ IsRight(key, value) <=> IsNames(value)
              /\ Normalized(key, value) = [i \in DOMAIN value[2] |-> value[2][i][2]]
         /\ key = "base_url" =>
              /\ IsRight(key, value) <=> value[1] = "string" /\ IsValidBaseUrl(value[2])
              /\ Normalized(key, value) = TrimTrailingSlashes(value[2])
         /\ key = "permalink" =>
              /\ IsRight(key, value) <=> value[1] = "string" /\ CheckPermalink(value[2]) = "valid"
              /\ Normalized(key, value) = value[2]
         /\ key = "content_template" =>
              /\ IsRight(key, value) <=> value[1] = "string" /\ IsSafeRelative(value[2])
              /\ Normalized(key, value) = value[2]
         /\ key = "feed_count" =>
              /\ IsRight(key, value) <=> value[1] = "integer" /\ value[2] \in 0 .. FeedCountMax
              /\ Normalized(key, value) = value[2]
         /\ key = "frontmatter_ignored_keys" =>
              /\ IsRight(key, value) <=> IsStrings(value)
              /\ Normalized(key, value) = [i \in DOMAIN value[2] |-> value[2][i][2]]
         /\ key \in {"title", "author"} =>
              /\ IsRight(key, value) <=> value[1] = "string"
              /\ Normalized(key, value) = value[2]
         /\ key \notin ConfigKeys => ~IsRight(key, value)
<1>1. CASE key \in ToSet(Dirs)
  BY <1>1, DirsAre, TemplatesAre, KeysAre DEF IsRight, Normalized, IsDirName, IsText
<1>2. CASE key \in ToSet(Templates)
  BY <1>2, DirsAre, TemplatesAre, KeysAre DEF IsRight, Normalized
<1>3. CASE key = "base_url"
  BY <1>3, DirsAre, TemplatesAre, KeysAre DEF IsRight, Normalized, IsText
<1>4. CASE key = "permalink"
  BY <1>4, DirsAre, TemplatesAre, KeysAre DEF IsRight, Normalized, IsText
<1>5. CASE key = "content_template"
  BY <1>5, DirsAre, TemplatesAre, KeysAre DEF IsRight, Normalized, IsText
<1>6. CASE key = "feed_count"
  BY <1>6, DirsAre, TemplatesAre, KeysAre DEF IsRight, Normalized
<1>7. CASE key = "frontmatter_ignored_keys"
  BY <1>7, DirsAre, TemplatesAre, KeysAre DEF IsRight, Normalized
<1>8. CASE key \in {"title", "author"}
  BY <1>8, DirsAre, TemplatesAre, KeysAre DEF IsRight, Normalized, IsText
<1>9. CASE key \notin ConfigKeys
  BY <1>9, DirsAre, TemplatesAre, KeysAre DEF IsRight
<1> QED
  BY <1>1, <1>2, <1>3, <1>4, <1>5, <1>6, <1>7, <1>8, <1>9, KeysAre, DirsAre, TemplatesAre

TextOf(l, table, key) == IF HasText(table, key) THEN table[key][2] ELSE l.config[key]

LEMMA ProblemIs ==
  ASSUME NEW table, NEW l, IsLoad(l, table), NEW key
  PROVE  StringProblem(l, key) # "none" <=> HasProblem(table, key)
<1>1. l.table = table
  BY DEF IsLoad
<1>2. CASE key \notin DOMAIN table
  <2>1. ~Given(l, key)
    BY <1>1, <1>2 DEF Given
  <2>2. key \in Required => StringProblem(l, key) = "missing"
    BY <2>1 DEF StringProblem
  <2>3. key \notin Required => StringProblem(l, key) = "none"
    BY <2>1 DEF StringProblem
  <2> QED
    BY <1>2, <2>2, <2>3 DEF HasProblem
<1>3. CASE key \in DOMAIN table
  <2>1. StringProblem(l, key) = CASE table[key][1] = "string" -> "none" [] table[key][1] = "nul" -> "nul" [] OTHER -> "type"
    BY <1>1, <1>3 DEF StringProblem, Given
  <2> QED
    BY <1>3, <2>1 DEF HasProblem
<1> QED
  BY <1>2, <1>3

LEMMA CopyingString ==
  ASSUME NEW table, NEW l, IsLoad(l, table), NEW key \in ConfigKeys, NEW m, m = CopyString(l, key)
  PROVE  /\ Moves(l, m, table, key, TextOf(l, table, key), Problems(table, {key}))
         /\ IsLonger(m, l) <=> HasProblem(table, key)
<1>0. l.table = table
  BY DEF IsLoad
<1>1. StringProblem(l, key) # "none" <=> HasProblem(table, key)
  BY ProblemIs
<1>2. CASE HasProblem(table, key)
  <2>1. PICK what : what = StringProblem(l, key)
    OBVIOUS
  <2>2. IsReported(m, l, key, what)
    <3>1. what # "none"
      BY <1>1, <1>2, <2>1
    <3>2. CopyString(l, key) = Reported(l, key, what)
      BY <2>1, <3>1 DEF CopyString
    <3> QED
      BY <3>2 DEF IsReported
  <2>3. Moves(l, m, table, key, l.config[key], {key}) /\ IsLonger(m, l)
    BY <2>2, Reporting
  <2>4. Problems(table, {key}) = {key} /\ TextOf(l, table, key) = l.config[key]
    BY <1>2 DEF Problems, HasText, HasProblem, TextOf
  <2> QED
    BY <1>0, <1>2, <2>3, <2>4
<1>3. CASE ~HasProblem(table, key)
  <2>1. Problems(table, {key}) = {}
    BY <1>3 DEF Problems
  <2>2. CASE key \in DOMAIN table
    <3>1. HasText(table, key)
      BY <1>3, <2>2 DEF HasText, HasProblem
    <3>2. PICK value : value = table[key][2]
      OBVIOUS
    <3>3. IsStored(m, l, key, value)
      BY <1>0, <1>1, <1>3, <2>2, <3>2 DEF CopyString, Given, IsStored
    <3>4. Moves(l, m, table, key, value, {}) /\ ~IsLonger(m, l)
      BY <3>3, Storing
    <3>5. TextOf(l, table, key) = value
      BY <3>1, <3>2 DEF TextOf
    <3> QED
      BY <1>0, <1>3, <2>1, <3>4, <3>5
  <2>3. CASE key \notin DOMAIN table
    <3>1. m = l
      BY <1>0, <1>1, <1>3, <2>3 DEF CopyString, Given
    <3>2. Moves(l, m, table, key, l.config[key], {}) /\ ~IsLonger(m, l)
      BY <3>1, Resting
    <3>3. TextOf(l, table, key) = l.config[key]
      BY <2>3 DEF HasText, TextOf
    <3> QED
      BY <1>0, <1>3, <2>1, <3>1, <3>2, <3>3
  <2> QED
    BY <2>2, <2>3
<1> QED
  BY <1>2, <1>3

LEMMA CopyingDir ==
  ASSUME NEW table, IsTable(table), NEW l, IsLoad(l, table), NEW key \in ToSet(Dirs), l.config[key] = Default[key],
         NEW m, m = CopyDir(l, key)
  PROVE  Moves(l, m, table, key, Final(table, key), Wrongs(table, {key}))
<1>0. key \in ConfigKeys /\ key \notin Required
  BY KeysAre, DirsAre DEF Required
<1>1. PICK copied : copied = CopyString(l, key)
  OBVIOUS
<1>2. /\ Moves(l, copied, table, key, TextOf(l, table, key), Problems(table, {key}))
      /\ IsLonger(copied, l) <=> HasProblem(table, key)
  BY <1>0, <1>1, CopyingString
<1>3. PICK value : value = TrimTrailingSlashes(copied.config[key])
  OBVIOUS
<1>4. m = IF IsLonger(copied, l) THEN [copied EXCEPT !.rejected = @ \cup {key}]
          ELSE IF value = <<>>
          THEN [Reported(copied, key, "empty") EXCEPT !.config[key] = Default[key], !.rejected = @ \cup {key}]
          ELSE [copied EXCEPT !.config[key] = value]
  BY <1>1, <1>3 DEF CopyDir, IsLonger
<1>5. IsLoad(copied, table) /\ copied.config[key] = IF HasText(table, key) THEN table[key][2] ELSE Default[key]
  BY <1>0, <1>2 DEF Moves, TextOf
<1>6. CASE HasProblem(table, key)
  <2>1. IsLoad(m, table) /\ m.config = copied.config /\ m.log = copied.log
    <3>1. IsRejected(m, copied, key)
      <4>1. IsLonger(copied, l)
        BY <1>2, <1>6
      <4>2. m = [copied EXCEPT !.rejected = @ \cup {key}]
        BY <1>4, <4>1
      <4> QED
        BY <4>2 DEF IsRejected
    <3> QED
      BY <1>5, <3>1, Rejecting
  <2>2. Moves(copied, m, table, key, copied.config[key], {})
    BY <1>5, <2>1, Resting
  <2>3. Moves(l, m, table, key, copied.config[key], Problems(table, {key}))
    BY <1>2, <2>2, MovesTwice
  <2>4. Problems(table, {key}) = Wrongs(table, {key}) /\ copied.config[key] = Final(table, key)
    <3>1. key \in DOMAIN table => ~IsRight(key, table[key])
      BY <1>6, RightIs DEF HasProblem
    <3> QED
      BY <1>0, <1>5, <1>6, <3>1 DEF Problems, Wrongs, HasProblem, HasText, IsWrong, Final
  <2> QED
    BY <2>3, <2>4
<1>7. CASE ~HasProblem(table, key) /\ value = <<>>
  <2>1. HasText(table, key) /\ TrimTrailingSlashes(table[key][2]) = <<>>
    <3>1. CASE ~HasText(table, key)
      BY <1>3, <1>5, <1>7, <3>1, DefaultDirs
    <3> QED
      BY <1>3, <1>5, <1>7, <3>1
  <2>2. ~IsRight(key, table[key]) /\ key \in DOMAIN table
    BY <2>1, RightIs DEF HasText
  <2>3. m = [Reported(copied, key, "empty") EXCEPT !.config[key] = Default[key], !.rejected = @ \cup {key}]
    BY <1>2, <1>4, <1>7
  <2>4. PICK n : IsReported(n, copied, key, "empty")
    BY DEF IsReported
  <2>5. PICK k : IsStored(k, n, key, Default[key])
    BY DEF IsStored
  <2>6. IsRejected(m, k, key)
    BY <2>3, <2>4, <2>5, Zenon DEF IsReported, IsStored, IsRejected
  <2>7. Moves(copied, n, table, key, copied.config[key], {key})
    BY <1>5, <2>4, Reporting
  <2>8. Moves(n, k, table, key, Default[key], {})
    <3>1. IsLoad(n, table)
      BY <2>7 DEF Moves
    <3> QED
      BY <1>0, <2>5, <3>1, Storing
  <2>9. Moves(k, m, table, key, k.config[key], {}) /\ k.config[key] = Default[key]
    <3>1. IsLoad(k, table) /\ k.config[key] = Default[key]
      BY <1>0, <2>8 DEF Moves
    <3>2. IsLoad(m, table) /\ m.config = k.config /\ m.log = k.log
      BY <2>6, <3>1, Rejecting
    <3> QED
      BY <3>1, <3>2, Resting
  <2>10. Moves(copied, k, table, key, Default[key], {key})
    <3>1. Moves(copied, k, table, key, Default[key], {key} \cup {})
      BY <2>7, <2>8, MovesTwice
    <3> QED
      BY <3>1
  <2>11. Moves(copied, m, table, key, Default[key], {key})
    <3>1. Moves(copied, m, table, key, k.config[key], {key} \cup {})
      BY <2>9, <2>10, MovesTwice
    <3> QED
      BY <2>9, <3>1
  <2>12. Problems(table, {key}) = {} /\ Wrongs(table, {key}) = {key} /\ Final(table, key) = Default[key]
    BY <1>7, <2>2 DEF Problems, Wrongs, IsWrong, Final
  <2>13. Moves(l, m, table, key, Default[key], {} \cup {key})
    BY <1>2, <2>11, <2>12, MovesTwice
  <2> QED
    BY <2>12, <2>13
<1>8. CASE ~HasProblem(table, key) /\ value # <<>>
  <2>1. IsStored(m, copied, key, value)
    BY <1>2, <1>4, <1>8 DEF IsStored
  <2>2. Moves(copied, m, table, key, value, {})
    BY <1>0, <1>5, <2>1, Storing
  <2>3. Problems(table, {key}) = {}
    BY <1>8 DEF Problems
  <2>4. Moves(l, m, table, key, value, {} \cup {})
    BY <1>2, <2>2, <2>3, MovesTwice
  <2>5. Wrongs(table, {key}) = {} /\ Final(table, key) = value
    <3>1. CASE key \in DOMAIN table
      <4>1. HasText(table, key) /\ value = TrimTrailingSlashes(table[key][2])
        BY <1>3, <1>5, <1>8, <3>1 DEF HasProblem, HasText
      <4>2. IsRight(key, table[key]) /\ Normalized(key, table[key]) = value
        BY <1>8, <4>1, RightIs DEF HasText
      <4> QED
        BY <3>1, <4>2 DEF Wrongs, IsWrong, Final
    <3>2. CASE key \notin DOMAIN table
      <4>1. value = Default[key]
        BY <1>3, <1>5, <3>2, DefaultDirs DEF HasText
      <4> QED
        BY <1>0, <3>2, <4>1 DEF Wrongs, IsWrong, Final
    <3> QED
      BY <3>1, <3>2
  <2> QED
    BY <2>4, <2>5
<1> QED
  BY <1>6, <1>7, <1>8

LEMMA ReportingAndStoring ==
  ASSUME NEW table, NEW l, IsLoad(l, table), NEW key \in ConfigKeys, NEW what, NEW n, IsReported(n, l, key, what),
         NEW value, NEW m, IsStored(m, n, key, value)
  PROVE  Moves(l, m, table, key, value, {key})
<1>1. Moves(l, n, table, key, l.config[key], {key})
  BY Reporting
<1>2. IsLoad(n, table)
  BY <1>1 DEF Moves
<1>3. Moves(n, m, table, key, value, {})
  BY <1>2, Storing
<1>4. Moves(l, m, table, key, value, {key} \cup {})
  BY <1>1, <1>3, MovesTwice
<1> QED
  BY <1>4

\* What copying a text leaves to the check of its content.
Copied(table, key) == IF HasText(table, key) THEN table[key][2] ELSE Default[key]
Unchecked(table, key) == Wrongs(table, {key}) \ Problems(table, {key})

LEMMA NormalizingBaseUrl ==
  ASSUME NEW table, NEW l, IsLoad(l, table), NEW key, key = "base_url", l.config[key] = Copied(table, key),
         ~HasProblem(table, key), NEW m, m = NormalizeBaseUrl(l)
  PROVE  Moves(l, m, table, key, Final(table, key), Unchecked(table, key))
<1>0. key \in ConfigKeys /\ HasText(table, key) /\ Problems(table, {key}) = {} /\ key \in DOMAIN table
  BY KeysAre DEF HasProblem, HasText, Required, Problems
<1>1. PICK value : value = table[key][2]
  OBVIOUS
<1>2. l.config.base_url = value /\ l.config[key] = value
  BY <1>0, <1>1 DEF Copied
<1>3. IsRight(key, table[key]) <=> IsValidBaseUrl(value)
  BY <1>0, <1>1, RightIs DEF HasText
<1>4. Normalized(key, table[key]) = TrimTrailingSlashes(value)
  BY <1>1, RightIs
<1>5. CASE IsValidBaseUrl(value)
  <2>1. IsStored(m, l, key, TrimTrailingSlashes(value))
    BY <1>2, <1>5 DEF NormalizeBaseUrl, IsStored
  <2>2. Moves(l, m, table, key, TrimTrailingSlashes(value), {})
    BY <1>0, <2>1, Storing
  <2>3. Final(table, key) = TrimTrailingSlashes(value) /\ Unchecked(table, key) = {}
    BY <1>0, <1>3, <1>4, <1>5 DEF Final, Unchecked, Wrongs, IsWrong
  <2> QED
    BY <2>2, <2>3
<1>6. CASE ~IsValidBaseUrl(value)
  <2>1. PICK n : IsReported(n, l, key, "invalid")
    BY DEF IsReported
  <2>2. m = [n EXCEPT !.config.base_url = <<>>]
    BY <1>2, <1>6, <2>1 DEF NormalizeBaseUrl, IsReported
  <2>3. IsStored(m, n, key, <<>>)
    BY <2>2 DEF IsStored
  <2>4. Moves(l, m, table, key, <<>>, {key})
    BY <1>0, <2>1, <2>3, ReportingAndStoring
  <2>5. Final(table, key) = Default[key] /\ Unchecked(table, key) = {key}
    BY <1>0, <1>3, <1>6 DEF Final, Unchecked, Wrongs, IsWrong
  <2>6. Default[key] = <<>>
    BY DEF Default
  <2> QED
    BY <2>4, <2>5, <2>6
<1> QED
  BY <1>5, <1>6

LEMMA RequiringContentTemplate ==
  ASSUME NEW table, NEW l, IsLoad(l, table), NEW key, key = "content_template", l.config[key] = Copied(table, key),
         NEW m, m = RequireContentTemplate(l)
  PROVE  Moves(l, m, table, key, Final(table, key), Unchecked(table, key))
<1>0. key \in ConfigKeys /\ key \notin Required
  BY KeysAre DEF Required
<1>1. PICK value : value = Copied(table, key)
  OBVIOUS
<1>2. l.config.content_template = value /\ l.config[key] = value
  BY <1>1
<1>3. HasText(table, key) => (IsRight(key, table[key]) <=> IsSafeRelative(value)) /\ Normalized(key, table[key]) = value
  BY <1>1, RightIs DEF HasText, Copied
<1>4. ~HasText(table, key) => value = Default[key] /\ IsSafeRelative(value) /\ Final(table, key) = Default[key] /\ Unchecked(table, key) = {}
  <2> SUFFICES ASSUME ~HasText(table, key)
               PROVE  value = Default[key] /\ IsSafeRelative(value) /\ Final(table, key) = Default[key] /\ Unchecked(table, key) = {}
    OBVIOUS
  <2>1. value = Default[key]
    BY <1>1 DEF Copied
  <2>2. IsSafeRelative(value)
    BY <2>1, DefaultTemplate
  <2>3. key \in DOMAIN table => ~IsRight(key, table[key]) /\ HasProblem(table, key)
    BY RightIs DEF HasText, HasProblem
  <2> QED
    BY <1>0, <2>1, <2>2, <2>3 DEF Final, Unchecked, Wrongs, Problems, IsWrong
<1>5. CASE IsSafeRelative(value)
  <2>1. m = l
    BY <1>2, <1>5 DEF RequireContentTemplate
  <2>2. Moves(l, m, table, key, l.config[key], {})
    BY <2>1, Resting
  <2>3. Final(table, key) = value /\ Unchecked(table, key) = {}
    BY <1>3, <1>4, <1>5 DEF Final, Unchecked, Wrongs, IsWrong, HasText
  <2> QED
    BY <1>2, <2>2, <2>3
<1>6. CASE ~IsSafeRelative(value)
  <2>0. HasText(table, key)
    BY <1>4, <1>6
  <2>1. PICK n : IsReported(n, l, key, "unsafe")
    BY DEF IsReported
  <2>2. m = [n EXCEPT !.config.content_template = Default.content_template]
    BY <1>2, <1>6, <2>1 DEF RequireContentTemplate, IsReported
  <2>3. IsStored(m, n, key, Default[key])
    BY <2>2 DEF IsStored
  <2>4. Moves(l, m, table, key, Default[key], {key})
    BY <1>0, <2>1, <2>3, ReportingAndStoring
  <2>5. Final(table, key) = Default[key] /\ Unchecked(table, key) = {key}
    BY <1>3, <1>6, <2>0 DEF Final, Unchecked, Wrongs, Problems, IsWrong, HasText, HasProblem
  <2> QED
    BY <2>4, <2>5
<1> QED
  BY <1>5, <1>6

LEMMA RequiringPermalink ==
  ASSUME NEW table, NEW l, IsLoad(l, table), NEW key, key = "permalink", l.config[key] = Copied(table, key),
         NEW m, m = RequireValidPermalink(l)
  PROVE  Moves(l, m, table, key, Final(table, key), Unchecked(table, key))
<1>0. key \in ConfigKeys /\ key \notin Required
  BY KeysAre DEF Required
<1>1. PICK value : value = Copied(table, key)
  OBVIOUS
<1>2. l.config.permalink = value /\ l.config[key] = value
  BY <1>1
<1>3. HasText(table, key) =>
        (IsRight(key, table[key]) <=> CheckPermalink(value) = "valid") /\ Normalized(key, table[key]) = value
  BY <1>1, RightIs DEF HasText, Copied
<1>4. ~HasText(table, key) => /\ value = Default[key] /\ CheckPermalink(value) = "valid"
                              /\ Final(table, key) = Default[key] /\ Unchecked(table, key) = {}
  <2> SUFFICES ASSUME ~HasText(table, key)
               PROVE  /\ value = Default[key] /\ CheckPermalink(value) = "valid"
                      /\ Final(table, key) = Default[key] /\ Unchecked(table, key) = {}
    OBVIOUS
  <2>1. value = Default[key]
    BY <1>1 DEF Copied
  <2>2. CheckPermalink(value) = "valid"
    BY <2>1, DefaultPermalink
  <2>3. key \in DOMAIN table => ~IsRight(key, table[key]) /\ HasProblem(table, key)
    BY RightIs DEF HasText, HasProblem
  <2> QED
    BY <1>0, <2>1, <2>2, <2>3 DEF Final, Unchecked, Wrongs, Problems, IsWrong
<1>5. PICK verdict : verdict = CheckPermalink(value)
  OBVIOUS
<1>6. m = IF verdict = "valid" THEN l
          ELSE [Reported(l, "permalink", verdict)
                EXCEPT !.config.permalink = Default.permalink, !.rejected = @ \cup {OutputKey}]
  BY <1>2, <1>5 DEF RequireValidPermalink
<1>7. CASE verdict = "valid"
  <2>1. m = l
    BY <1>6, <1>7
  <2>2. Moves(l, m, table, key, l.config[key], {})
    BY <2>1, Resting
  <2>3. Final(table, key) = value /\ Unchecked(table, key) = {}
    BY <1>3, <1>4, <1>5, <1>7 DEF Final, Unchecked, Wrongs, IsWrong, HasText
  <2> QED
    BY <1>2, <2>2, <2>3
<1>8. CASE verdict # "valid"
  <2>0. HasText(table, key)
    BY <1>4, <1>5, <1>8
  <2>1. PICK n : IsReported(n, l, key, verdict)
    BY DEF IsReported
  <2>2. PICK k : IsStored(k, n, key, Default[key])
    BY DEF IsStored
  <2>3. IsRejected(m, k, OutputKey)
    <3>1. m = [[Reported(l, "permalink", verdict) EXCEPT !.config.permalink = Default.permalink] EXCEPT !.rejected = @ \cup {OutputKey}]
      BY <1>6, <1>8
    <3> QED
      BY <2>1, <2>2, <3>1, Zenon DEF IsReported, IsStored, IsRejected
  <2>4. Moves(l, k, table, key, Default[key], {key})
    BY <1>0, <2>1, <2>2, ReportingAndStoring
  <2>5. IsLoad(k, table) /\ k.config[key] = Default[key]
    BY <1>0, <2>4 DEF Moves
  <2>6. IsLoad(m, table) /\ m.config = k.config /\ m.log = k.log
    BY <2>3, <2>5, Rejecting
  <2>7. Moves(k, m, table, key, k.config[key], {})
    BY <2>5, <2>6, Resting
  <2>8. Moves(l, m, table, key, k.config[key], {key} \cup {})
    BY <2>4, <2>7, MovesTwice
  <2>9. Final(table, key) = Default[key] /\ Unchecked(table, key) = {key}
    BY <1>3, <1>5, <1>8, <2>0 DEF Final, Unchecked, Wrongs, Problems, IsWrong, HasText, HasProblem
  <2> QED
    BY <2>5, <2>8, <2>9
<1> QED
  BY <1>7, <1>8

LEMMA CopyingSize ==
  ASSUME NEW table, IsTable(table), NEW l, IsLoad(l, table), NEW key, key = "feed_count", l.config[key] = Default[key],
         NEW m, m = CopySize(l, key)
  PROVE  Moves(l, m, table, key, Final(table, key), Wrongs(table, {key}))
<1>0. key \in ConfigKeys /\ key \notin Required /\ l.table = table
  BY KeysAre DEF Required, IsLoad
<1>1. CASE key \notin DOMAIN table
  <2>1. m = l
    BY <1>0, <1>1 DEF CopySize, Given
  <2>2. Moves(l, m, table, key, l.config[key], {})
    BY <2>1, Resting
  <2>3. Final(table, key) = Default[key] /\ Wrongs(table, {key}) = {}
    BY <1>0, <1>1 DEF Final, Wrongs, IsWrong
  <2> QED
    BY <2>2, <2>3
<1>2. CASE key \in DOMAIN table
  <2>1. IsRight(key, table[key]) <=> table[key][1] = "integer" /\ table[key][2] \in 0 .. FeedCountMax
    BY RightIs
  <2>2. Normalized(key, table[key]) = table[key][2]
    BY RightIs
  <2>3. table[key][1] = "integer" => table[key][2] \in Int
    BY <1>2 DEF IsTable, IsValue
  <2>4. CASE table[key][1] = "integer" /\ table[key][2] \in 0 .. FeedCountMax
    <3>1. PICK value : value = table[key][2]
      OBVIOUS
    <3>2. ~(value < 0) /\ ~(value > FeedCountMax)
      BY <2>4, <3>1 DEF FeedCountMax
    <3>3. IsStored(m, l, key, value)
      BY <1>0, <1>2, <2>4, <3>1, <3>2 DEF CopySize, Given, IsStored
    <3>4. Moves(l, m, table, key, value, {})
      BY <1>0, <3>3, Storing
    <3>5. Final(table, key) = value /\ Wrongs(table, {key}) = {}
      BY <1>2, <2>1, <2>2, <2>4, <3>1 DEF Final, Wrongs, IsWrong
    <3> QED
      BY <3>4, <3>5
  <2>5. CASE ~(table[key][1] = "integer" /\ table[key][2] \in 0 .. FeedCountMax)
    <3>1. PICK what : IsReported(m, l, key, what)
      <4>1. table[key][1] = "integer" => table[key][2] < 0 \/ table[key][2] > FeedCountMax
        BY <2>3, <2>5 DEF FeedCountMax
      <4>2. \E what : m = Reported(l, key, what)
        <5>0. PICK value : value = table[key][2]
          OBVIOUS
        <5>1. CASE table[key][1] # "integer"
          BY <1>0, <1>2, <5>1 DEF CopySize, Given
        <5>2. CASE table[key][1] = "integer"
          <6>1. m = CASE value < 0 -> Reported(l, key, "too small")
                      [] value > FeedCountMax -> Reported(l, key, "too large")
                      [] OTHER -> [l EXCEPT !.config[key] = value]
            BY <1>0, <1>2, <5>0, <5>2 DEF CopySize, Given
          <6>2. value \in Int
            BY <2>3, <5>0, <5>2
          <6>3. CASE value < 0
            <7>1. ~(value > FeedCountMax)
              BY <6>2, <6>3 DEF FeedCountMax
            <7>2. m = Reported(l, key, "too small")
              BY <6>1, <6>3, <7>1, Zenon
            <7> QED
              BY <7>2
          <6>4. CASE value > FeedCountMax
            <7>1. ~(value < 0)
              BY <6>2, <6>4 DEF FeedCountMax
            <7>2. m = Reported(l, key, "too large")
              BY <6>1, <6>4, <7>1, Zenon
            <7> QED
              BY <7>2
          <6> QED
            BY <4>1, <5>0, <5>2, <6>3, <6>4
        <5> QED
          BY <5>1, <5>2
      <4> QED
        BY <4>2 DEF IsReported
    <3>2. Moves(l, m, table, key, l.config[key], {key})
      BY <3>1, Reporting
    <3>3. Final(table, key) = Default[key] /\ Wrongs(table, {key}) = {key}
      BY <1>2, <2>1, <2>5 DEF Final, Wrongs, IsWrong
    <3> QED
      BY <3>2, <3>3
  <2> QED
    BY <2>4, <2>5
<1> QED
  BY <1>1, <1>2

\* The list a key gives is right when no item of it has a problem.
Judges(key, names) ==
  \A value : IsRight(key, value) <=> value[1] = "array" /\ \A i \in DOMAIN value[2] : ItemProblem(value[2][i], names) = "none"

LEMMA TemplatesJudge ==
  ASSUME NEW key \in ToSet(Templates)
  PROVE  Judges(key, TRUE)
BY RightIs DEF Judges, IsNames

LEMMA IgnoredKeysJudge == Judges("frontmatter_ignored_keys", FALSE)
<1>1. ASSUME NEW item
      PROVE  ItemProblem(item, FALSE) = "none" <=> item[1] = "string"
  BY DEF ItemProblem
<1>2. ASSUME NEW value
      PROVE  IsRight("frontmatter_ignored_keys", value) <=> value[1] = "array" /\ \A i \in DOMAIN value[2] : IsText(value[2][i])
  BY RightIs DEF IsStrings
<1> QED
  BY <1>1, <1>2 DEF Judges, IsText

LEMMA FunctionIsSeq ==
  ASSUME NEW S, NEW n \in Nat, NEW s \in [1 .. n -> S]
  PROVE  s \in Seq(S) /\ Len(s) = n
OBVIOUS

LEMMA ItemsAreReports ==
  ASSUME NEW key \in Multi, NEW problems, NEW reported, IsFiniteSet(reported), reported # {},
         NEW reports, reports = [k \in 1 .. Cardinality(reported) |-> <<key, problems[Nth(reported, k)]>>]
  PROVE  AreReports(reports, key)
<1>1. PICK n \in Nat : n = Cardinality(reported) /\ n > 0
  <2>1. Cardinality(reported) \in Nat /\ Cardinality(reported) # 0
    BY FS_CardinalityType, FS_EmptySet
  <2> QED
    BY <2>1
<1>2. PICK S : S = {<<key, problems[Nth(reported, k)]>> : k \in 1 .. n}
  OBVIOUS
<1>3. reports \in [1 .. n -> S]
  BY <1>1, <1>2
<1>4. reports \in Seq(S) /\ Len(reports) = n
  BY <1>3, FunctionIsSeq
<1>5. IsSeq(reports)
  BY <1>4, SeqIsSeq
<1>6. \A i \in DOMAIN reports : reports[i][1] = key
  OBVIOUS
<1> QED
  BY <1>1, <1>4, <1>5, <1>6 DEF AreReports

LEMMA ReportingAll ==
  ASSUME NEW table, NEW l, IsLoad(l, table), NEW key, NEW reports, AreReports(reports, key), NEW m, m = ReportedAll(l, reports)
  PROVE  Moves(l, m, table, key, l.config[key], {key})
<1>1. PICK log : log = l.log \o reports
  OBVIOUS
<1>2. m = [table |-> table, config |-> l.config, log |-> log, rejected |-> l.rejected]
  <2>1. m = [l EXCEPT !.log = log]
    BY <1>1, Zenon DEF ReportedAll
  <2> QED
    BY <2>1 DEF IsLoad
<1>3. /\ IsSeq(log) /\ Keys(log) = Keys(l.log) \cup {key}
      /\ Once(l.log) /\ {key} \cap Keys(l.log) \subseteq Multi => Once(log)
  <2>1. IsSeq(l.log) /\ Joins(log, l.log, reports)
    BY <1>1 DEF IsLoad, Joins
  <2> QED
    BY <2>1, ReportsJoin
<1> QED
  BY <1>2, <1>3 DEF Moves, IsLoad

LEMMA CopyingStrings ==
  ASSUME NEW table, IsTable(table), NEW l, IsLoad(l, table), NEW key \in Multi, l.config[key] = Default[key],
         NEW names, Judges(key, names), NEW m, m = CopyStrings(l, key, names)
  PROVE  Moves(l, m, table, key, Final(table, key), Wrongs(table, {key}))
<1>0. key \in ConfigKeys /\ key \notin Required /\ l.table = table
  BY KeysAre, TemplatesAre DEF Required, IsLoad, Multi
<1>1. CASE key \notin DOMAIN table
  <2>1. m = l
    BY <1>0, <1>1 DEF CopyStrings, Given
  <2>2. Moves(l, m, table, key, l.config[key], {})
    BY <2>1, Resting
  <2>3. Final(table, key) = Default[key] /\ Wrongs(table, {key}) = {}
    BY <1>0, <1>1 DEF Final, Wrongs, IsWrong
  <2> QED
    BY <2>2, <2>3
<1>2. CASE key \in DOMAIN table /\ table[key][1] # "array"
  <2>1. IsReported(m, l, key, "type")
    BY <1>0, <1>2 DEF CopyStrings, Given, IsReported
  <2>2. Moves(l, m, table, key, l.config[key], {key})
    BY <2>1, Reporting
  <2>3. ~IsRight(key, table[key])
    BY <1>2 DEF Judges
  <2>4. Final(table, key) = Default[key] /\ Wrongs(table, {key}) = {key}
    BY <1>2, <2>3 DEF Final, Wrongs, IsWrong
  <2> QED
    BY <2>2, <2>4
<1>3. CASE key \in DOMAIN table /\ table[key][1] = "array"
  <2>1. PICK items : items = table[key][2]
    OBVIOUS
  <2>2. DOMAIN items = 1 .. Len(items) /\ Len(items) \in Nat
    BY <1>3, <2>1 DEF IsTable, IsValue
  <2>3. PICK problems : problems = [i \in DOMAIN items |-> ItemProblem(items[i], names)]
    OBVIOUS
  <2>4. PICK reported : reported = {i \in DOMAIN items :
                                      /\ problems[i] # "none"
                                      /\ problems[i] # "unsafe" => \A j \in 1 .. i - 1 : problems[j] # problems[i]}
    OBVIOUS
  <2>5. m = IF reported # {}
            THEN ReportedAll(l, [k \in 1 .. Cardinality(reported) |-> <<key, problems[Nth(reported, k)]>>])
            ELSE [l EXCEPT !.config[key] = [i \in DOMAIN items |-> items[i][2]]]
    BY <1>0, <1>3, <2>1, <2>3, <2>4 DEF CopyStrings, Given
  <2>6. IsRight(key, table[key]) <=> \A i \in DOMAIN items : problems[i] = "none"
    BY <1>3, <2>1, <2>3 DEF Judges
  <2>7. CASE reported = {}
    <3>1. \A i \in DOMAIN items : problems[i] = "none"
      <4> SUFFICES ASSUME \E i \in DOMAIN items : problems[i] # "none"
                   PROVE  FALSE
        OBVIOUS
      <4>1. PICK S : S = {i \in DOMAIN items : problems[i] # "none"}
        OBVIOUS
      <4>2. S \in SUBSET Nat /\ S # {}
        BY <2>2, <4>1
      <4>3. PICK n \in S : \A k \in S : n <= k
        BY <4>2, Smallest
      <4>4. ASSUME NEW j \in 1 .. n - 1
            PROVE  problems[j] = "none"
        <5>1. j \in DOMAIN items /\ ~(n <= j)
          BY <2>2, <4>1, <4>3
        <5> QED
          BY <4>1, <4>3, <5>1
      <4>5. problems[n] # "none" /\ n \in DOMAIN items
        BY <4>1, <4>3
      <4>6. n \in reported
        BY <2>4, <4>4, <4>5
      <4> QED
        BY <2>7, <4>6
    <3>2. PICK value : value = [i \in DOMAIN items |-> items[i][2]]
      OBVIOUS
    <3>3. IsStored(m, l, key, value)
      BY <2>5, <2>7, <3>2 DEF IsStored
    <3>4. Moves(l, m, table, key, value, {})
      BY <1>0, <3>3, Storing
    <3>5. Normalized(key, table[key]) = value
      <4>1. Normalized(key, table[key]) = [i \in DOMAIN table[key][2] |-> table[key][2][i][2]]
        BY RightIs DEF Multi
      <4> QED
        BY <2>1, <3>2, <4>1
    <3>6. Final(table, key) = value /\ Wrongs(table, {key}) = {}
      BY <1>3, <2>6, <3>1, <3>5 DEF Final, Wrongs, IsWrong
    <3> QED
      BY <3>4, <3>6
  <2>8. CASE reported # {}
    <3>1. IsFiniteSet(reported)
      <4>1. IsFiniteSet(1 .. Len(items)) /\ reported \subseteq 1 .. Len(items)
        BY <2>2, <2>4, FS_Interval
      <4> QED
        BY <4>1, FS_Subset
    <3>2. PICK reports : reports = [k \in 1 .. Cardinality(reported) |-> <<key, problems[Nth(reported, k)]>>]
      OBVIOUS
    <3>3. AreReports(reports, key)
      BY <2>8, <3>1, <3>2, ItemsAreReports
    <3>4. m = ReportedAll(l, reports)
      BY <2>5, <2>8, <3>2
    <3>5. Moves(l, m, table, key, l.config[key], {key})
      BY <3>3, <3>4, ReportingAll
    <3>6. ~IsRight(key, table[key])
      BY <2>4, <2>6, <2>8
    <3>7. Final(table, key) = Default[key] /\ Wrongs(table, {key}) = {key}
      BY <1>3, <3>6 DEF Final, Wrongs, IsWrong
    <3> QED
      BY <3>5, <3>7
  <2> QED
    BY <2>7, <2>8
<1> QED
  BY <1>1, <1>2, <1>3

LEMMA CopyingTemplates ==
  ASSUME NEW table, IsTable(table), NEW l, IsLoad(l, table), NEW key \in ToSet(Templates), l.config[key] = Default[key],
         NEW m, m = CopyTemplates(l, key)
  PROVE  Moves(l, m, table, key, Final(table, key), Wrongs(table, {key}))
<1>1. PICK names : names = TRUE /\ Judges(key, names)
  BY TemplatesJudge
<1>2. PICK copied : copied = CopyStrings(l, key, names)
  OBVIOUS
<1>3. Moves(l, copied, table, key, Final(table, key), Wrongs(table, {key}))
  BY <1>1, <1>2, CopyingStrings DEF Multi
<1>4. IsLoad(copied, table) /\ copied.config[key] = Final(table, key)
  BY <1>3, KeysAre, TemplatesAre DEF Moves
<1>5. m = copied \/ IsRejected(m, copied, OutputKey)
  BY <1>1, <1>2 DEF CopyTemplates, IsRejected
<1>6. IsLoad(m, table) /\ m.config = copied.config /\ m.log = copied.log
  BY <1>4, <1>5, Rejecting
<1>7. Moves(copied, m, table, key, copied.config[key], {})
  BY <1>4, <1>6, Resting
<1>8. Moves(l, m, table, key, copied.config[key], Wrongs(table, {key}) \cup {})
  BY <1>3, <1>7, MovesTwice
<1> QED
  BY <1>4, <1>8

LEMMA SetToSeqIs ==
  ASSUME NEW S, IsFiniteSet(S), NEW s, s = SetToSeq(S)
  PROVE  /\ s \in Seq(S) /\ \A x \in S : \E i \in DOMAIN s : s[i] = x
         /\ \A i, j \in DOMAIN s : s[i] = s[j] => i = j
<1>1. PICK n \in Nat : n = Cardinality(S) /\ ExistsBijection(1 .. n, S)
  BY FS_CardinalityType
<1>2. \E f \in [1 .. n -> S] : IsInjective(f)
  BY <1>1 DEF ExistsBijection, Bijection, Injection
<1>3. s \in [1 .. n -> S] /\ IsInjective(s)
  BY <1>1, <1>2 DEF SetToSeq
<1>4. s \in Surjection(1 .. n, S)
  <2>1. s \in Injection(1 .. n, S)
    BY <1>3 DEF Injection
  <2>2. Cardinality(1 .. n) = n
    BY FS_Interval
  <2> QED
    BY <1>1, <2>1, <2>2, FS_Injection
<1>5. s \in Seq(S)
  BY <1>3, FunctionIsSeq
<1> QED
  BY <1>3, <1>4, <1>5 DEF IsInjective, Surjection

Unknown(table) == DOMAIN table \ ConfigKeys

\* A load whose keys are settled, or pending: copied, but not checked yet.
IsAt(l, table, settled, pending) ==
  /\ IsLoad(l, table)
  /\ \A key \in ConfigKeys :
       l.config[key] = IF key \in settled THEN Final(table, key)
                       ELSE IF key \in pending THEN Copied(table, key) ELSE Default[key]
  /\ Keys(l.log) = Unknown(table) \cup Wrongs(table, settled) \cup Problems(table, pending)
  /\ Once(l.log)

LEMMA Starting ==
  ASSUME NEW table, IsTable(table), NEW l, l = RequireKnownKeys(NewLoad(table))
  PROVE  IsAt(l, table, {}, {})
<1>1. PICK unknown : unknown = SetToSeq(Unknown(table))
  OBVIOUS
<1>2. IsFiniteSet(Unknown(table))
  BY FS_Subset DEF IsTable, Unknown
<1>3. /\ unknown \in Seq(Unknown(table)) /\ \A x \in Unknown(table) : \E i \in DOMAIN unknown : unknown[i] = x
      /\ \A i, j \in DOMAIN unknown : unknown[i] = unknown[j] => i = j
  BY <1>1, <1>2, SetToSeqIs
<1>4. PICK reports : reports = [i \in DOMAIN unknown |-> <<unknown[i], "unknown">>]
  OBVIOUS
<1>5. DOMAIN unknown = 1 .. Len(unknown) /\ Len(unknown) \in Nat
  BY <1>3
<1>6. PICK S : S = {<<unknown[i], "unknown">> : i \in DOMAIN unknown}
  OBVIOUS
<1>7. reports \in [1 .. Len(unknown) -> S]
  BY <1>4, <1>5, <1>6
<1>8. reports \in Seq(S)
  BY <1>5, <1>7, FunctionIsSeq
<1>9. PICK log : log = <<>> \o reports
  OBVIOUS
<1>10. log = reports
  BY <1>8, <1>9, ConcatEmptySeq
<1>11. l = [table |-> table, config |-> Default, log |-> log, rejected |-> {}]
  <2>1. l = ReportedAll(NewLoad(table), reports)
    BY <1>1, <1>4 DEF RequireKnownKeys, NewLoad, Unknown
  <2> QED
    BY <1>9, <2>1 DEF ReportedAll, NewLoad
<1>12. Default = [key \in ConfigKeys |-> Default[key]]
  <2>1. DOMAIN Default = ConfigKeys
    BY KeysAre DEF Default
  <2>2. Default = [key \in DOMAIN Default |-> Default[key]]
    BY DEF Default
  <2> QED
    BY <2>1, <2>2
<1>13. IsSeq(log)
  BY <1>8, <1>10, SeqIsSeq
<1>14. IsLoad(l, table)
  BY <1>11, <1>12, <1>13 DEF IsLoad
<1>15. DOMAIN log = DOMAIN unknown /\ \A i \in DOMAIN log : log[i][1] = unknown[i]
  BY <1>4, <1>10
<1>16. Keys(log) = Unknown(table)
  <2>1. \A i \in DOMAIN unknown : unknown[i] \in Unknown(table)
    BY <1>3
  <2> QED
    BY <1>3, <1>15, <2>1 DEF Keys
<1>17. Once(log)
  BY <1>3, <1>15 DEF Once
<1>18. l.log = log /\ l.config = Default
  BY <1>11
<1> QED
  BY <1>14, <1>16, <1>17, <1>18 DEF IsAt, Wrongs, Problems

LEMMA Settling ==
  ASSUME NEW table, NEW l, NEW settled, NEW pending, IsAt(l, table, settled, pending),
         NEW key \in ConfigKeys, key \notin settled, key \notin pending,
         NEW m, Moves(l, m, table, key, Final(table, key), Wrongs(table, {key}))
  PROVE  IsAt(m, table, settled \cup {key}, pending)
<1>1. Wrongs(table, settled \cup {key}) = Wrongs(table, settled) \cup Wrongs(table, {key})
  BY DEF Wrongs
<1>2. Keys(l.log) = Unknown(table) \cup Wrongs(table, settled) \cup Problems(table, pending)
  BY DEF IsAt
<1>3. Wrongs(table, {key}) \cap Keys(l.log) = {}
  BY <1>2 DEF Wrongs, Problems, Unknown
<1>4. Once(m.log)
  BY <1>3 DEF IsAt, Moves
<1>5. Keys(m.log) = Unknown(table) \cup Wrongs(table, settled \cup {key}) \cup Problems(table, pending)
  BY <1>1, <1>2 DEF Moves
<1>6. \A other \in ConfigKeys :
        m.config[other] = IF other \in settled \cup {key} THEN Final(table, other)
                          ELSE IF other \in pending THEN Copied(table, other) ELSE Default[other]
  BY DEF IsAt, Moves
<1>7. IsLoad(m, table)
  BY DEF Moves
<1> QED
  BY <1>4, <1>5, <1>6, <1>7 DEF IsAt

LEMMA Postponing ==
  ASSUME NEW table, NEW l, NEW settled, NEW pending, IsAt(l, table, settled, pending),
         NEW key \in ConfigKeys, key \notin settled, key \notin pending,
         NEW m, Moves(l, m, table, key, Copied(table, key), Problems(table, {key}))
  PROVE  IsAt(m, table, settled, pending \cup {key})
<1>1. Problems(table, pending \cup {key}) = Problems(table, pending) \cup Problems(table, {key})
  BY DEF Problems
<1>2. Keys(l.log) = Unknown(table) \cup Wrongs(table, settled) \cup Problems(table, pending)
  BY DEF IsAt
<1>3. Problems(table, {key}) \cap Keys(l.log) = {}
  BY <1>2 DEF Wrongs, Problems, Unknown
<1>4. Once(m.log)
  BY <1>3 DEF IsAt, Moves
<1>5. Keys(m.log) = Unknown(table) \cup Wrongs(table, settled) \cup Problems(table, pending \cup {key})
  BY <1>1, <1>2 DEF Moves
<1>6. \A other \in ConfigKeys :
        m.config[other] = IF other \in settled THEN Final(table, other)
                          ELSE IF other \in pending \cup {key} THEN Copied(table, other) ELSE Default[other]
  BY DEF IsAt, Moves
<1>7. IsLoad(m, table)
  BY DEF Moves
<1> QED
  BY <1>4, <1>5, <1>6, <1>7 DEF IsAt

LEMMA Checking ==
  ASSUME NEW table, NEW l, NEW settled, NEW pending, IsAt(l, table, settled, pending),
         NEW key \in ConfigKeys, key \notin settled, key \in pending, HasProblem(table, key) => IsWrong(table, key),
         NEW m, Moves(l, m, table, key, Final(table, key), Unchecked(table, key))
  PROVE  IsAt(m, table, settled \cup {key}, pending \ {key})
<1>1. Wrongs(table, settled \cup {key}) = Wrongs(table, settled) \cup Wrongs(table, {key})
  BY DEF Wrongs
<1>2. Problems(table, pending) = Problems(table, pending \ {key}) \cup Problems(table, {key})
  BY DEF Problems
<1>3. Keys(l.log) = Unknown(table) \cup Wrongs(table, settled) \cup Problems(table, pending)
  BY DEF IsAt
<1>4. Unchecked(table, key) \cap Keys(l.log) = {}
  BY <1>3 DEF Wrongs, Problems, Unknown, Unchecked
<1>5. Once(m.log)
  BY <1>4 DEF IsAt, Moves
<1>6. Problems(table, {key}) \cup Unchecked(table, key) = Wrongs(table, {key})
  BY DEF Wrongs, Problems, Unchecked
<1>7. Keys(m.log) = Unknown(table) \cup Wrongs(table, settled \cup {key}) \cup Problems(table, pending \ {key})
  <2>1. Keys(m.log) = Keys(l.log) \cup Unchecked(table, key)
    BY DEF Moves
  <2> QED
    BY <1>1, <1>2, <1>3, <1>6, <2>1
<1>8. \A other \in ConfigKeys :
        m.config[other] = IF other \in settled \cup {key} THEN Final(table, other)
                          ELSE IF other \in pending \ {key} THEN Copied(table, other) ELSE Default[other]
  BY DEF IsAt, Moves
<1>9. IsLoad(m, table)
  BY DEF Moves
<1> QED
  BY <1>5, <1>7, <1>8, <1>9 DEF IsAt

LEMMA CopyingText ==
  ASSUME NEW table, NEW l, NEW settled, NEW pending, IsAt(l, table, settled, pending),
         NEW key \in {"title", "author"}, key \notin settled, key \notin pending, NEW m, m = CopyString(l, key)
  PROVE  IsAt(m, table, settled \cup {key}, pending)
<1>0. key \in ConfigKeys
  BY KeysAre
<1>1. IsLoad(l, table) /\ l.config[key] = Default[key]
  BY <1>0 DEF IsAt
<1>2. Moves(l, m, table, key, TextOf(l, table, key), Problems(table, {key}))
  BY <1>0, <1>1, CopyingString
<1>3. HasProblem(table, key) <=> IsWrong(table, key)
  BY RightIs DEF HasProblem, IsWrong
<1>4. Problems(table, {key}) = Wrongs(table, {key})
  BY <1>3 DEF Problems, Wrongs
<1>5. TextOf(l, table, key) = Final(table, key)
  <2>1. /\ IsRight(key, table[key]) <=> table[key][1] = "string"
        /\ Normalized(key, table[key]) = table[key][2]
    BY RightIs
  <2> QED
    BY <1>1, <2>1 DEF TextOf, Final, HasText
<1>6. Moves(l, m, table, key, Final(table, key), Wrongs(table, {key}))
  BY <1>2, <1>4, <1>5
<1> QED
  BY <1>0, <1>6, Settling

LEMMA CopyingUnchecked ==
  ASSUME NEW table, NEW l, NEW settled, NEW pending, IsAt(l, table, settled, pending),
         NEW key \in ConfigKeys, key \notin settled, key \notin pending, NEW m, m = CopyString(l, key)
  PROVE  IsAt(m, table, settled, pending \cup {key})
<1>1. IsLoad(l, table) /\ l.config[key] = Default[key]
  BY DEF IsAt
<1>2. Moves(l, m, table, key, TextOf(l, table, key), Problems(table, {key}))
  BY <1>1, CopyingString
<1>3. TextOf(l, table, key) = Copied(table, key)
  BY <1>1 DEF TextOf, Copied
<1>4. Moves(l, m, table, key, Copied(table, key), Problems(table, {key}))
  BY <1>2, <1>3
<1> QED
  BY <1>4, Postponing

LEMMA CheckingUrl ==
  ASSUME NEW table, NEW l, NEW settled, NEW pending, IsAt(l, table, settled, pending),
         NEW key, key = "base_url", key \notin settled, key \in pending,
         NEW m, m = IF HasProblem(table, key) THEN l ELSE NormalizeBaseUrl(l)
  PROVE  IsAt(m, table, settled \cup {key}, pending \ {key})
<1>0. key \in ConfigKeys
  BY KeysAre
<1>1. IsLoad(l, table) /\ l.config[key] = Copied(table, key)
  BY <1>0 DEF IsAt
<1>2. Moves(l, m, table, key, Final(table, key), Unchecked(table, key))
  <2>1. CASE HasProblem(table, key)
    <3>1. m = l
      BY <2>1
    <3>2. Moves(l, m, table, key, l.config[key], {})
      BY <1>1, <3>1, Resting
    <3>3. ~HasText(table, key) /\ Problems(table, {key}) = {key}
      BY <2>1 DEF HasProblem, HasText, Problems
    <3>4. key \in DOMAIN table => ~IsRight(key, table[key])
      BY <3>3, RightIs DEF HasText
    <3>5. Final(table, key) = Default[key] /\ Copied(table, key) = Default[key] /\ Unchecked(table, key) = {}
      BY <3>3, <3>4 DEF Final, Copied, Unchecked, Wrongs
    <3> QED
      BY <1>1, <3>2, <3>5
  <2>2. CASE ~HasProblem(table, key)
    <3>1. m = NormalizeBaseUrl(l)
      BY <2>2
    <3> QED
      BY <1>1, <2>2, <3>1, NormalizingBaseUrl
  <2> QED
    BY <2>1, <2>2
<1>3. HasProblem(table, key) => IsWrong(table, key)
  BY RightIs DEF HasProblem, IsWrong
<1> QED
  BY <1>0, <1>2, <1>3, Checking

LEMMA CheckingTemplate ==
  ASSUME NEW table, NEW l, NEW settled, NEW pending, IsAt(l, table, settled, pending),
         NEW key, key = "content_template", key \notin settled, key \in pending, NEW m, m = RequireContentTemplate(l)
  PROVE  IsAt(m, table, settled \cup {key}, pending \ {key})
<1>0. key \in ConfigKeys
  BY KeysAre
<1>1. IsLoad(l, table) /\ l.config[key] = Copied(table, key)
  BY <1>0 DEF IsAt
<1>2. Moves(l, m, table, key, Final(table, key), Unchecked(table, key))
  BY <1>1, RequiringContentTemplate
<1>3. HasProblem(table, key) => IsWrong(table, key)
  BY RightIs DEF HasProblem, IsWrong
<1> QED
  BY <1>0, <1>2, <1>3, Checking

LEMMA CheckingPermalink ==
  ASSUME NEW table, NEW l, NEW settled, NEW pending, IsAt(l, table, settled, pending),
         NEW key, key = "permalink", key \notin settled, key \in pending, NEW m, m = RequireValidPermalink(l)
  PROVE  IsAt(m, table, settled \cup {key}, pending \ {key})
<1>0. key \in ConfigKeys
  BY KeysAre
<1>1. IsLoad(l, table) /\ l.config[key] = Copied(table, key)
  BY <1>0 DEF IsAt
<1>2. Moves(l, m, table, key, Final(table, key), Unchecked(table, key))
  BY <1>1, RequiringPermalink
<1>3. HasProblem(table, key) => IsWrong(table, key)
  BY RightIs DEF HasProblem, IsWrong
<1> QED
  BY <1>0, <1>2, <1>3, Checking

LEMMA SettlingDir ==
  ASSUME NEW table, IsTable(table), NEW l, NEW settled, NEW pending, IsAt(l, table, settled, pending),
         NEW key \in ToSet(Dirs), key \notin settled, key \notin pending, NEW m, m = CopyDir(l, key)
  PROVE  IsAt(m, table, settled \cup {key}, pending)
<1>0. key \in ConfigKeys
  BY KeysAre, DirsAre
<1>1. IsLoad(l, table) /\ l.config[key] = Default[key]
  BY <1>0 DEF IsAt
<1>2. Moves(l, m, table, key, Final(table, key), Wrongs(table, {key}))
  BY <1>1, CopyingDir
<1> QED
  BY <1>0, <1>2, Settling

LEMMA SettlingTemplates ==
  ASSUME NEW table, IsTable(table), NEW l, NEW settled, NEW pending, IsAt(l, table, settled, pending),
         NEW key \in ToSet(Templates), key \notin settled, key \notin pending, NEW m, m = CopyTemplates(l, key)
  PROVE  IsAt(m, table, settled \cup {key}, pending)
<1>0. key \in ConfigKeys
  BY KeysAre, TemplatesAre
<1>1. IsLoad(l, table) /\ l.config[key] = Default[key]
  BY <1>0 DEF IsAt
<1>2. Moves(l, m, table, key, Final(table, key), Wrongs(table, {key}))
  BY <1>1, CopyingTemplates
<1> QED
  BY <1>0, <1>2, Settling

LEMMA SettlingSize ==
  ASSUME NEW table, IsTable(table), NEW l, NEW settled, NEW pending, IsAt(l, table, settled, pending),
         NEW key, key = "feed_count", key \notin settled, key \notin pending, NEW m, m = CopySize(l, key)
  PROVE  IsAt(m, table, settled \cup {key}, pending)
<1>0. key \in ConfigKeys
  BY KeysAre
<1>1. IsLoad(l, table) /\ l.config[key] = Default[key]
  BY <1>0 DEF IsAt
<1>2. Moves(l, m, table, key, Final(table, key), Wrongs(table, {key}))
  BY <1>1, CopyingSize
<1> QED
  BY <1>0, <1>2, Settling

LEMMA SettlingIgnoredKeys ==
  ASSUME NEW table, IsTable(table), NEW l, NEW settled, NEW pending, IsAt(l, table, settled, pending),
         NEW key, key = "frontmatter_ignored_keys", key \notin settled, key \notin pending,
         NEW m, m = CopyStrings(l, key, FALSE)
  PROVE  IsAt(m, table, settled \cup {key}, pending)
<1>0. key \in ConfigKeys /\ key \in Multi
  BY KeysAre DEF Multi
<1>1. IsLoad(l, table) /\ l.config[key] = Default[key]
  BY <1>0 DEF IsAt
<1>2. PICK names : names = FALSE /\ Judges(key, names)
  BY IgnoredKeysJudge
<1>3. m = CopyStrings(l, key, names)
  BY <1>2
<1>4. Moves(l, m, table, key, Final(table, key), Wrongs(table, {key}))
  BY <1>0, <1>1, <1>2, <1>3, CopyingStrings
<1> QED
  BY <1>0, <1>4, Settling

\* Every key of the config is settled, in the order the load has them.
LEMMA LoadSettles ==
  ASSUME NEW table, IsTable(table)
  PROVE  IsAt(LoadFields(table), table, ConfigKeys, {})
<1>1. PICK l0 : l0 = RequireKnownKeys(NewLoad(table))
  OBVIOUS
<1>2. PICK l1 : l1 = CopyString(l0, "base_url")
  OBVIOUS
<1>3. PICK l2 : l2 = CopyString(l1, "title")
  OBVIOUS
<1>4. PICK l3 : l3 = CopyString(l2, "author")
  OBVIOUS
<1>5. PICK l4 : l4 = CopyString(l3, "permalink")
  OBVIOUS
<1>6. PICK l5 : l5 = CopyString(l4, "content_template")
  OBVIOUS
<1>7. PICK l6 : l6 = IF StringProblem(l1, "base_url") = "none" THEN NormalizeBaseUrl(l5) ELSE l5
  OBVIOUS
<1>8. PICK l7 : l7 = CopyDir(l6, "content_dir")
  OBVIOUS
<1>9. PICK l8 : l8 = CopyDir(l7, "output_dir")
  OBVIOUS
<1>10. PICK l9 : l9 = CopyDir(l8, "templates_dir")
  OBVIOUS
<1>11. PICK l10 : l10 = CopyDir(l9, "static_dir")
  OBVIOUS
<1>12. PICK l11 : l11 = RequireContentTemplate(l10)
  OBVIOUS
<1>13. PICK l12 : l12 = RequireValidPermalink(l11)
  OBVIOUS
<1>14. PICK l13 : l13 = CopyTemplates(l12, "aggregate_templates")
  OBVIOUS
<1>15. PICK l14 : l14 = CopyTemplates(l13, "feed_templates")
  OBVIOUS
<1>16. PICK l15 : l15 = CopySize(l14, "feed_count")
  OBVIOUS
<1>17. PICK l16 : l16 = CopyStrings(l15, "frontmatter_ignored_keys", FALSE)
  OBVIOUS
<1>18. LoadFields(table) = l16
  BY <1>1, <1>2, <1>3, <1>4, <1>5, <1>6, <1>7, <1>8, <1>9, <1>10, <1>11, <1>12, <1>13, <1>14, <1>15, <1>16, <1>17,
     DirsAre, TemplatesAre, Zenon DEF LoadFields
<1>20. IsAt(l0, table, {}, {})
  BY <1>1, Starting
<1>21. "base_url" \in ConfigKeys /\ "permalink" \in ConfigKeys /\ "content_template" \in ConfigKeys
  BY KeysAre
<1>22. IsAt(l1, table, {}, {"base_url"})
  <2>1. IsAt(l1, table, {}, {} \cup {"base_url"})
    BY <1>2, <1>20, <1>21, CopyingUnchecked
  <2> QED
    BY <2>1
<1>23. IsAt(l2, table, {"title"}, {"base_url"})
  <2>1. IsAt(l2, table, {} \cup {"title"}, {"base_url"})
    BY <1>3, <1>22, CopyingText
  <2> QED
    BY <2>1
<1>24. IsAt(l3, table, {"title", "author"}, {"base_url"})
  <2>1. IsAt(l3, table, {"title"} \cup {"author"}, {"base_url"})
    BY <1>4, <1>23, CopyingText
  <2>2. {"title"} \cup {"author"} = {"title", "author"}
    OBVIOUS
  <2> QED
    BY <2>1, <2>2
<1>25. IsAt(l4, table, {"title", "author"}, {"base_url", "permalink"})
  <2>1. IsAt(l4, table, {"title", "author"}, {"base_url"} \cup {"permalink"})
    BY <1>5, <1>21, <1>24, CopyingUnchecked
  <2>2. {"base_url"} \cup {"permalink"} = {"base_url", "permalink"}
    OBVIOUS
  <2> QED
    BY <2>1, <2>2
<1>26. IsAt(l5, table, {"title", "author"}, {"base_url", "permalink", "content_template"})
  <2>1. IsAt(l5, table, {"title", "author"}, {"base_url", "permalink"} \cup {"content_template"})
    BY <1>6, <1>21, <1>25, CopyingUnchecked
  <2>2. {"base_url", "permalink"} \cup {"content_template"} = {"base_url", "permalink", "content_template"}
    OBVIOUS
  <2> QED
    BY <2>1, <2>2
<1>27. IsAt(l6, table, {"title", "author", "base_url"}, {"permalink", "content_template"})
  <2>1. StringProblem(l1, "base_url") # "none" <=> HasProblem(table, "base_url")
    <3>1. IsLoad(l1, table)
      BY <1>22 DEF IsAt
    <3> QED
      BY <3>1, ProblemIs
  <2>2. l6 = IF HasProblem(table, "base_url") THEN l5 ELSE NormalizeBaseUrl(l5)
    BY <1>7, <2>1
  <2>3. IsAt(l6, table, {"title", "author"} \cup {"base_url"}, {"base_url", "permalink", "content_template"} \ {"base_url"})
    BY <1>26, <2>2, CheckingUrl
  <2>4. /\ {"title", "author"} \cup {"base_url"} = {"title", "author", "base_url"}
        /\ {"base_url", "permalink", "content_template"} \ {"base_url"} = {"permalink", "content_template"}
    OBVIOUS
  <2> QED
    BY <2>3, <2>4
<1>28. /\ "content_dir" \in ToSet(Dirs) /\ "output_dir" \in ToSet(Dirs) /\ "templates_dir" \in ToSet(Dirs)
       /\ "static_dir" \in ToSet(Dirs) /\ "aggregate_templates" \in ToSet(Templates) /\ "feed_templates" \in ToSet(Templates)
  BY DirsAre, TemplatesAre
<1> DEFINE Pending == {"permalink", "content_template"}
           Texts == {"title", "author", "base_url"}
           AllDirs == {"content_dir", "output_dir", "templates_dir", "static_dir"}
<1>29. IsAt(l7, table, Texts \cup {"content_dir"}, Pending)
  BY <1>8, <1>27, <1>28, SettlingDir
<1>30. IsAt(l8, table, Texts \cup {"content_dir"} \cup {"output_dir"}, Pending)
  BY <1>9, <1>28, <1>29, SettlingDir
<1>31. IsAt(l9, table, Texts \cup {"content_dir"} \cup {"output_dir"} \cup {"templates_dir"}, Pending)
  BY <1>10, <1>28, <1>30, SettlingDir
<1>32. IsAt(l10, table, Texts \cup AllDirs, Pending)
  <2>1. IsAt(l10, table, Texts \cup {"content_dir"} \cup {"output_dir"} \cup {"templates_dir"} \cup {"static_dir"}, Pending)
    BY <1>11, <1>28, <1>31, SettlingDir
  <2>2. Texts \cup {"content_dir"} \cup {"output_dir"} \cup {"templates_dir"} \cup {"static_dir"} = Texts \cup AllDirs
    OBVIOUS
  <2> QED
    BY <2>1, <2>2
<1>33. IsAt(l11, table, Texts \cup AllDirs \cup {"content_template"}, Pending \ {"content_template"})
  BY <1>12, <1>32, CheckingTemplate
<1>34. IsAt(l12, table, Texts \cup AllDirs \cup Pending, {})
  <2>1. IsAt(l12, table, Texts \cup AllDirs \cup {"content_template"} \cup {"permalink"}, (Pending \ {"content_template"}) \ {"permalink"})
    BY <1>13, <1>33, CheckingPermalink
  <2>2. /\ Texts \cup AllDirs \cup {"content_template"} \cup {"permalink"} = Texts \cup AllDirs \cup Pending
        /\ (Pending \ {"content_template"}) \ {"permalink"} = {}
    OBVIOUS
  <2> QED
    BY <2>1, <2>2
<1> DEFINE Most == Texts \cup AllDirs \cup Pending
<1>35. IsAt(l13, table, Most \cup {"aggregate_templates"}, {})
  BY <1>14, <1>28, <1>34, SettlingTemplates
<1>36. IsAt(l14, table, Most \cup {"aggregate_templates"} \cup {"feed_templates"}, {})
  BY <1>15, <1>28, <1>35, SettlingTemplates
<1>37. IsAt(l15, table, Most \cup {"aggregate_templates"} \cup {"feed_templates"} \cup {"feed_count"}, {})
  BY <1>16, <1>36, SettlingSize
<1>38. IsAt(l16, table, Most \cup {"aggregate_templates"} \cup {"feed_templates"} \cup {"feed_count"} \cup {"frontmatter_ignored_keys"}, {})
  BY <1>17, <1>37, SettlingIgnoredKeys
<1>39. Most \cup {"aggregate_templates"} \cup {"feed_templates"} \cup {"feed_count"} \cup {"frontmatter_ignored_keys"} = ConfigKeys
  BY KeysAre
<1> QED
  BY <1>18, <1>38, <1>39

LEMMA LoadIsUsable ==
  ASSUME NEW table, IsTable(table), NEW l, l = LoadFields(table)
  PROVE  /\ Keys(l.log) = WrongKeys(table) /\ Once(l.log)
         /\ \A key \in ConfigKeys : l.config[key] = Final(table, key)
<1>1. IsAt(l, table, ConfigKeys, {})
  BY LoadSettles
<1>2. Problems(table, {}) = {}
  BY DEF Problems
<1>3. \A key \in Unknown(table) : IsWrong(table, key)
  BY RightIs DEF Unknown, IsWrong
<1>4. Unknown(table) \cup Wrongs(table, ConfigKeys) = WrongKeys(table)
  BY <1>3 DEF Unknown, Wrongs, WrongKeys
<1> QED
  BY <1>1, <1>2, <1>4 DEF IsAt

LEMMA FinalDir ==
  ASSUME NEW table, IsTable(table), NEW key \in ToSet(Dirs)
  PROVE  Final(table, key) # <<>> /\ Last(Final(table, key)) # "/"
<1>1. CASE key \in DOMAIN table /\ IsRight(key, table[key])
  <2>1. PICK text : text = table[key][2]
    OBVIOUS
  <2>2. table[key][1] = "string" /\ TrimTrailingSlashes(text) # <<>> /\ Final(table, key) = TrimTrailingSlashes(text)
    BY <1>1, <2>1, RightIs DEF Final
  <2>3. text \in Seq(ToSet(text))
    BY <1>1, <2>1, <2>2 DEF IsTable, IsValue
  <2>4. PICK C : text \in Seq(C)
    BY <2>3
  <2>5. Last(TrimTrailingSlashes(text)) # "/"
    BY <2>2, <2>4, Trimmed
  <2> QED
    BY <2>2, <2>5
<1>2. CASE ~(key \in DOMAIN table /\ IsRight(key, table[key]))
  BY <1>2, DefaultDirs DEF Final
<1> QED
  BY <1>1, <1>2

LEMMA FinalPermalink ==
  ASSUME NEW table, IsTable(table), NEW key, key = "permalink"
  PROVE  CheckPermalink(Final(table, key)) = "valid" /\ \E P : Final(table, key) \in Seq(P)
<1>1. CASE key \in DOMAIN table /\ IsRight(key, table[key])
  <2>1. PICK text : text = table[key][2]
    OBVIOUS
  <2>2. table[key][1] = "string" /\ CheckPermalink(text) = "valid" /\ Final(table, key) = text
    BY <1>1, <2>1, RightIs DEF Final
  <2>3. text \in Seq(ToSet(text))
    BY <1>1, <2>1, <2>2 DEF IsTable, IsValue
  <2> QED
    BY <2>2, <2>3
<1>2. CASE ~(key \in DOMAIN table /\ IsRight(key, table[key]))
  <2>1. Final(table, key) = Default.permalink
    BY <1>2 DEF Final
  <2> QED
    BY <2>1, DefaultPermalink
<1> QED
  BY <1>1, <1>2

-----------------------------------------------------------------------------
(* The steps of an invocation. *)

\* From the config on, the load is that of the site: no later step touches either.
LoadIsOfSite == IsLoaded => site \in Sites /\ load = LoadFields(site.table)

LEMMA SitesAreTables ==
  ASSUME NEW found \in Sites
  PROVE  IsTable(found.table)
BY InputsAssumption DEF IsTable

THEOREM LoadIsAlwaysOfSite == Spec => []LoadIsOfSite
<1>1. Init => LoadIsOfSite
  BY DEF Init, LoadIsOfSite, IsLoaded
<1>2. LoadIsOfSite /\ [Next]_vars => LoadIsOfSite'
  <2> SUFFICES ASSUME LoadIsOfSite, [Next]_vars
               PROVE  LoadIsOfSite'
    OBVIOUS
  <2>1. CASE ReadElement
    BY <2>1 DEF LoadIsOfSite, IsLoaded, ReadElement
  <2>2. CASE EndArgs
    BY <2>2 DEF LoadIsOfSite, IsLoaded, EndArgs
  <2>3. CASE PrintInstead
    BY <2>3 DEF LoadIsOfSite, IsLoaded, PrintInstead, Exit
  <2>4. CASE Dispatch
    BY <2>4 DEF LoadIsOfSite, IsLoaded, Dispatch
  <2>5. CASE LoadConfig
    <3>1. PICK found \in Sites : site' = found /\ load' = LoadFields(found.table)
      BY <2>5 DEF LoadConfig
    <3> QED
      BY <3>1 DEF LoadIsOfSite
  <2>6. CASE FailToLoad
    BY <2>6 DEF LoadIsOfSite, IsLoaded, FailToLoad, Exit
  <2>7. CASE PrintConfig
    BY <2>7 DEF LoadIsOfSite, IsLoaded, PrintConfig, Exit
  <2>8. CASE StopAfterLoad
    BY <2>8 DEF LoadIsOfSite, IsLoaded, StopAfterLoad, Exit
  <2>9. CASE FindSources
    BY <2>9 DEF LoadIsOfSite, IsLoaded, FindSources
  <2>10. ASSUME NEW i \in DOMAIN entries, ParseEntry(i) \/ FailToParse(i)
         PROVE  LoadIsOfSite'
    BY <2>10 DEF LoadIsOfSite, IsLoaded, ParseEntry, FailToParse
  <2>11. CASE Collect
    BY <2>11 DEF LoadIsOfSite, IsLoaded, Collect
  <2>12. CASE StopBuild
    BY <2>12 DEF LoadIsOfSite, IsLoaded, StopBuild, Exit
  <2>13. CASE GoOn
    BY <2>13 DEF LoadIsOfSite, IsLoaded, GoOn
  <2>14. CASE UNCHANGED vars
    BY <2>14 DEF LoadIsOfSite, IsLoaded, vars
  <2> QED
    BY <2>1, <2>2, <2>3, <2>4, <2>5, <2>6, <2>7, <2>8, <2>9, <2>10, <2>11, <2>12, <2>13, <2>14 DEF Next
<1> QED
  BY <1>1, <1>2, PTL DEF Spec

\* Whatever keys a table holds, with whatever values: one load reports every
\* wrong key and stores none of them, and every directory can be joined with a
\* name (site_config_load_fields).
THEOREM ConfigStaysUsable == Spec => []ConfigIsUsable
<1>1. LoadIsOfSite => ConfigIsUsable
  <2> SUFFICES ASSUME LoadIsOfSite, IsLoaded
               PROVE  ConfigIsUsable
    BY DEF ConfigIsUsable
  <2>1. PICK table : table = site.table /\ IsTable(table) /\ load = LoadFields(table)
    BY SitesAreTables DEF LoadIsOfSite
  <2>2. PICK l : l = load
    OBVIOUS
  <2>3. /\ Keys(l.log) = WrongKeys(table) /\ Once(l.log)
        /\ \A key \in ConfigKeys : l.config[key] = Final(table, key)
    BY <2>1, <2>2, LoadIsUsable
  <2>4. \A key \in ToSet(Dirs) : l.config[key] # <<>> /\ Last(l.config[key]) # "/"
    BY <2>1, <2>3, FinalDir, KeysAre, DirsAre
  <2> QED
    BY <2>1, <2>2, <2>3, <2>4 DEF ConfigIsUsable, Keys, Once, Multi, Final
<1> QED
  BY <1>1, LoadIsAlwaysOfSite, PTL

\* Whatever pattern a config gives, and whatever the section and the slugs: a
\* page stays below output_dir, and two slugs never share one (site_config.c
\* tries a permalink on four samples only).
THEOREM PermalinksStaySafe == Spec => []PermalinksAreSafe
<1>1. LoadIsOfSite => PermalinksAreSafe
  <2> SUFFICES ASSUME LoadIsOfSite, stage = "loaded"
               PROVE  PermalinksAreSafe
    BY DEF PermalinksAreSafe
  <2>1. PICK table : IsTable(table) /\ load = LoadFields(table)
    BY SitesAreTables DEF LoadIsOfSite, IsLoaded
  <2>2. PICK pattern : pattern = load.config.permalink
    OBVIOUS
  <2>3. CheckPermalink(pattern) = "valid" /\ \E P : pattern \in Seq(P)
    <3>1. PICK key : key = "permalink" /\ key \in ConfigKeys
      BY KeysAre
    <3>2. pattern = load.config[key]
      BY <2>2, <3>1
    <3>3. pattern = Final(table, key)
      BY <2>1, <3>1, <3>2, LoadIsUsable
    <3> QED
      BY <2>1, <3>1, <3>3, FinalPermalink
  <2>4. PICK P : pattern \in Seq(P)
    BY <2>3
  <2>5. ASSUME NEW section \in Sections, NEW one \in Slugs, NEW other \in Slugs
        PROVE  /\ Expand(pattern, section, one)[1] = "/"
               /\ IsSafeRelative(Tail(Expand(pattern, section, one)))
               /\ Expand(pattern, section, one) = Expand(pattern, section, other) => one = other
    <3>1. IsSection(section) /\ IsSlug(one) /\ IsSlug(other)
      BY InputsAssumption
    <3> QED
      BY <2>3, <2>4, <3>1, VerdictHolds
  <2> QED
    BY <2>2, <2>5 DEF PermalinksAreSafe
<1> QED
  BY <1>1, LoadIsAlwaysOfSite, PTL


-----------------------------------------------------------------------------
(* The options of an element, one by one.  An option says what it asks for  *)
(* or is bad, and a rejected value ends the element.                        *)
Informs == {"version", "help"}
Flags == {"verbose", "workers", "dry-run", "force"}
Whats == {"no count", "not a count", "unknown", "takes no value"}

LEMMA OptionsAre ==
  /\ ToSet(FlagOrder) = Flags /\ Options = Flags \cup Informs
  /\ DOMAIN FlagOrder = 1 .. 4
<1>1. /\ DOMAIN FlagOrder = 1 .. 4
      /\ FlagOrder[1] = "verbose" /\ FlagOrder[2] = "workers"
      /\ FlagOrder[3] = "dry-run" /\ FlagOrder[4] = "force"
  BY DEF FlagOrder
<1>2. ToSet(FlagOrder) = {FlagOrder[i] : i \in DOMAIN FlagOrder}
  BY DEF ToSet
<1>3. 1 .. 4 = {1, 2, 3, 4}
  OBVIOUS
<1>4. ToSet(FlagOrder) = Flags
  <2>1. ASSUME NEW o
        PROVE  o \in ToSet(FlagOrder) <=> o \in Flags
    <3>1. o \in ToSet(FlagOrder) <=> \E i \in {1, 2, 3, 4} : o = FlagOrder[i]
      BY <1>1, <1>2, <1>3, Zenon
    <3> QED
      BY <1>1, <3>1 DEF Flags
  <2> QED
    BY <2>1
<1> QED
  BY <1>1, <1>4 DEF Options, Informs

\* What a cli can be while an element is read: of the words nothing changes.
Clis(c, x) ==
  [action : {c.action}, command : {c.command}, informs : SUBSET Informs, flags : SUBSET Flags,
   error : {c.error} \cup (Whats \X ToSet(x.options)), words : {c.words}, isValueDue : BOOLEAN]

Bad(x, o) ==
  \/ o \notin Options
  \/ o = "workers" /\ x.value \notin {"", "4"}
  \/ o # "workers" /\ HasValue(x, o)
Obeys(x, o) == o \in Options /\ ~Bad(x, o) /\ (o = "workers" => x.value = "4")

IsTaken(d, c, x, o) ==
  /\ d.informs = c.informs \cup {p \in Informs : p = o /\ Obeys(x, o)}
  /\ d.flags = c.flags \cup {p \in Flags : p = o /\ Obeys(x, o)}
  /\ d.isValueDue <=> (c.isValueDue /\ o # "workers") \/ (o = "workers" /\ x.value = "")
  /\ c.error # <<>> \/ ~Bad(x, o) => d.error = c.error
  /\ c.error = <<>> /\ Bad(x, o) => d.error # <<>>

LEMMA Recording ==
  ASSUME NEW c, NEW x, NEW b \in Clis(c, x), NEW what \in Whats, NEW o \in ToSet(x.options)
  PROVE  /\ RecordError(b, what, o) \in Clis(c, x)
         /\ RecordError(b, what, o) = [b EXCEPT !.error = RecordError(b, what, o).error]
         /\ RecordError(b, what, o).error # <<>>
         /\ b.error # <<>> => RecordError(b, what, o).error = b.error
<1>1. CASE b.error # <<>>
  <2>1. RecordError(b, what, o) = b
    BY <1>1 DEF RecordError
  <2>2. b = [b EXCEPT !.error = b.error]
    BY DEF Clis
  <2> QED
    BY <1>1, <2>1, <2>2
<1>2. CASE b.error = <<>>
  <2>1. RecordError(b, what, o) = [b EXCEPT !.error = <<what, o>>]
    BY <1>2 DEF RecordError
  <2>2. <<what, o>> \in Whats \X ToSet(x.options) /\ <<what, o>> # <<>>
    OBVIOUS
  <2>3. PICK e : e = <<what, o>>
    OBVIOUS
  <2>4. [b EXCEPT !.error = e] \in Clis(c, x) /\ [b EXCEPT !.error = e].error = e
    BY <2>2, <2>3 DEF Clis
  <2> QED
    BY <1>2, <2>1, <2>2, <2>3, <2>4
<1> QED
  BY <1>1, <1>2

LEMMA OptionIsTaken ==
  ASSUME NEW c, NEW x, NEW b \in Clis(c, x), NEW o \in ToSet(x.options)
  PROVE  TakeOption(b, x, o) \in Clis(c, x) /\ IsTaken(TakeOption(b, x, o), b, x, o)
<1> DEFINE d == TakeOption(b, x, o)
<1>0. ToSet(FlagOrder) = Flags /\ Options = Flags \cup Informs /\ Flags \cap Informs = {}
  BY OptionsAre DEF Flags, Informs
<1>a. /\ b.informs \subseteq Informs /\ b.flags \subseteq Flags /\ b.isValueDue \in BOOLEAN
      /\ "workers" \in Flags /\ "workers" \in Options /\ "workers" \notin Informs
  BY <1>0 DEF Clis, Flags, Informs
<1>1. CASE o = "workers" /\ x.value = ""
  <2>1. d = [b EXCEPT !.isValueDue = TRUE]
    BY <1>1 DEF TakeOption
  <2>2. d \in Clis(c, x) /\ d.informs = b.informs /\ d.flags = b.flags /\ d.error = b.error /\ d.isValueDue
    BY <2>1 DEF Clis
  <2>3. ~Bad(x, o) /\ ~Obeys(x, o)
    BY <1>1, <1>a DEF Bad, Obeys
  <2> QED
    BY <1>1, <2>2, <2>3 DEF IsTaken
<1>2. CASE o = "workers" /\ x.value # ""
  <2> DEFINE taken == [b EXCEPT !.isValueDue = FALSE]
  <2>1. d = TakeWorkers(b, x.value)
    BY <1>2 DEF TakeOption
  <2>2. /\ taken \in Clis(c, x) /\ taken.informs = b.informs /\ taken.flags = b.flags
        /\ taken.error = b.error /\ taken.isValueDue = FALSE
    BY DEF Clis
  <2>3. CASE x.value = "4"
    <3>1. d = [taken EXCEPT !.flags = @ \cup {"workers"}]
      BY <2>1, <2>3 DEF TakeWorkers
    <3>2. /\ d \in Clis(c, x) /\ d.informs = b.informs /\ d.flags = b.flags \cup {"workers"}
          /\ d.error = b.error /\ d.isValueDue = FALSE
      <4> HIDE DEF taken
      <4> QED
        BY <1>a, <2>2, <3>1 DEF Clis
    <3>3. ~Bad(x, o) /\ Obeys(x, o)
      BY <1>2, <1>a, <2>3 DEF Bad, Obeys
    <3>4. {p \in Flags : p = o /\ Obeys(x, o)} = {"workers"} /\ {p \in Informs : p = o /\ Obeys(x, o)} = {}
      BY <1>2, <1>a, <3>3
    <3> QED
      BY <1>2, <3>2, <3>3, <3>4 DEF IsTaken
  <2>4. CASE x.value # "4"
    <3>1. d = RecordError(taken, "not a count", o)
      BY <1>2, <2>1, <2>4 DEF TakeWorkers
    <3>2. "not a count" \in Whats
      BY DEF Whats
    <3>a. PICK t \in Clis(c, x) : t = taken
      BY <2>2
    <3>3. /\ d \in Clis(c, x) /\ d = [t EXCEPT !.error = d.error]
          /\ d.error # <<>> /\ (t.error # <<>> => d.error = t.error)
      <4>1. PICK what \in Whats : what = "not a count"
        BY <3>2
      <4>2. d = RecordError(t, what, o)
        BY <3>1, <3>a, <4>1
      <4> HIDE DEF taken, d
      <4> QED
        BY <4>2, Recording
    <3>4. d.informs = b.informs /\ d.flags = b.flags /\ d.isValueDue = FALSE
      <4>1. t.informs = b.informs /\ t.flags = b.flags /\ t.isValueDue = FALSE
        BY <2>2, <3>a
      <4> HIDE DEF taken, d
      <4> QED
        BY <3>3, <4>1 DEF Clis
    <3>5. Bad(x, o) /\ ~Obeys(x, o)
      BY <1>2, <2>4 DEF Bad, Obeys
    <3>6. t.error = b.error
      BY <2>2, <3>a
    <3> QED
      BY <1>2, <3>3, <3>4, <3>5, <3>6 DEF IsTaken
  <2> QED
    BY <2>3, <2>4
<1>3. CASE o # "workers" /\ (o \notin Options \/ HasValue(x, o))
  <2>1. PICK what \in Whats : d = RecordError(b, what, o)
    <3>1. CASE o \notin Options
      <4>1. d = RecordError(b, "unknown", o)
        BY <1>3, <3>1 DEF TakeOption
      <4> QED
        BY <4>1 DEF Whats
    <3>2. CASE o \in Options
      <4>1. d = RecordError(b, "takes no value", o)
        BY <1>3, <3>2 DEF TakeOption
      <4> QED
        BY <4>1 DEF Whats
    <3> QED
      BY <3>1, <3>2
  <2>2. /\ d \in Clis(c, x) /\ d = [b EXCEPT !.error = d.error]
        /\ d.error # <<>> /\ (b.error # <<>> => d.error = b.error)
    BY <2>1, Recording
  <2>3. d.informs = b.informs /\ d.flags = b.flags /\ d.isValueDue = b.isValueDue
    <3> HIDE DEF d
    <3> QED
      BY <2>2 DEF Clis
  <2>4. Bad(x, o) /\ ~Obeys(x, o)
    BY <1>3 DEF Bad, Obeys
  <2> QED
    BY <1>3, <2>2, <2>3, <2>4 DEF IsTaken
<1>4. CASE o # "workers" /\ o \in Options /\ ~HasValue(x, o)
  <2>1. d = [b EXCEPT !.flags = @ \cup ({o} \cap Flags), !.informs = @ \cup ({o} \ Flags)]
    BY <1>0, <1>4 DEF TakeOption
  <2>2. {o} \cap Flags \subseteq Flags /\ {o} \ Flags \subseteq Informs
    BY <1>0, <1>4
  <2>3. /\ d \in Clis(c, x) /\ d.informs = b.informs \cup ({o} \ Flags)
        /\ d.flags = b.flags \cup ({o} \cap Flags) /\ d.error = b.error /\ d.isValueDue = b.isValueDue
    <3> HIDE DEF d
    <3> QED
      BY <2>1, <2>2 DEF Clis
  <2>4. ~Bad(x, o) /\ Obeys(x, o)
    BY <1>4 DEF Bad, Obeys
  <2>5. {p \in Flags : p = o /\ Obeys(x, o)} = {o} \cap Flags
    BY <2>4
  <2>6. {p \in Informs : p = o /\ Obeys(x, o)} = {o} \ Flags
    BY <1>0, <1>4, <2>4
  <2> QED
    BY <1>4, <2>3, <2>4, <2>5, <2>6 DEF IsTaken
<1> QED
  BY <1>1, <1>2, <1>3, <1>4

-----------------------------------------------------------------------------
(* What the first k options of an element leave. *)
AsksAt(x, k) == x.value # "" => \A j \in 1 .. k : x.options[j] # Last(x.options)
Says(x, k, o) == o \in Informs \cup Flags /\ \E j \in 1 .. k : x.options[j] = o /\ AsksAt(x, j)
SaysCount(x, k) == \E j \in 1 .. k : x.options[j] = "workers"
HasBad(x, k) == \E j \in 1 .. k : Bad(x, x.options[j])
IsOver(x, k) == x.value # "" /\ Last(x.options) # "workers" /\ \E j \in 1 .. k : x.options[j] = Last(x.options)

IsRead(d, c, x, k) ==
  /\ d.informs = c.informs \cup {o \in Informs : Says(x, k, o)}
  /\ \A o \in Flags : o \in d.flags <=> \/ o \in c.flags
                                        \/ IF o = "workers" THEN x.value = "4" /\ SaysCount(x, k) ELSE Says(x, k, o)
  /\ d.isValueDue <=> x.value = "" /\ SaysCount(x, k)
  /\ c.error # <<>> \/ ~HasBad(x, k) => d.error = c.error
  /\ c.error = <<>> /\ HasBad(x, k) => d.error # <<>>

Readings(c, x) == [cli : Clis(c, x), element : {x}, isEnded : BOOLEAN]

LEMMA OptionIsRead ==
  ASSUME NEW x, IsArgument(x), NEW c, c.isValueDue = FALSE, NEW r \in Readings(c, x), NEW k \in 1 .. Len(x.options),
         IsRead(r.cli, c, x, k - 1), r.isEnded <=> IsOver(x, k - 1)
  PROVE  LET s == ReadOption(r, x.options[k])
         IN  s \in Readings(c, x) /\ IsRead(s.cli, c, x, k) /\ (s.isEnded <=> IsOver(x, k))
<1> DEFINE s == ReadOption(r, x.options[k])
           o == x.options[k]
           N == Len(x.options)
<1> SUFFICES s \in Readings(c, x) /\ IsRead(s.cli, c, x, k) /\ (s.isEnded <=> IsOver(x, k))
  OBVIOUS
<1>0. /\ N \in Nat /\ k \in 1 .. N /\ k \in Nat /\ k - 1 \in Nat /\ k # 0
      /\ o \in ToSet(x.options) /\ r.cli \in Clis(c, x) /\ r.element = x /\ r.isEnded \in BOOLEAN
      /\ \A i \in 1 .. N - 1 : x.options[i] # "workers"
  <2>1. x.options \in Seq(ToSet(x.options)) /\ \A i \in 1 .. N - 1 : x.options[i] # "workers"
    BY DEF IsArgument
  <2>2. N \in Nat /\ o \in ToSet(x.options)
    BY <2>1
  <2> HIDE DEF N, o
  <2> QED
    BY <2>1, <2>2 DEF Readings, N
<1>1. \A j \in 1 .. k : j \in 1 .. k - 1 \/ j = k
  BY <1>0
<1>2. \A j \in 1 .. k - 1 : j \in 1 .. k /\ j \in 1 .. N - 1
  BY <1>0
<1>3. k \in 1 .. k /\ (k \in 1 .. N - 1 \/ k = N)
  BY <1>0
<1>4. (o = "workers" => k = N /\ Last(x.options) = "workers") /\ Last(x.options) = x.options[N]
  BY <1>0, <1>3 DEF Last
<1>5. \A j \in 1 .. k - 1 : x.options[j] # "workers"
  BY <1>0, <1>2
<1>6. /\ SaysCount(x, k) <=> o = "workers"
      /\ ~SaysCount(x, k - 1)
  BY <1>1, <1>3, <1>5 DEF SaysCount
<1>7. HasBad(x, k) <=> HasBad(x, k - 1) \/ Bad(x, o)
  BY <1>1, <1>2, <1>3 DEF HasBad
<1>8. \A p : Says(x, k, p) <=> Says(x, k - 1, p) \/ (p \in Informs \cup Flags /\ p = o /\ AsksAt(x, k))
  BY <1>1, <1>2, <1>3 DEF Says
<1>9. IsOver(x, k) <=> IsOver(x, k - 1) \/ (x.value # "" /\ Last(x.options) # "workers" /\ o = Last(x.options))
  BY <1>1, <1>2, <1>3 DEF IsOver
<1>10. ASSUME IsOver(x, k - 1)
       PROVE  ~AsksAt(x, k) /\ o # "workers" /\ HasBad(x, k - 1)
  <2>1. PICK j \in 1 .. k - 1 : x.options[j] = Last(x.options)
    BY <1>10 DEF IsOver
  <2>2. ~AsksAt(x, k)
    BY <1>2, <1>10, <2>1 DEF AsksAt, IsOver
  <2>3. Bad(x, x.options[j])
    BY <1>10, <2>1 DEF IsOver, Bad, HasValue
  <2>4. o # "workers"
    BY <1>4, <1>10 DEF IsOver
  <2> QED
    BY <2>1, <2>2, <2>3, <2>4 DEF HasBad
<1>11. CASE r.isEnded
  <2>1. s = r
    BY <1>11 DEF ReadOption
  <2>2. IsOver(x, k) /\ IsOver(x, k - 1)
    BY <1>9, <1>11
  <2>3. ~AsksAt(x, k) /\ o # "workers" /\ HasBad(x, k - 1)
    BY <1>10, <2>2
  <2>4. \A p : Says(x, k, p) <=> Says(x, k - 1, p)
    BY <1>8, <2>3
  <2>5. IsRead(r.cli, c, x, k)
    BY <1>6, <1>7, <2>3, <2>4 DEF IsRead
  <2> HIDE DEF s
  <2> QED
    BY <1>11, <2>1, <2>2, <2>5
<1>12. CASE ~r.isEnded
  <2> DEFINE d == TakeOption(r.cli, x, o)
             e == o # "workers" /\ HasValue(x, o)
  <2>1. s = [r EXCEPT !.cli = d, !.isEnded = e]
    BY <1>0, <1>12 DEF ReadOption
  <2>2. d \in Clis(c, x) /\ IsTaken(d, r.cli, x, o)
    BY <1>0, OptionIsTaken
  <2>3. s \in Readings(c, x) /\ s.cli = d /\ s.isEnded = e
    <3>1. e \in BOOLEAN
      BY DEF HasValue
    <3> HIDE DEF d, e, s
    <3> QED
      BY <2>1, <2>2, <3>1 DEF Readings
  <2>4. ~IsOver(x, k - 1)
    BY <1>12
  <2>5. IsOver(x, k) <=> e
    BY <1>9, <2>4, <1>4 DEF HasValue
  <2>6. o # "workers" /\ o \in Options => (AsksAt(x, k) <=> Obeys(x, o))
    <3> SUFFICES ASSUME o # "workers", o \in Options
                 PROVE  AsksAt(x, k) <=> ~HasValue(x, o)
      BY DEF Obeys, Bad
    <3>1. CASE Last(x.options) = "workers"
      BY <1>1, <1>5, <3>1 DEF AsksAt, HasValue
    <3>2. CASE Last(x.options) # "workers"
      BY <1>1, <1>3, <2>4, <3>2 DEF AsksAt, HasValue, IsOver
    <3> QED
      BY <3>1, <3>2
  <2>7. Options = Flags \cup Informs /\ "workers" \notin Informs /\ "workers" \in Flags
    BY OptionsAre DEF Flags, Informs
  <2>8. \A p \in Informs \cup Flags : p # "workers" => (Says(x, k, p) <=> Says(x, k - 1, p) \/ (p = o /\ Obeys(x, o)))
    BY <1>8, <2>6, <2>7
  <2>9. d.informs = c.informs \cup {p \in Informs : Says(x, k, p)}
    BY <2>2, <2>7, <2>8 DEF IsRead, IsTaken
  <2>10. ASSUME NEW p \in Flags
         PROVE  p \in d.flags <=> \/ p \in c.flags
                                  \/ IF p = "workers" THEN x.value = "4" /\ SaysCount(x, k) ELSE Says(x, k, p)
    <3>1. p \in d.flags <=> p \in r.cli.flags \/ (p = o /\ Obeys(x, o))
      BY <2>2 DEF IsTaken
    <3>2. CASE p = "workers"
      <4>1. p \in r.cli.flags <=> p \in c.flags
        BY <1>6, <3>2 DEF IsRead
      <4>2. o = "workers" => (Obeys(x, o) <=> x.value = "4")
        BY <2>7 DEF Obeys, Bad
      <4> QED
        BY <1>6, <3>1, <3>2, <4>1, <4>2
    <3>3. CASE p # "workers"
      BY <2>8, <3>1, <3>3 DEF IsRead
    <3> QED
      BY <3>2, <3>3
  <2>11. d.isValueDue <=> x.value = "" /\ SaysCount(x, k)
    BY <1>6, <2>2 DEF IsRead, IsTaken
  <2>12. /\ c.error # <<>> \/ ~HasBad(x, k) => d.error = c.error
         /\ c.error = <<>> /\ HasBad(x, k) => d.error # <<>>
    BY <1>7, <2>2 DEF IsRead, IsTaken
  <2>13. IsRead(d, c, x, k)
    <3> HIDE DEF d
    <3> QED
      BY <2>9, <2>10, <2>11, <2>12 DEF IsRead
  <2> HIDE DEF d, e, s
  <2> QED
    BY <2>3, <2>5, <2>13
<1> QED
  BY <1>11, <1>12

LEMMA ReadingsAreKept ==
  ASSUME NEW c, NEW x, NEW r \in Readings(c, x), NEW o \in ToSet(x.options)
  PROVE  ReadOption(r, o) \in Readings(c, x)
<1>1. r.cli \in Clis(c, x) /\ r.element = x
  BY DEF Readings
<1>2. PICK d \in Clis(c, x) : d = TakeOption(r.cli, x, o)
  BY <1>1, OptionIsTaken
<1>3. PICK e \in BOOLEAN : e = (o # "workers" /\ HasValue(x, o))
  BY DEF HasValue
<1>4. CASE r.isEnded
  BY <1>4 DEF ReadOption
<1>5. CASE ~r.isEnded
  <2>1. ReadOption(r, o) = [r EXCEPT !.cli = d, !.isEnded = e]
    BY <1>1, <1>2, <1>3, <1>5 DEF ReadOption
  <2> QED
    BY <2>1 DEF Readings
<1> QED
  BY <1>4, <1>5

LEMMA ElementIsRead ==
  ASSUME NEW x, IsArgument(x), NEW c, c \in Clis(c, x), c.isValueDue = FALSE
  PROVE  /\ ReadOptions(c, x) \in Clis(c, x)
         /\ IsRead(ReadOptions(c, x), c, x, Len(x.options))
<1> DEFINE V == Readings(c, x)
           options == x.options
           N == Len(options)
           base == [cli |-> c, element |-> x, isEnded |-> FALSE]
           step == [p \in Nat \X V |-> IF p[1] \in 1 .. N THEN ReadOption(p[2], options[p[1]]) ELSE p[2]]
           iter == CHOOSE iter : iter = [s \in SUBSET (DOMAIN options) |->
                     IF s = {} THEN base ELSE ReadOption(iter[s \ {Max(s)}], options[Max(s)])]
<1>0. N \in Nat /\ DOMAIN options = 1 .. N /\ \A k \in 1 .. N : options[k] \in ToSet(options)
  <2>1. options \in Seq(ToSet(options))
    BY DEF IsArgument
  <2> HIDE DEF options
  <2> QED
    BY <2>1
<1>1. FoldLeft(ReadOption, base, options) = iter[1 .. N]
  <2> HIDE DEF base
  <2> QED
    BY <1>0 DEF FoldLeft, MapThenFoldSet
<1>2. ASSUME NEW r \in V, NEW k \in 1 .. N
      PROVE  ReadOption(r, options[k]) \in V
  BY <1>0, ReadingsAreKept
<1>3. step \in [Nat \X V -> V] /\ base \in V
  <2>1. \A p \in Nat \X V : p[2] \in V
    OBVIOUS
  <2>2. base \in V
    BY DEF Readings
  <2> HIDE DEF V, base, N, options
  <2> QED
    BY <1>2, <2>1, <2>2
<1>4. PICK f \in [SUBSET (1 .. N) -> V] : Folds(f, N, base, step)
  <2> HIDE DEF step, V, N, base
  <2> QED
    BY <1>0, <1>3, FoldExists
<1>5. iter = [s \in SUBSET (1 .. N) |->
                IF s = {} THEN base ELSE ReadOption(iter[s \ {Max(s)}], options[Max(s)])]
  <2>1. ASSUME NEW s \in SUBSET (1 .. N), s # {}
        PROVE  step[<<Max(s), f[s \ {Max(s)}]>>] = ReadOption(f[s \ {Max(s)}], options[Max(s)])
    <3>1. Max(s) \in s
      <4> HIDE DEF N
      <4> QED
        BY <1>0, <2>1, MaxOfSome
    <3>2. Max(s) \in 1 .. N /\ Max(s) \in Nat /\ s \ {Max(s)} \in SUBSET (1 .. N)
      <4>1. PICK m \in s : m = Max(s)
        BY <3>1
      <4>2. m \in 1 .. N /\ m \in Nat
        BY <1>0
      <4> QED
        BY <4>1, <4>2
    <3>3. f[s \ {Max(s)}] \in V
      <4> HIDE DEF V
      <4> QED
        BY <1>4, <3>2
    <3> HIDE DEF V, N, options, base
    <3> QED
      BY <3>2, <3>3
  <2>2. f = [s \in SUBSET (DOMAIN options) |->
               IF s = {} THEN base ELSE ReadOption(f[s \ {Max(s)}], options[Max(s)])]
    <3> HIDE DEF step, V, N, base, options
    <3> QED
      BY <1>0, <1>4, <2>1 DEF Folds
  <2> HIDE DEF base, N, V, options, step
  <2> QED
    BY <1>0, <2>2
<1> DEFINE u == [k \in 0 .. N |-> iter[1 .. k]]
<1>6. u[0] = base
  <2>1. 1 .. 0 = {} /\ 0 \in 0 .. N /\ {} \in SUBSET (1 .. N)
    BY <1>0
  <2>2. iter[{}] = base
    <3> HIDE DEF iter, base
    <3> QED
      BY <1>5, <2>1
  <2> HIDE DEF iter, base
  <2> QED
    BY <2>1, <2>2
<1>7. ASSUME NEW k \in 1 .. N
      PROVE  u[k] = ReadOption(u[k - 1], options[k])
  <2>1. /\ k \in Nat /\ k # 0 /\ (1 .. k) # {} /\ (1 .. k) \in SUBSET (1 .. N)
        /\ k \in 0 .. N /\ k - 1 \in 0 .. N
    <3> HIDE DEF N, iter, step, V, u
    <3>1. N \in Nat /\ 1 <= k /\ k <= N /\ k \in Nat
      BY <1>0
    <3>2. \A i \in 1 .. k : i \in 1 .. N
      BY <3>1
    <3>3. k \in 1 .. k
      BY <3>1
    <3>4. (1 .. k) # {} /\ (1 .. k) \in SUBSET (1 .. N)
      BY <3>2, <3>3
    <3>5. k # 0 /\ k \in 0 .. N /\ k - 1 \in 0 .. N
      BY <3>1
    <3> QED
      BY <3>1, <3>4, <3>5
  <2>2. Max(1 .. k) = k /\ ((1 .. k) \ {k}) = 1 .. (k - 1)
    BY <2>1, MaxUpTo
  <2>3. iter[1 .. k] = ReadOption(iter[1 .. (k - 1)], options[k])
    <3> HIDE DEF iter, base
    <3> QED
      BY <1>5, <2>1, <2>2
  <2> HIDE DEF iter
  <2> QED
    BY <2>1, <2>3
<1>8. u[N] = iter[1 .. N]
  <2> HIDE DEF iter
  <2> QED
    BY <1>0
<1> HIDE DEF u, iter
<1> DEFINE Good(k) == u[k] \in V /\ IsRead(u[k].cli, c, x, k) /\ (u[k].isEnded <=> IsOver(x, k))
<1>9. Good(0)
  <2>1. 1 .. 0 = {} /\ base.cli = c /\ base.isEnded = FALSE
    OBVIOUS
  <2>2. /\ \A o : ~Says(x, 0, o)
        /\ ~SaysCount(x, 0) /\ ~HasBad(x, 0) /\ ~IsOver(x, 0)
    BY <2>1 DEF Says, SaysCount, HasBad, IsOver
  <2>3. c.informs \subseteq Informs
    BY DEF Clis
  <2>4. IsRead(c, c, x, 0)
    BY <2>2, <2>3 DEF IsRead
  <2> QED
    BY <1>3, <1>6, <2>1, <2>2, <2>4
<1>10. ASSUME NEW k \in 1 .. N, Good(k - 1)
       PROVE  Good(k)
  <2>1. u[k - 1] \in Readings(c, x)
    BY <1>10
  <2>2. PICK r \in Readings(c, x) : r = u[k - 1]
    BY <2>1
  <2>3. IsRead(r.cli, c, x, k - 1) /\ (r.isEnded <=> IsOver(x, k - 1))
    BY <1>10, <2>2
  <2>4. PICK q : q = ReadOption(r, x.options[k])
    OBVIOUS
  <2>5. q \in Readings(c, x) /\ IsRead(q.cli, c, x, k) /\ (q.isEnded <=> IsOver(x, k))
    BY <2>3, <2>4, OptionIsRead
  <2>6. u[k] = q
    BY <1>7, <2>2, <2>4
  <2> QED
    BY <2>5, <2>6
<1>11. Good(N)
  <2> DEFINE K == {k \in Nat : k \in 0 .. N => Good(k)}
  <2>1. 0 \in K
    BY <1>9
  <2>2. ASSUME NEW k \in K
        PROVE  k + 1 \in K
    <3>1. CASE k + 1 \in 0 .. N
      <4> HIDE DEF Good, N
      <4>1. PICK m \in 1 .. N : m = k + 1
        BY <1>0, <3>1
      <4>2. Good(m - 1) /\ m \in Nat
        BY <1>0, <4>1
      <4>3. Good(m)
        BY <1>10, <4>2
      <4> QED
        BY <4>1, <4>2, <4>3
    <3>2. CASE k + 1 \notin 0 .. N
      BY <3>2
    <3> QED
      BY <3>1, <3>2
  <2> HIDE DEF K
  <2>3. K = Nat
    <3>1. K \in SUBSET Nat
      BY DEF K
    <3> QED
      BY <2>1, <2>2, <3>1, SetInduction
  <2>4. N \in K /\ N \in 0 .. N
    BY <1>0, <2>3
  <2> HIDE DEF Good, N
  <2> QED
    BY <2>4 DEF K
<1>12. ReadOptions(c, x) = u[N].cli
  BY <1>1, <1>8 DEF ReadOptions
<1>13. u[N].cli \in Clis(c, x)
  BY <1>11 DEF Readings
<1> QED
  BY <1>11, <1>12, <1>13

-----------------------------------------------------------------------------
(* A command line as a sequence: what its first n elements say, each where  *)
(* it stands.  A count is due when the last of them has yet to get its own. *)
IsLine(a) == IsSeq(a) /\ \A i \in 1 .. Len(a) : IsArgument(a[i])

IsCountIn(a, i) == i > 1 /\ IsWord(a[i]) /\ IsBareCount(a[i - 1])
WordsIn(a, n) == {i \in 1 .. n : IsWord(a[i]) /\ ~IsCountIn(a, i)}
AsksIn(a, i, option) ==
  \E k \in DOMAIN a[i].options :
    /\ a[i].options[k] = option
    /\ a[i].value # "" => \A j \in 1 .. k : a[i].options[j] # Last(a[i].options)
HasCountIn(a, i) ==
  \/ a[i].value = "4" /\ Last(a[i].options) = "workers"
  \/ IsBareCount(a[i]) /\ i < Len(a) /\ IsWord(a[i + 1]) /\ a[i + 1].value = "4"
IsFaultyIn(a, i) ==
  /\ ~IsWord(a[i])
  /\ \/ ~(ToSet(a[i].options) \subseteq Options)
     \/ "workers" \in ToSet(a[i].options) /\ ~HasCountIn(a, i)
     \/ a[i].value # "" /\ Last(a[i].options) # "workers"
GivesIn(a, i, flag) == IF flag = "workers" THEN ~IsWord(a[i]) /\ HasCountIn(a, i) ELSE AsksIn(a, i, flag)

\* What is known of an element: all, or for one whose count is due what its options say.
FaultyTo(a, i, due) == IF due THEN HasBad(a[i], Len(a[i].options)) ELSE IsFaultyIn(a, i)
GivesTo(a, i, flag, due) == GivesIn(a, i, flag) /\ ~(due /\ flag = "workers")

KnowsInforms(informs, a, n) == \A o \in Informs : o \in informs <=> \E i \in 1 .. n : AsksIn(a, i, o)
KnowsFlags(flags, a, n, due) ==
  \A flag \in Flags : flag \in flags <=> \E i \in 1 .. n : GivesTo(a, i, flag, due /\ i = n)
KnowsError(error, a, n, due) ==
  /\ error # <<>> <=> \E i \in 1 .. n : FaultyTo(a, i, due /\ i = n)
  /\ error # <<>> => \E i \in 1 .. n : /\ FaultyTo(a, i, due /\ i = n)
                                       /\ \A j \in 1 .. i - 1 : ~IsFaultyIn(a, j)
                                       /\ error[2] \in ToSet(a[i].options)
KnowsWords(words, a, n) ==
  /\ IsSeq(words)
  /\ words = <<>> <=> WordsIn(a, n) = {}
  /\ words # <<>> => \E i \in WordsIn(a, n) : /\ a[i].value = words[1]
                                              /\ Len(words) = 1 <=> WordsIn(a, n) = {i}
IsCli(c) ==
  c \in [action : {"none"}, command : {"none"}, informs : SUBSET Informs, flags : SUBSET Flags,
         error : {c.error}, words : {c.words}, isValueDue : BOOLEAN]

Knows(c, a, n, due) ==
  /\ IsCli(c) /\ c.isValueDue = due
  /\ due => n > 0 /\ IsBareCount(a[n])
  /\ KnowsInforms(c.informs, a, n) /\ KnowsFlags(c.flags, a, n, due)
  /\ KnowsError(c.error, a, n, due) /\ KnowsWords(c.words, a, n)

LEMMA ArgumentIs ==
  ASSUME NEW x, IsArgument(x)
  PROVE  /\ Len(x.options) \in Nat /\ DOMAIN x.options = 1 .. Len(x.options)
         /\ IsWord(x) <=> Len(x.options) = 0
         /\ ToSet(x.options) = {x.options[i] : i \in 1 .. Len(x.options)}
<1>1. PICK S : x.options \in Seq(S)
  BY DEF IsArgument
<1>2. PICK s \in Seq(S) : s = x.options
  BY <1>1
<1>3. Len(s) \in Nat /\ DOMAIN s = 1 .. Len(s) /\ (s = <<>> <=> Len(s) = 0)
  OBVIOUS
<1> QED
  BY <1>2, <1>3 DEF IsWord, ToSet

(* The options of one element, as a whole. *)
LEMMA ElementSays ==
  ASSUME NEW a, NEW i, IsArgument(a[i]), ~IsWord(a[i])
  PROVE  LET x == a[i]
             N == Len(x.options)
         IN  /\ \A o \in Informs \cup Flags : Says(x, N, o) <=> AsksIn(a, i, o)
             /\ SaysCount(x, N) <=> Last(x.options) = "workers"
             /\ x.value = "" /\ SaysCount(x, N) <=> IsBareCount(x)
             /\ x.value = "4" /\ SaysCount(x, N) => HasCountIn(a, i)
             /\ HasCountIn(a, i) => SaysCount(x, N) /\ x.value \in {"", "4"}
             /\ IsBareCount(x) => (IsFaultyIn(a, i) <=> HasBad(x, N) \/ ~HasCountIn(a, i))
             /\ ~IsBareCount(x) => (IsFaultyIn(a, i) <=> HasBad(x, N))
             /\ ~IsBareCount(x) => (HasCountIn(a, i) <=> x.value = "4" /\ SaysCount(x, N))
<1> DEFINE x == a[i]
           N == Len(x.options)
<1>1. /\ N \in Nat /\ DOMAIN x.options = 1 .. N /\ N # 0 /\ N \in 1 .. N
      /\ ToSet(x.options) = {x.options[k] : k \in 1 .. N}
      /\ \A k \in 1 .. N : k \in 1 .. N - 1 \/ k = N
      /\ Last(x.options) = x.options[N]
  <2>1. N \in Nat /\ DOMAIN x.options = 1 .. N /\ N # 0 /\ ToSet(x.options) = {x.options[k] : k \in 1 .. N}
    BY ArgumentIs
  <2> HIDE DEF N
  <2>2. N \in 1 .. N /\ \A k \in 1 .. N : k \in 1 .. N - 1 \/ k = N
    BY <2>1
  <2> QED
    BY <2>1, <2>2 DEF Last, N
<1>2. \A k \in 1 .. N : x.options[k] = "workers" => k = N
  BY <1>1 DEF IsArgument
<1>3. SaysCount(x, N) <=> Last(x.options) = "workers"
  BY <1>1, <1>2 DEF SaysCount
<1>4. SaysCount(x, N) <=> "workers" \in ToSet(x.options)
  BY <1>1 DEF SaysCount
<1>5. \A o \in Informs \cup Flags : Says(x, N, o) <=> AsksIn(a, i, o)
  BY <1>1 DEF Says, AsksAt, AsksIn
<1>6. x.value = "" /\ SaysCount(x, N) <=> IsBareCount(x)
  BY <1>3 DEF IsBareCount, IsWord
<1>7. HasBad(x, N) <=> \/ ~(ToSet(x.options) \subseteq Options)
                       \/ SaysCount(x, N) /\ x.value \notin {"", "4"}
                       \/ x.value # "" /\ Last(x.options) # "workers"
  <2>1. HasBad(x, N) <=> \E o \in ToSet(x.options) : Bad(x, o)
    BY <1>1 DEF HasBad
  <2>2. Last(x.options) \in ToSet(x.options)
    BY <1>1
  <2> QED
    BY <1>3, <1>4, <2>1, <2>2 DEF Bad, HasValue
<1>8. ~IsBareCount(x) => (HasCountIn(a, i) <=> x.value = "4" /\ SaysCount(x, N))
  BY <1>3 DEF HasCountIn
<1>9. HasCountIn(a, i) => SaysCount(x, N) /\ x.value \in {"", "4"}
  BY <1>3 DEF HasCountIn, IsBareCount
<1>10. x.value = "4" /\ SaysCount(x, N) => HasCountIn(a, i)
  BY <1>3 DEF HasCountIn
<1>11. IsFaultyIn(a, i) <=> \/ ~(ToSet(x.options) \subseteq Options)
                            \/ SaysCount(x, N) /\ ~HasCountIn(a, i)
                            \/ x.value # "" /\ Last(x.options) # "workers"
  BY <1>4 DEF IsFaultyIn
<1>12. IsBareCount(x) => (IsFaultyIn(a, i) <=> HasBad(x, N) \/ ~HasCountIn(a, i))
  BY <1>6, <1>7, <1>11
<1>13. ~IsBareCount(x) => (IsFaultyIn(a, i) <=> HasBad(x, N))
  BY <1>6, <1>7, <1>8, <1>11
<1> QED
  BY <1>3, <1>5, <1>6, <1>8, <1>9, <1>10, <1>12, <1>13

LEMMA WordSaysNothing ==
  ASSUME NEW a, NEW i, IsArgument(a[i]), IsWord(a[i])
  PROVE  ~IsFaultyIn(a, i) /\ \A o : ~AsksIn(a, i, o) /\ ~GivesIn(a, i, o)
<1>1. DOMAIN a[i].options = {}
  BY ArgumentIs
<1> QED
  BY <1>1 DEF IsFaultyIn, AsksIn, GivesIn

LEMMA BareIs ==
  ASSUME NEW x, IsBareCount(x)
  PROVE  x.value = "" /\ ~IsWord(x)
BY DEF IsBareCount, IsWord

LEMMA Positions ==
  ASSUME NEW n \in Nat
  PROVE  /\ n + 1 - 1 = n /\ ~(n < n) /\ n < n + 1 /\ (n + 1 > 1 => n > 0)
         /\ n > 0 => n \in 1 .. n /\ n \in 1 .. n + 1 /\ n + 1 > 1
OBVIOUS

LEMMA UpTo ==
  ASSUME NEW n \in Nat
  PROVE  /\ n + 1 \in Nat /\ n + 1 \in 1 .. n + 1
         /\ \A i \in 1 .. n : i \in 1 .. n + 1 /\ i # n + 1
         /\ \A i \in 1 .. n + 1 : i \in 1 .. n \/ i = n + 1
OBVIOUS

(* The count that was due comes, or does not. *)
LEMMA CountIsSettled ==
  ASSUME NEW a, NEW n \in Nat, IsArgument(a[n]), NEW c, Knows(c, a, n, TRUE), NEW v, v = "4" <=> HasCountIn(a, n)
  PROVE  Knows(TakeWorkers(c, v), a, n, FALSE)
<1> DEFINE taken == [c EXCEPT !.isValueDue = FALSE]
           d == TakeWorkers(c, v)
           x == a[n]
           N == Len(x.options)
<1> SUFFICES Knows(d, a, n, FALSE)
  OBVIOUS
<1>1. n > 0 /\ n \in 1 .. n /\ IsBareCount(x) /\ ~IsWord(x) /\ IsCli(c)
  <2>1. n > 0 /\ IsBareCount(x) /\ IsCli(c)
    BY Zenon DEF Knows
  <2>2. ~IsWord(x)
    BY <2>1 DEF IsBareCount, IsWord
  <2> QED
    BY <2>1, <2>2
<1>2. /\ IsCli(taken) /\ taken.informs = c.informs /\ taken.flags = c.flags
      /\ taken.error = c.error /\ taken.words = c.words /\ taken.isValueDue = FALSE
  BY <1>1 DEF IsCli
<1>3. IsFaultyIn(a, n) <=> HasBad(x, N) \/ ~HasCountIn(a, n)
  BY <1>1, ElementSays
<1>4. "workers" \in Flags /\ "workers" \in ToSet(x.options)
  <2>1. Last(x.options) = "workers" /\ N # 0 /\ N \in Nat
    BY <1>1, ArgumentIs DEF IsBareCount
  <2>2. Last(x.options) \in ToSet(x.options)
    <3>1. N \in 1 .. N
      <4> HIDE DEF N
      <4> QED
        BY <2>1
    <3>2. x.options[N] \in {x.options[k] : k \in 1 .. N}
      BY <3>1
    <3> QED
      BY <3>2, ArgumentIs DEF Last
  <2> QED
    BY <2>1, <2>2 DEF Flags
<1>5. \A i \in 1 .. n : i # n => (FaultyTo(a, i, FALSE) <=> FaultyTo(a, i, TRUE /\ i = n))
  BY DEF FaultyTo
<1>6. FaultyTo(a, n, TRUE) <=> HasBad(x, N)
  BY DEF FaultyTo
<1>7. \A i : FaultyTo(a, i, FALSE) <=> IsFaultyIn(a, i)
  BY DEF FaultyTo
<1>8. \A i \in 1 .. n : \A j \in 1 .. i - 1 : j \in 1 .. n /\ j # n
  OBVIOUS
<1>9. /\ \A i : \A flag : GivesTo(a, i, flag, FALSE) <=> GivesIn(a, i, flag)
      /\ \A flag : GivesTo(a, n, flag, TRUE) <=> GivesIn(a, n, flag) /\ flag # "workers"
      /\ GivesIn(a, n, "workers") <=> HasCountIn(a, n)
  BY <1>1 DEF GivesTo, GivesIn
<1>10. CASE v = "4"
  <2>1. d = [taken EXCEPT !.flags = @ \cup {"workers"}]
    BY <1>10 DEF TakeWorkers
  <2>2. /\ IsCli(d) /\ d.informs = c.informs /\ d.flags = c.flags \cup {"workers"}
        /\ d.error = c.error /\ d.words = c.words /\ d.isValueDue = FALSE
    <3> HIDE DEF d, taken
    <3> QED
      BY <1>2, <1>4, <2>1 DEF IsCli
  <2> HIDE DEF d, taken
  <2>3. \A i \in 1 .. n : IsFaultyIn(a, i) <=> FaultyTo(a, i, TRUE /\ i = n)
    BY <1>3, <1>5, <1>6, <1>7, <1>10
  <2>4. KnowsError(d.error, a, n, FALSE)
    BY <1>7, <2>2, <2>3 DEF Knows, KnowsError
  <2>5. KnowsFlags(d.flags, a, n, FALSE)
    BY <1>1, <1>9, <1>10, <2>2 DEF Knows, KnowsFlags
  <2> QED
    BY <2>2, <2>4, <2>5 DEF Knows
<1>11. CASE v # "4"
  <2> DEFINE what == IF v = "" THEN "no count" ELSE "not a count"
  <2>1. d = RecordError(taken, what, "workers")
    BY <1>11 DEF TakeWorkers
  <2>2. /\ IsCli(d) /\ d.informs = c.informs /\ d.flags = c.flags /\ d.words = c.words /\ d.isValueDue = FALSE
        /\ c.error # <<>> => d.error = c.error
        /\ c.error = <<>> => d.error # <<>> /\ d.error[2] = "workers"
    <3> HIDE DEF taken, d, what
    <3>1. CASE c.error # <<>>
      <4>1. d = taken
        BY <1>2, <2>1, <3>1 DEF RecordError
      <4> QED
        BY <1>2, <3>1, <4>1
    <3>2. CASE c.error = <<>>
      <4>1. PICK e : e = <<what, "workers">>
        OBVIOUS
      <4>2. d = [taken EXCEPT !.error = e]
        BY <1>2, <2>1, <3>2, <4>1 DEF RecordError
      <4>3. e # <<>> /\ e[2] = "workers"
        BY <4>1
      <4> QED
        BY <1>2, <3>2, <4>2, <4>3 DEF IsCli
    <3> QED
      BY <3>1, <3>2
  <2> HIDE DEF d, taken
  <2>3. IsFaultyIn(a, n)
    BY <1>3, <1>11
  <2>4. KnowsFlags(d.flags, a, n, FALSE)
    BY <1>1, <1>9, <1>11, <2>2 DEF Knows, KnowsFlags
  <2>5. KnowsError(d.error, a, n, FALSE)
    <3>1. CASE c.error # <<>>
      <4>1. PICK i \in 1 .. n : /\ FaultyTo(a, i, TRUE /\ i = n)
                                /\ \A j \in 1 .. i - 1 : ~IsFaultyIn(a, j)
                                /\ c.error[2] \in ToSet(a[i].options)
        BY <3>1 DEF Knows, KnowsError
      <4>2. FaultyTo(a, i, FALSE)
        BY <1>5, <1>7, <2>3, <4>1
      <4> QED
        BY <2>2, <3>1, <4>1, <4>2 DEF KnowsError
    <3>2. CASE c.error = <<>>
      <4>1. \A i \in 1 .. n : ~FaultyTo(a, i, TRUE /\ i = n)
        BY <3>2 DEF Knows, KnowsError
      <4>2. \A j \in 1 .. n - 1 : ~IsFaultyIn(a, j)
        BY <1>1, <1>5, <1>7, <1>8, <4>1
      <4> QED
        BY <1>1, <1>4, <1>7, <2>2, <2>3, <3>2, <4>2 DEF KnowsError
    <3> QED
      BY <3>1, <3>2
  <2> QED
    BY <2>2, <2>4, <2>5 DEF Knows
<1> QED
  BY <1>10, <1>11

(* One more word: what is known of the options stays. *)
LEMMA WordIsPassed ==
  ASSUME NEW a, NEW n \in Nat, IsArgument(a[n + 1]), IsWord(a[n + 1]),
         NEW c, Knows(c, a, n, FALSE)
  PROVE  KnowsInforms(c.informs, a, n + 1) /\ KnowsFlags(c.flags, a, n + 1, FALSE) /\ KnowsError(c.error, a, n + 1, FALSE)
<1>1. ~IsFaultyIn(a, n + 1) /\ \A o : ~AsksIn(a, n + 1, o) /\ ~GivesIn(a, n + 1, o)
  BY WordSaysNothing
<1>2. /\ n + 1 \in Nat /\ n + 1 \in 1 .. n + 1
      /\ \A i \in 1 .. n : i \in 1 .. n + 1 /\ i # n + 1
      /\ \A i \in 1 .. n + 1 : i \in 1 .. n \/ i = n + 1
  BY UpTo
<1>3. \A i : FaultyTo(a, i, FALSE) <=> IsFaultyIn(a, i)
  BY DEF FaultyTo
<1>4. \A i : \A flag : GivesTo(a, i, flag, FALSE) <=> GivesIn(a, i, flag)
  BY DEF GivesTo
<1>5. KnowsInforms(c.informs, a, n + 1)
  BY <1>1, <1>2 DEF Knows, KnowsInforms
<1>6. KnowsFlags(c.flags, a, n + 1, FALSE)
  BY <1>1, <1>2, <1>4 DEF Knows, KnowsFlags
<1>7. KnowsError(c.error, a, n + 1, FALSE)
  BY <1>1, <1>2, <1>3 DEF Knows, KnowsError
<1> QED
  BY <1>5, <1>6, <1>7

LEMMA CountIsPassed ==
  ASSUME NEW a, NEW n \in Nat, IsArgument(a[n + 1]), IsCountIn(a, n + 1),
         NEW c, Knows(c, a, n, FALSE)
  PROVE  Knows(c, a, n + 1, FALSE)
<1>1. IsWord(a[n + 1])
  BY DEF IsCountIn
<1>2. WordsIn(a, n + 1) = WordsIn(a, n)
  BY UpTo DEF WordsIn
<1>3. KnowsWords(c.words, a, n + 1)
  BY <1>2 DEF Knows, KnowsWords
<1> QED
  BY <1>1, <1>3, WordIsPassed DEF Knows

LEMMA WordIsRead ==
  ASSUME NEW a, NEW n \in Nat, IsArgument(a[n + 1]), IsWord(a[n + 1]), ~IsCountIn(a, n + 1),
         NEW c, Knows(c, a, n, FALSE)
  PROVE  Knows([c EXCEPT !.words = Append(@, a[n + 1].value)], a, n + 1, FALSE)
<1> DEFINE v == a[n + 1].value
           words == Append(c.words, v)
           d == [c EXCEPT !.words = words]
<1>1. IsCli(c) /\ c.isValueDue = FALSE /\ IsSeq(c.words)
  BY DEF Knows, KnowsWords
<1>2. /\ IsCli(d) /\ d.informs = c.informs /\ d.flags = c.flags
      /\ d.error = c.error /\ d.words = words /\ d.isValueDue = FALSE
  <2> HIDE DEF words
  <2> QED
    BY <1>1 DEF IsCli
<1>3. WordsIn(a, n + 1) = WordsIn(a, n) \cup {n + 1} /\ n + 1 \notin WordsIn(a, n)
  BY UpTo DEF WordsIn
<1>4. PICK w \in Seq(ToSet(c.words) \cup {v}) : w = c.words
  <2>1. c.words \in Seq(ToSet(c.words)) /\ ToSet(c.words) \subseteq ToSet(c.words) \cup {v}
    BY <1>1 DEF IsSeq
  <2> QED
    BY <2>1
<1>5. PICK T : T = ToSet(c.words) \cup {v}
  OBVIOUS
<1>6. w \in Seq(T) /\ v \in T
  BY <1>4, <1>5
<1>7. /\ Append(w, v) \in Seq(T) /\ Append(w, v) # <<>>
      /\ Append(w, v)[1] = IF w = <<>> THEN v ELSE w[1]
      /\ Len(Append(w, v)) = 1 <=> w = <<>>
  <2>1. Append(w, v) \in Seq(T) /\ Len(Append(w, v)) = Len(w) + 1 /\ Len(w) \in Nat
    BY <1>6
  <2>2. CASE w = <<>>
    BY <1>6, <2>1, <2>2
  <2>3. CASE w # <<>>
    <3>1. Len(w) > 0
      BY <1>6, <2>3
    <3> QED
      BY <1>6, <2>1, <2>3, <3>1
  <2> QED
    BY <2>2, <2>3
<1>8. IsSeq(words) /\ words # <<>> /\ words[1] = (IF c.words = <<>> THEN v ELSE c.words[1]) /\ (Len(words) = 1 <=> c.words = <<>>)
  BY <1>4, <1>7, SeqIsSeq
<1> HIDE DEF words, d
<1>9. KnowsWords(words, a, n + 1)
  <2>1. CASE c.words = <<>>
    <3>1. WordsIn(a, n) = {}
      BY <2>1 DEF Knows, KnowsWords
    <3>2. WordsIn(a, n + 1) = {n + 1}
      BY <1>3, <3>1
    <3> QED
      BY <1>8, <2>1, <3>2 DEF KnowsWords
  <2>2. CASE c.words # <<>>
    <3>1. PICK i \in WordsIn(a, n) : a[i].value = c.words[1]
      BY <2>2 DEF Knows, KnowsWords
    <3>2. i \in WordsIn(a, n + 1) /\ n + 1 \in WordsIn(a, n + 1) /\ i # n + 1
      BY <1>3, <3>1
    <3>3. WordsIn(a, n + 1) # {i} /\ WordsIn(a, n + 1) # {}
      BY <3>2
    <3> QED
      BY <1>8, <2>2, <3>1, <3>2, <3>3 DEF KnowsWords
  <2> QED
    BY <2>1, <2>2
<1>10. Knows(d, a, n + 1, FALSE)
  BY <1>2, <1>9, WordIsPassed DEF Knows
<1> QED
  BY <1>10 DEF d, words

LEMMA ElementIsPassed ==
  ASSUME NEW a, NEW n \in Nat, IsArgument(a[n + 1]), ~IsWord(a[n + 1]),
         NEW c, Knows(c, a, n, FALSE)
  PROVE  Knows(ReadOptions(c, a[n + 1]), a, n + 1, IsBareCount(a[n + 1]))
<1> DEFINE x == a[n + 1]
           N == Len(x.options)
           bare == IsBareCount(x)
<1>1. c \in Clis(c, x) /\ IsCli(c) /\ c.isValueDue = FALSE
  <2>1. IsCli(c) /\ c.isValueDue = FALSE
    BY Zenon DEF Knows
  <2> QED
    BY <2>1 DEF IsCli, Clis
<1>2. PICK d \in Clis(c, x) : d = ReadOptions(c, x) /\ IsRead(d, c, x, N)
  BY <1>1, ElementIsRead
<1>3. /\ \A o \in Informs \cup Flags : Says(x, N, o) <=> AsksIn(a, n + 1, o)
      /\ SaysCount(x, N) <=> Last(x.options) = "workers"
      /\ x.value = "" /\ SaysCount(x, N) <=> bare
      /\ x.value = "4" /\ SaysCount(x, N) => HasCountIn(a, n + 1)
      /\ ~bare => (IsFaultyIn(a, n + 1) <=> HasBad(x, N))
      /\ ~bare => (HasCountIn(a, n + 1) <=> x.value = "4" /\ SaysCount(x, N))
  BY ElementSays
<1>4. /\ n + 1 \in Nat /\ n + 1 \in 1 .. n + 1 /\ n + 1 > 0
      /\ \A i \in 1 .. n : i \in 1 .. n + 1 /\ i # n + 1
      /\ \A i \in 1 .. n + 1 : i \in 1 .. n \/ i = n + 1
  BY UpTo
<1>5. bare \in BOOLEAN
  BY DEF IsBareCount
<1> HIDE DEF bare, N
<1>6. IsCli(d) /\ d.isValueDue = bare /\ d.words = c.words
  <2>1. d.isValueDue <=> bare
    BY <1>2, <1>3 DEF IsRead
  <2>2. d.isValueDue \in BOOLEAN /\ d.words = c.words
    BY <1>2 DEF Clis
  <2>3. IsCli(d)
    BY <1>1, <1>2 DEF Clis, IsCli
  <2> QED
    BY <1>5, <2>1, <2>2, <2>3
<1>7. KnowsInforms(d.informs, a, n + 1)
  <2>1. ASSUME NEW o \in Informs
        PROVE  o \in d.informs <=> \E i \in 1 .. n + 1 : AsksIn(a, i, o)
    <3>1. o \in d.informs <=> o \in c.informs \/ AsksIn(a, n + 1, o)
      BY <1>2, <1>3 DEF IsRead
    <3>2. o \in c.informs <=> \E i \in 1 .. n : AsksIn(a, i, o)
      BY DEF Knows, KnowsInforms
    <3> QED
      BY <1>4, <3>1, <3>2
  <2> QED
    BY <2>1 DEF KnowsInforms
<1>8. KnowsFlags(d.flags, a, n + 1, bare)
  <2>1. ASSUME NEW o \in Flags
        PROVE  o \in d.flags <=> \E i \in 1 .. n + 1 : GivesTo(a, i, o, bare /\ i = n + 1)
    <3>1. o \in c.flags <=> \E i \in 1 .. n : GivesIn(a, i, o)
      BY DEF Knows, KnowsFlags, GivesTo
    <3>2. o \in d.flags <=> \/ o \in c.flags
                            \/ IF o = "workers" THEN x.value = "4" /\ SaysCount(x, N) ELSE Says(x, N, o)
      BY <1>2 DEF IsRead
    <3>3. GivesTo(a, n + 1, o, bare) <=>
            IF o = "workers" THEN x.value = "4" /\ SaysCount(x, N) ELSE Says(x, N, o)
      <4>1. CASE o = "workers" /\ bare
        BY <1>3, <4>1 DEF GivesTo
      <4>2. CASE o = "workers" /\ ~bare
        BY <1>3, <4>2 DEF GivesTo, GivesIn
      <4>3. CASE o # "workers"
        BY <1>3, <4>3 DEF GivesTo, GivesIn
      <4> QED
        BY <4>1, <4>2, <4>3
    <3>4. \A i \in 1 .. n : GivesTo(a, i, o, bare /\ i = n + 1) <=> GivesIn(a, i, o)
      BY <1>4 DEF GivesTo
    <3>5. \A i : i = n + 1 => (GivesTo(a, i, o, bare /\ i = n + 1) <=> GivesTo(a, n + 1, o, bare))
      BY <1>5 DEF GivesTo
    <3> HIDE DEF x
    <3> QED
      BY <1>4, <3>1, <3>2, <3>3, <3>4, <3>5
  <2> QED
    BY <2>1 DEF KnowsFlags
<1>9. KnowsError(d.error, a, n + 1, bare)
  <2>1. FaultyTo(a, n + 1, bare) <=> HasBad(x, N)
    BY <1>3 DEF FaultyTo, N
  <2>2. \A i \in 1 .. n : FaultyTo(a, i, bare /\ i = n + 1) <=> IsFaultyIn(a, i)
    BY <1>4 DEF FaultyTo
  <2>3. KnowsError(c.error, a, n, FALSE)
    BY DEF Knows
  <2>4. \A i : FaultyTo(a, i, FALSE) <=> IsFaultyIn(a, i)
    BY DEF FaultyTo
  <2>5. CASE c.error # <<>>
    <3>1. d.error = c.error
      BY <1>2, <2>5 DEF IsRead
    <3>2. PICK i \in 1 .. n : IsFaultyIn(a, i) /\ (\A j \in 1 .. i - 1 : ~IsFaultyIn(a, j)) /\ c.error[2] \in ToSet(a[i].options)
      BY <2>3, <2>4, <2>5 DEF KnowsError
    <3> QED
      BY <1>4, <2>2, <2>5, <3>1, <3>2 DEF KnowsError
  <2>6. CASE c.error = <<>>
    <3>1. \A i \in 1 .. n : ~IsFaultyIn(a, i)
      BY <2>3, <2>4, <2>6 DEF KnowsError
    <3>2. d.error # <<>> <=> HasBad(x, N)
      BY <1>2, <2>6 DEF IsRead
    <3>3. d.error # <<>> => d.error[2] \in ToSet(x.options)
      BY <1>2, <2>6 DEF Clis
    <3>4. \A j \in 1 .. n + 1 - 1 : j \in 1 .. n
      OBVIOUS
    <3>5. \A i : i = n + 1 => (FaultyTo(a, i, bare /\ i = n + 1) <=> FaultyTo(a, n + 1, bare))
      BY <1>5 DEF FaultyTo
    <3>6. d.error # <<>> <=> \E i \in 1 .. n + 1 : FaultyTo(a, i, bare /\ i = n + 1)
      BY <1>4, <2>1, <2>2, <3>1, <3>2, <3>5
    <3>7. d.error # <<>> =>
            /\ FaultyTo(a, n + 1, bare /\ n + 1 = n + 1)
            /\ \A j \in 1 .. n + 1 - 1 : ~IsFaultyIn(a, j)
            /\ d.error[2] \in ToSet(a[n + 1].options)
      BY <2>1, <3>1, <3>2, <3>3, <3>4, <3>5
    <3>8. PICK m \in 1 .. n + 1 : m = n + 1
      BY <1>4
    <3>9. d.error # <<>> =>
            /\ FaultyTo(a, m, bare /\ m = n + 1)
            /\ \A j \in 1 .. m - 1 : ~IsFaultyIn(a, j)
            /\ d.error[2] \in ToSet(a[m].options)
      BY <3>7, <3>8
    <3>10. d.error # <<>> =>
            \E i \in 1 .. n + 1 :
              /\ FaultyTo(a, i, bare /\ i = n + 1)
              /\ \A j \in 1 .. i - 1 : ~IsFaultyIn(a, j)
              /\ d.error[2] \in ToSet(a[i].options)
      BY <3>8, <3>9, Zenon
    <3> QED
      BY <3>6, <3>10 DEF KnowsError
  <2> QED
    BY <2>5, <2>6
<1>10. KnowsWords(d.words, a, n + 1)
  <2>1. WordsIn(a, n + 1) = WordsIn(a, n)
    BY UpTo DEF WordsIn
  <2> QED
    BY <1>6, <2>1 DEF Knows, KnowsWords
<1> QED
  BY <1>2, <1>4, <1>6, <1>7, <1>8, <1>9, <1>10 DEF Knows, bare

(* Nothing that comes after an element changes what is known of it.         *)
LEMMA KnownStays ==
  ASSUME NEW a, IsLine(a), NEW x, NEW c, NEW due \in BOOLEAN, Knows(c, a, Len(a), due),
         Len(a) > 0 /\ IsBareCount(a[Len(a)]) => due,
         NEW b, b = Append(a, x)
  PROVE  Knows(c, b, Len(a), due)
<1> DEFINE n == Len(a)
<1>1. /\ n \in Nat /\ Len(b) = n + 1 /\ b[n + 1] = x
      /\ \A i \in 1 .. n : b[i] = a[i] /\ i \in Nat /\ i < n + 1
      /\ \A i \in 1 .. n : i # n => i + 1 \in 1 .. n /\ i < n
      /\ \A i \in 1 .. n : i > 1 => i - 1 \in 1 .. n
      /\ n > 0 => n \in 1 .. n
  <2>1. a \in Seq(ToSet(a) \cup {x}) /\ x \in ToSet(a) \cup {x}
    <3>1. a \in Seq(ToSet(a))
      BY DEF IsLine, IsSeq
    <3>2. PICK S : S = ToSet(a)
      OBVIOUS
    <3>3. a \in Seq(S \cup {x})
      BY <3>1, <3>2
    <3> QED
      BY <3>2, <3>3
  <2>2. n \in Nat /\ Len(b) = n + 1 /\ b[n + 1] = x /\ \A i \in 1 .. n : b[i] = a[i]
    BY <2>1
  <2> HIDE DEF n
  <2> QED
    BY <2>2
<1> HIDE DEF n
<1>2. \A i \in 1 .. n : \A o : AsksIn(b, i, o) <=> AsksIn(a, i, o)
  BY <1>1 DEF AsksIn
<1>3. ASSUME NEW i \in 1 .. n, ~(due /\ i = n)
      PROVE  HasCountIn(b, i) <=> HasCountIn(a, i)
  <2>1. CASE i = n
    <3>1. ~IsBareCount(a[i]) /\ ~IsBareCount(b[i])
      BY <1>1, <1>3, <2>1 DEF n
    <3> QED
      BY <1>1, <3>1 DEF HasCountIn
  <2>2. CASE i # n
    <3>1. i < Len(a) /\ i < Len(b) /\ b[i + 1] = a[i + 1] /\ b[i] = a[i]
      BY <1>1, <2>2 DEF n
    <3> QED
      BY <3>1 DEF HasCountIn
  <2> QED
    BY <2>1, <2>2
<1>4. \A i \in 1 .. n : FaultyTo(b, i, due /\ i = n) <=> FaultyTo(a, i, due /\ i = n)
  BY <1>1, <1>3 DEF FaultyTo, IsFaultyIn
<1>5. \A i \in 1 .. n : \A flag : GivesTo(b, i, flag, due /\ i = n) <=> GivesTo(a, i, flag, due /\ i = n)
  BY <1>1, <1>2, <1>3 DEF GivesTo, GivesIn
<1>6. KnowsInforms(c.informs, b, n)
  BY <1>2 DEF Knows, KnowsInforms, n
<1>7. KnowsFlags(c.flags, b, n, due)
  BY <1>5 DEF Knows, KnowsFlags, n
<1>8. KnowsError(c.error, b, n, due)
  <2>1. KnowsError(c.error, a, n, due)
    BY DEF Knows, n
  <2>2. ASSUME c.error # <<>>
        PROVE  \E i \in 1 .. n : /\ FaultyTo(b, i, due /\ i = n)
                                 /\ \A j \in 1 .. i - 1 : ~IsFaultyIn(b, j)
                                 /\ c.error[2] \in ToSet(b[i].options)
    <3>1. PICK i \in 1 .. n : /\ FaultyTo(a, i, due /\ i = n)
                              /\ \A j \in 1 .. i - 1 : ~IsFaultyIn(a, j)
                              /\ c.error[2] \in ToSet(a[i].options)
      BY <2>1, <2>2 DEF KnowsError
    <3>2. \A j \in 1 .. i - 1 : j \in 1 .. n /\ j # n
      BY <1>1
    <3>3. \A j \in 1 .. i - 1 : ~IsFaultyIn(b, j)
      BY <1>1, <1>3, <3>1, <3>2 DEF IsFaultyIn
    <3> QED
      BY <1>1, <1>4, <3>1, <3>3
  <2> QED
    BY <1>4, <2>1, <2>2 DEF KnowsError
<1>9. KnowsWords(c.words, b, n)
  <2>1. \A i \in 1 .. n : IsWord(b[i]) /\ ~IsCountIn(b, i) <=> IsWord(a[i]) /\ ~IsCountIn(a, i)
    BY <1>1 DEF IsCountIn
  <2>2. WordsIn(b, n) = WordsIn(a, n) /\ \A i \in WordsIn(a, n) : b[i] = a[i]
    BY <1>1, <2>1 DEF WordsIn
  <2>3. KnowsWords(c.words, a, n)
    BY DEF Knows, n
  <2> QED
    BY <2>2, <2>3 DEF KnowsWords
<1>10. due => n > 0 /\ IsBareCount(b[n])
  BY <1>1 DEF Knows, n
<1> QED
  BY <1>6, <1>7, <1>8, <1>9, <1>10 DEF Knows, n

LEMMA ArgumentIsRead ==
  ASSUME NEW a, IsLine(a), NEW x, IsArgument(x), NEW c, NEW due \in BOOLEAN, Knows(c, a, Len(a), due),
         Len(a) > 0 /\ IsBareCount(a[Len(a)]) => due
  PROVE  LET b == Append(a, x)
         IN  IsLine(b) /\ Len(b) = Len(a) + 1 /\ b[Len(b)] = x /\ Knows(ReadArgument(c, x), b, Len(b), IsBareCount(x))
<1> DEFINE n == Len(a)
<1>1. PICK b : b = Append(a, x)
  OBVIOUS
<1>2. n \in Nat /\ IsSeq(b) /\ Len(b) = n + 1 /\ b[n + 1] = x /\ \A i \in 1 .. n : b[i] = a[i]
  <2>1. PICK S : a \in Seq(S) /\ x \in S
    <3>1. a \in Seq(ToSet(a))
      BY DEF IsLine, IsSeq
    <3>2. PICK S : S = ToSet(a)
      OBVIOUS
    <3>3. a \in Seq(S \cup {x})
      BY <3>1, <3>2
    <3> QED
      BY <3>3
  <2>2. b \in Seq(S)
    BY <1>1, <2>1
  <2>3. IsSeq(b)
    BY <2>2, SeqIsSeq
  <2> QED
    BY <1>1, <2>1, <2>3
<1>3. IsLine(b)
  <2>1. \A i \in 1 .. Len(b) : IsArgument(b[i])
    BY <1>2, UpTo DEF IsLine
  <2> QED
    BY <1>2, <2>1 DEF IsLine
<1>4. Knows(c, b, n, due)
  BY <1>1, KnownStays
<1>5. n > 0 /\ IsBareCount(b[n]) <=> due
  <2>1. n > 0 => b[n] = a[n]
    BY <1>2
  <2> QED
    BY <1>4, <2>1 DEF Knows
<1>6. c.isValueDue = due
  BY <1>4 DEF Knows
<1> HIDE DEF n
<1>7. CASE ~IsWord(x)
  <2>1. ReadArgument(c, x) = ReadOptions(Settled(c), x)
    BY <1>7 DEF ReadArgument
  <2>2. Knows(Settled(c), b, n, FALSE)
    <3>1. CASE due
      <4>0. n > 0 /\ b[n].value = ""
        BY <1>5, <3>1, BareIs
      <4>a. n \in 1 .. n /\ n \in 1 .. Len(b)
        BY <1>2, <4>0, Positions
      <4>1. n \in 1 .. n /\ IsArgument(b[n]) /\ b[n].value = ""
        BY <1>3, <4>0, <4>a DEF IsLine
      <4>2. "" = "4" <=> HasCountIn(b, n)
        BY <1>2, <1>7, <4>1 DEF HasCountIn
      <4>3. Knows(c, b, n, TRUE)
        BY <1>4, <3>1
      <4>4. Knows(TakeWorkers(c, ""), b, n, FALSE)
        BY <1>2, <4>1, <4>2, <4>3, CountIsSettled
      <4> QED
        BY <1>6, <3>1, <4>4 DEF Settled
    <3>2. CASE ~due
      <4>1. Knows(c, b, n, FALSE)
        BY <1>4, <3>2
      <4> QED
        BY <1>6, <3>2, <4>1 DEF Settled
    <3> QED
      BY <3>1, <3>2
  <2>3. Knows(ReadOptions(Settled(c), b[n + 1]), b, n + 1, IsBareCount(b[n + 1]))
    BY <1>2, <1>7, <2>2, ElementIsPassed
  <2>4. Knows(ReadArgument(c, x), b, Len(b), IsBareCount(x))
    BY <1>2, <2>1, <2>3
  <2> QED
    BY <1>1, <1>2, <1>3, <2>4 DEF n
<1>8. CASE IsWord(x)
  <2>1. IsBareCount(x) = FALSE
    BY <1>8 DEF IsBareCount, IsWord
  <2>2. Knows(ReadArgument(c, x), b, n + 1, FALSE)
    <3>1. CASE due
      <4>1. n \in 1 .. n /\ n \in 1 .. Len(b) /\ n + 1 > 1 /\ n + 1 - 1 = n /\ n < Len(b) /\ IsBareCount(b[n])
        BY <1>2, <1>5, <3>1, Positions
      <4>a. n \in 1 .. Len(b) /\ b[n].value = ""
        BY <4>1, BareIs
      <4>b. IsCountIn(b, n + 1)
        <5> HIDE DEF n
        <5> QED
          BY <1>2, <1>8, <4>1 DEF IsCountIn
      <4>2. IsArgument(b[n]) /\ b[n].value = "" /\ IsCountIn(b, n + 1)
        BY <1>3, <4>a, <4>b DEF IsLine
      <4>3. x.value = "4" <=> HasCountIn(b, n)
        BY <1>2, <1>8, <4>1, <4>2 DEF HasCountIn
      <4>4. Knows(c, b, n, TRUE)
        BY <1>4, <3>1
      <4>5. Knows(TakeWorkers(c, x.value), b, n, FALSE)
        BY <1>2, <4>2, <4>3, <4>4, CountIsSettled
      <4>6. Knows(TakeWorkers(c, x.value), b, n + 1, FALSE)
        BY <1>2, <4>2, <4>5, CountIsPassed
      <4> QED
        BY <1>6, <1>8, <3>1, <4>6 DEF ReadArgument
    <3>2. CASE ~due
      <4>1. Knows(c, b, n, FALSE)
        BY <1>4, <3>2
      <4>2. ~IsCountIn(b, n + 1)
        <5>1. n + 1 - 1 = n /\ (n + 1 > 1 => n > 0)
          BY <1>2, Positions
        <5>2. ~(n > 0 /\ IsBareCount(b[n]))
          BY <1>5, <3>2
        <5>3. IsBareCount(b[n + 1 - 1]) <=> IsBareCount(b[n])
          BY <5>1
        <5>4. \A i : IsCountIn(b, i) => i > 1 /\ IsBareCount(b[i - 1])
          BY DEF IsCountIn
        <5>5. PICK m \in Nat : m = n + 1 /\ m - 1 = n /\ (m > 1 => n > 0)
          <6>1. n \in Nat /\ n + 1 \in Nat
            BY <1>2
          <6> QED
            BY <6>1
        <5>6. ~IsCountIn(b, m)
          BY <5>2, <5>4, <5>5
        <5> QED
          BY <5>5, <5>6
      <4>3. Knows([c EXCEPT !.words = Append(@, b[n + 1].value)], b, n + 1, FALSE)
        BY <1>2, <1>8, <4>1, <4>2, WordIsRead
      <4> QED
        BY <1>2, <1>6, <1>8, <3>2, <4>3 DEF ReadArgument
    <3> QED
      BY <3>1, <3>2
  <2>3. Knows(ReadArgument(c, x), b, Len(b), IsBareCount(x))
    BY <1>2, <2>1, <2>2
  <2> QED
    BY <1>1, <1>2, <1>3, <2>3 DEF n
<1> QED
  BY <1>7, <1>8

LEMMA LineIsSettled ==
  ASSUME NEW a, IsLine(a), NEW c, NEW due \in BOOLEAN, Knows(c, a, Len(a), due)
  PROVE  Knows(Settled(c), a, Len(a), FALSE)
<1> DEFINE n == Len(a)
<1>1. n \in Nat /\ c.isValueDue = due
  <2>1. a \in Seq(ToSet(a)) /\ c.isValueDue = due
    BY DEF IsLine, IsSeq, Knows
  <2> QED
    BY <2>1
<1>2. CASE due
  <2>1. n > 0 /\ IsBareCount(a[n])
    BY <1>2 DEF Knows
  <2> HIDE DEF n
  <2>a. n \in 1 .. n /\ ~(n < n) /\ a[n].value = ""
    BY <1>1, <2>1, BareIs, Positions
  <2>b. IsArgument(a[n]) /\ n = Len(a)
    BY <2>a DEF IsLine, n
  <2>2. n \in 1 .. n /\ IsArgument(a[n]) /\ a[n].value = "" /\ ~(n < Len(a))
    BY <1>1, <2>a, <2>b
  <2>3. "" = "4" <=> HasCountIn(a, n)
    BY <2>2 DEF HasCountIn
  <2>4. Knows(c, a, n, TRUE)
    BY <1>2 DEF n
  <2>5. Knows(TakeWorkers(c, ""), a, n, FALSE)
    BY <1>1, <2>2, <2>3, <2>4, CountIsSettled
  <2> QED
    BY <1>1, <1>2, <2>5 DEF Settled, n
<1>3. CASE ~due
  <2>1. Knows(c, a, n, FALSE)
    BY <1>3
  <2> QED
    BY <1>1, <1>3, <2>1 DEF Settled
<1> QED
  BY <1>2, <1>3

-----------------------------------------------------------------------------
(* The end of the line: the command, its flags, and what is done. *)
IsParsed(p) ==
  p \in [action : {"none"}, command : Commands \cup {"none"}, informs : SUBSET Informs, flags : SUBSET Flags,
         error : {p.error}, words : {p.words}, isValueDue : BOOLEAN]

AgreesWith(q, p) ==
  /\ q.command = p.command /\ q.informs = p.informs /\ q.flags = p.flags /\ q.words = p.words
  /\ p.error # <<>> => q.error = p.error

LEMMA Refusing ==
  ASSUME NEW p, IsParsed(p), NEW what, NEW of, NEW q, q = RecordError(p, what, of)
  PROVE  IsParsed(q) /\ AgreesWith(q, p) /\ q.error # <<>>
<1>1. CASE p.error # <<>>
  <2>1. q = p
    BY <1>1 DEF RecordError
  <2> QED
    BY <1>1, <2>1 DEF AgreesWith
<1>2. CASE p.error = <<>>
  <2>1. PICK e : e = <<what, of>>
    OBVIOUS
  <2>2. q = [p EXCEPT !.error = e] /\ e # <<>>
    BY <1>2, <2>1 DEF RecordError
  <2> QED
    BY <1>2, <2>2 DEF IsParsed, AgreesWith
<1> QED
  BY <1>1, <1>2

LEMMA FlagsAreChecked ==
  ASSUME NEW p, IsParsed(p), NEW q, q = RejectUnsupportedFlags(p)
  PROVE  /\ IsParsed(q) /\ AgreesWith(q, p)
         /\ q.error = <<>> <=> p.error = <<>> /\ p.flags \subseteq FlagsAccepted(p.command)
<1> DEFINE unsupported == {i \in DOMAIN FlagOrder : FlagOrder[i] \in p.flags \ FlagsAccepted(p.command)}
<1>1. unsupported = {} <=> p.flags \subseteq FlagsAccepted(p.command)
  <2>1. p.flags \subseteq {FlagOrder[i] : i \in DOMAIN FlagOrder}
    BY OptionsAre DEF IsParsed, ToSet
  <2>2. ASSUME p.flags \subseteq FlagsAccepted(p.command)
        PROVE  unsupported = {}
    BY <2>2
  <2>3. ASSUME NEW flag \in p.flags, flag \notin FlagsAccepted(p.command)
        PROVE  unsupported # {}
    <3>1. PICK i \in DOMAIN FlagOrder : FlagOrder[i] = flag
      BY <2>1
    <3>2. i \in unsupported
      BY <2>3, <3>1
    <3> QED
      BY <3>2
  <2> QED
    BY <2>2, <2>3
<1>2. CASE unsupported = {}
  <2>1. q = p
    BY <1>2 DEF RejectUnsupportedFlags
  <2> QED
    BY <1>1, <1>2, <2>1 DEF AgreesWith
<1>3. CASE unsupported # {}
  <2>1. q = RecordError(p, "unsupported", FlagOrder[Min(unsupported)])
    BY <1>3 DEF RejectUnsupportedFlags
  <2> HIDE DEF unsupported
  <2>2. IsParsed(q) /\ AgreesWith(q, p) /\ q.error # <<>>
    BY <2>1, Refusing
  <2> QED
    BY <1>1, <1>3, <2>2
<1> QED
  BY <1>2, <1>3

LEMMA CommandIsParsed ==
  ASSUME NEW c, IsCli(c), IsSeq(c.words), NEW q, q = ParseCommand(c)
  PROVE  LET isNamed == c.words # <<>> /\ c.words[1] \in Commands
         IN  /\ IsParsed(q) /\ q.informs = c.informs
             /\ q.command = IF isNamed THEN c.words[1] ELSE "none"
             /\ c.error # <<>> => q.error = c.error
             /\ c.words = <<>> => q.error = c.error
             /\ c.words # <<>> => (q.error = <<>> <=> /\ c.error = <<>> /\ isNamed /\ Len(c.words) = 1
                                                      /\ c.flags \subseteq FlagsAccepted(c.words[1]))
<1>0. IsParsed(c) /\ c.command = "none"
  BY DEF IsCli, IsParsed
<1>1. CASE c.words = <<>>
  <2>1. q = c
    BY <1>1 DEF ParseCommand
  <2> QED
    BY <1>0, <1>1, <2>1
<1>2. CASE c.words # <<>> /\ c.words[1] \notin Commands
  <2>1. q = RecordError(c, "unknown command", c.words[1])
    BY <1>2 DEF ParseCommand
  <2>2. IsParsed(q) /\ AgreesWith(q, c) /\ q.error # <<>>
    BY <1>0, <2>1, Refusing
  <2> QED
    BY <1>0, <1>2, <2>2 DEF AgreesWith
<1>3. CASE c.words # <<>> /\ c.words[1] \in Commands
  <2> DEFINE named == [c EXCEPT !.command = c.words[1]]
             p == IF Len(c.words) = 1 THEN named ELSE RecordError(named, "unexpected", c.words[2])
  <2>1. q = RejectUnsupportedFlags(p)
    BY <1>3 DEF ParseCommand
  <2>2. /\ IsParsed(named) /\ named.command = c.words[1] /\ named.informs = c.informs
        /\ named.flags = c.flags /\ named.error = c.error
    BY <1>3 DEF IsCli, IsParsed
  <2> HIDE DEF named
  <2>3. /\ IsParsed(p) /\ p.command = c.words[1] /\ p.informs = c.informs /\ p.flags = c.flags
        /\ c.error # <<>> => p.error = c.error
        /\ p.error = <<>> <=> c.error = <<>> /\ Len(c.words) = 1
    <3>1. CASE Len(c.words) = 1
      BY <2>2, <3>1
    <3>2. CASE Len(c.words) # 1
      <4>1. p = RecordError(named, "unexpected", c.words[2])
        BY <3>2
      <4> HIDE DEF p
      <4>2. IsParsed(p) /\ AgreesWith(p, named) /\ p.error # <<>>
        BY <2>2, <4>1, Refusing
      <4> QED
        BY <2>2, <3>2, <4>2 DEF AgreesWith
    <3> QED
      BY <3>1, <3>2
  <2> HIDE DEF p
  <2>4. /\ IsParsed(q) /\ AgreesWith(q, p)
        /\ q.error = <<>> <=> p.error = <<>> /\ p.flags \subseteq FlagsAccepted(p.command)
    BY <2>1, <2>3, FlagsAreChecked
  <2> QED
    BY <1>3, <2>3, <2>4 DEF AgreesWith
<1> QED
  BY <1>1, <1>2, <1>3

\* What the whole line asks for.
IsAskedIn(a, option) == \E i \in 1 .. Len(a) : AsksIn(a, i, option)
GivenIn(a) == {flag \in Flags : \E i \in 1 .. Len(a) : GivesIn(a, i, flag)}
IsRunnableIn(a) ==
  /\ ~\E i \in 1 .. Len(a) : IsFaultyIn(a, i)
  /\ \E i \in WordsIn(a, Len(a)) : /\ WordsIn(a, Len(a)) = {i} /\ a[i].value \in Commands
                                   /\ GivenIn(a) \subseteq FlagsAccepted(a[i].value)

Answers(d, a) ==
  /\ d.action = IF IsAskedIn(a, "version") THEN "version"
                ELSE IF IsAskedIn(a, "help") THEN "help"
                ELSE IF IsRunnableIn(a) THEN "run" ELSE "error"
  /\ d.error # <<>> <=> d.action = "error"
  /\ d.action = "run" => \A i \in WordsIn(a, Len(a)) : d.command = a[i].value
  /\ d.action = "error" /\ (\E i \in 1 .. Len(a) : IsFaultyIn(a, i)) =>
       \E i \in 1 .. Len(a) : /\ IsFaultyIn(a, i) /\ \A j \in 1 .. i - 1 : ~IsFaultyIn(a, j)
                              /\ d.error[2] \in ToSet(a[i].options)

LEMMA LineIsAnswered ==
  ASSUME NEW a, IsLine(a), NEW e, NEW due \in BOOLEAN, Knows(e, a, Len(a), due)
  PROVE  Answers(Resolve(e), a)
<1> DEFINE c == Settled(e)
           p == ParseCommand(c)
           d == Resolve(e)
           n == Len(a)
<1> SUFFICES Answers(d, a)
  OBVIOUS
<1>1. Knows(c, a, n, FALSE)
  BY LineIsSettled
<1>2. /\ IsCli(c) /\ KnowsInforms(c.informs, a, n) /\ KnowsFlags(c.flags, a, n, FALSE)
      /\ KnowsError(c.error, a, n, FALSE) /\ KnowsWords(c.words, a, n) /\ IsSeq(c.words)
  BY <1>1 DEF Knows, KnowsWords
<1> HIDE DEF c
<1>3. /\ IsParsed(p) /\ p.informs = c.informs
      /\ p.command = IF c.words # <<>> /\ c.words[1] \in Commands THEN c.words[1] ELSE "none"
      /\ c.error # <<>> => p.error = c.error
      /\ c.words = <<>> => p.error = c.error
      /\ c.words # <<>> => (p.error = <<>> <=> /\ c.error = <<>> /\ c.words[1] \in Commands /\ Len(c.words) = 1
                                               /\ c.flags \subseteq FlagsAccepted(c.words[1]))
  BY <1>2, CommandIsParsed
<1>4. d = IF p.informs # {}
            THEN [p EXCEPT !.action = IF "version" \in p.informs THEN "version" ELSE "help", !.error = <<>>]
          ELSE IF p.error # <<>> THEN [p EXCEPT !.action = "error"]
          ELSE IF p.command = "none" THEN [RecordError(p, "no command", "") EXCEPT !.action = "error"]
          ELSE [p EXCEPT !.action = "run"]
  BY DEF Resolve, c
<1> HIDE DEF p, d, n
<1>5. \A o \in Informs : o \in c.informs <=> IsAskedIn(a, o)
  BY <1>2 DEF KnowsInforms, IsAskedIn, n
<1>6. c.flags = GivenIn(a)
  <2>1. c.flags \subseteq Flags
    BY <1>2 DEF IsCli
  <2>2. \A flag \in Flags : flag \in c.flags <=> \E i \in 1 .. n : GivesIn(a, i, flag)
    BY <1>2 DEF KnowsFlags, GivesTo
  <2> QED
    BY <2>1, <2>2 DEF GivenIn, n
<1>7. /\ c.error # <<>> <=> \E i \in 1 .. n : IsFaultyIn(a, i)
      /\ c.error # <<>> => \E i \in 1 .. n : /\ IsFaultyIn(a, i) /\ \A j \in 1 .. i - 1 : ~IsFaultyIn(a, j)
                                             /\ c.error[2] \in ToSet(a[i].options)
  BY <1>2 DEF KnowsError, FaultyTo
<1>8. /\ c.words = <<>> <=> WordsIn(a, n) = {}
      /\ c.words # <<>> => \E i \in WordsIn(a, n) : /\ a[i].value = c.words[1]
                                                    /\ Len(c.words) = 1 <=> WordsIn(a, n) = {i}
  BY <1>2 DEF KnowsWords
<1>9. "none" \notin Commands
  BY DEF Commands
<1>10. p.error = <<>> /\ p.command # "none" <=> IsRunnableIn(a)
  <2>1. CASE c.words = <<>>
    BY <1>3, <1>8, <2>1 DEF IsRunnableIn, n
  <2>2. CASE c.words # <<>>
    <3>1. PICK i \in WordsIn(a, n) : a[i].value = c.words[1] /\ (Len(c.words) = 1 <=> WordsIn(a, n) = {i})
      BY <1>8, <2>2
    <3>2. p.error = <<>> /\ p.command # "none" <=>
            c.error = <<>> /\ c.words[1] \in Commands /\ Len(c.words) = 1 /\ c.flags \subseteq FlagsAccepted(c.words[1])
      BY <1>3, <1>9, <2>2
    <3>3. IsRunnableIn(a) <=> /\ c.error = <<>> /\ WordsIn(a, n) = {i} /\ a[i].value \in Commands
                              /\ GivenIn(a) \subseteq FlagsAccepted(a[i].value)
      BY <1>7, <3>1 DEF IsRunnableIn, n
    <3> QED
      BY <1>6, <3>1, <3>2, <3>3
  <2> QED
    BY <2>1, <2>2
<1>11. \A i \in WordsIn(a, n) : p.error = <<>> /\ p.command # "none" => p.command = a[i].value
  BY <1>3, <1>8, <1>9
<1>12. Informs = {"version", "help"} /\ p.informs \subseteq Informs
  BY <1>2, <1>3 DEF Informs, IsCli
<1>13. CASE p.informs # {}
  <2>1. d.error = <<>> /\ d.action = IF "version" \in p.informs THEN "version" ELSE "help"
    BY <1>3, <1>4, <1>13 DEF IsParsed
  <2>2. d.action = IF IsAskedIn(a, "version") THEN "version" ELSE "help"
    BY <1>3, <1>5, <1>12, <2>1
  <2>3. IsAskedIn(a, "version") \/ IsAskedIn(a, "help")
    BY <1>3, <1>5, <1>12, <1>13
  <2> QED
    BY <2>1, <2>2, <2>3 DEF Answers
<1>14. CASE p.informs = {}
  <2>1. ~IsAskedIn(a, "version") /\ ~IsAskedIn(a, "help")
    BY <1>3, <1>5, <1>12, <1>14
  <2>2. CASE p.error # <<>>
    <3>1. d.action = "error" /\ d.error = p.error
      BY <1>3, <1>4, <1>14, <2>2 DEF IsParsed
    <3>2. c.error # <<>> => d.error = c.error
      BY <1>3, <3>1
    <3> QED
      BY <1>7, <1>10, <2>1, <2>2, <3>1, <3>2 DEF Answers, n
  <2>3. CASE p.error = <<>> /\ p.command = "none"
    <3>1. PICK q : q = RecordError(p, "no command", "")
      OBVIOUS
    <3>2. IsParsed(q) /\ q.error # <<>>
      BY <1>3, <3>1, Refusing
    <3>3. d.action = "error" /\ d.error # <<>>
      BY <1>4, <1>14, <2>3, <3>1, <3>2 DEF IsParsed
    <3>4. c.error = <<>>
      BY <1>3, <2>3
    <3> QED
      BY <1>7, <1>10, <2>1, <2>3, <3>3, <3>4 DEF Answers, n
  <2>4. CASE p.error = <<>> /\ p.command # "none"
    <3>1. d.action = "run" /\ d.error = <<>> /\ d.command = p.command
      BY <1>3, <1>4, <1>14, <2>4 DEF IsParsed
    <3> QED
      BY <1>10, <1>11, <2>1, <2>4, <3>1 DEF Answers, n
  <2> QED
    BY <2>2, <2>3, <2>4
<1> QED
  BY <1>13, <1>14 DEF d

IsBareAtEnd(a) == Len(a) > 0 /\ IsBareCount(a[Len(a)])

AnswersSoFar ==
  /\ stage \in {"args", "resolved"} => IsLine(args)
  /\ stage = "args" => Knows(cli, args, Len(args), IsBareAtEnd(args))
  /\ stage = "resolved" => Answers(cli, args)
  /\ stage \notin {"args", "resolved", "done"} => cli.action = "run"
  /\ ExitIsTruthful

LEMMA NothingIsKnown == IsLine(<<>>) /\ Knows(NewCli, <<>>, 0, FALSE)
<1>1. Len(<<>>) = 0 /\ 1 .. 0 = {}
  OBVIOUS
<1>2. IsSeq(<<>>)
  <2>1. \A S : <<>> \in Seq(S)
    OBVIOUS
  <2> QED
    BY <2>1 DEF IsSeq
<1>3. IsLine(<<>>)
  BY <1>1, <1>2 DEF IsLine
<1>4. /\ IsCli(NewCli) /\ NewCli.isValueDue = FALSE /\ NewCli.informs = {} /\ NewCli.flags = {}
      /\ NewCli.error = <<>> /\ NewCli.words = <<>>
  BY DEF NewCli, IsCli
<1>5. KnowsInforms({}, <<>>, 0) /\ KnowsFlags({}, <<>>, 0, FALSE) /\ KnowsError(<<>>, <<>>, 0, FALSE)
  BY <1>1 DEF KnowsInforms, KnowsFlags, KnowsError
<1>6. KnowsWords(<<>>, <<>>, 0)
  BY <1>1, <1>2 DEF KnowsWords, WordsIn
<1> QED
  BY <1>3, <1>4, <1>5, <1>6 DEF Knows

LEMMA AnswersResolve ==
  ASSUME stage = "resolved" => IsLine(args) /\ Answers(cli, args)
  PROVE  CommandLineIsResolved
<1> SUFFICES ASSUME stage = "resolved"
             PROVE  CommandLineIsResolved
  BY DEF CommandLineIsResolved
<1> DEFINE n == Len(args)
<1>1. DOMAIN args = 1 .. n /\ n \in Nat
  BY DEF IsLine, IsSeq
<1> HIDE DEF n
<1>2. \A i : IsFaulty(i) <=> IsFaultyIn(args, i)
  BY DEF IsFaulty, IsFaultyIn, HasCount, HasCountIn
<1>3. Words = WordsIn(args, n)
  BY <1>1 DEF Words, WordsIn, IsCount, IsCountIn
<1>4. \A o : IsAsked(o) <=> IsAskedIn(args, o)
  BY <1>1 DEF IsAsked, IsAskedIn, Asks, AsksIn, n
<1>5. FlagsGiven = GivenIn(args)
  <2>1. \A flag : (IF flag = "workers" THEN \E i \in DOMAIN args : ~IsWord(args[i]) /\ HasCount(i) ELSE IsAsked(flag))
                    <=> \E i \in 1 .. n : GivesIn(args, i, flag)
    <3>1. \A flag : IsAsked(flag) <=> \E i \in 1 .. n : AsksIn(args, i, flag)
      BY <1>4 DEF IsAskedIn, n
    <3>2. \A i : HasCount(i) <=> HasCountIn(args, i)
      BY DEF HasCount, HasCountIn
    <3> QED
      BY <1>1, <3>1, <3>2 DEF GivesIn
  <2> QED
    BY <2>1, OptionsAre DEF FlagsGiven, GivenIn, n
<1>6. IsRunnable <=> IsRunnableIn(args)
  BY <1>1, <1>2, <1>3, <1>5 DEF IsRunnable, IsRunnableIn, n
<1>7. /\ cli.action = IF IsAsked("version") THEN "version"
                      ELSE IF IsAsked("help") THEN "help"
                      ELSE IF IsRunnable THEN "run" ELSE "error"
      /\ cli.error # <<>> <=> cli.action = "error"
      /\ cli.action = "run" => \A i \in Words : cli.command = args[i].value
  BY <1>3, <1>4, <1>6 DEF Answers, n
<1>8. ASSUME cli.action = "error", \E i \in DOMAIN args : IsFaulty(i)
      PROVE  LET first == CHOOSE i \in DOMAIN args : IsFaulty(i) /\ \A j \in 1 .. i - 1 : ~IsFaulty(j)
             IN  cli.error[2] \in ToSet(args[first].options)
  <2> DEFINE P(i) == IsFaulty(i) /\ \A j \in 1 .. i - 1 : ~IsFaulty(j)
             first == CHOOSE i \in DOMAIN args : P(i)
  <2>1. PICK i \in DOMAIN args : P(i) /\ cli.error[2] \in ToSet(args[i].options)
    BY <1>1, <1>2, <1>8 DEF Answers, n
  <2>2. first \in DOMAIN args /\ P(first)
    BY <2>1
  <2>3. first = i
    <3>1. first \in Nat /\ i \in Nat
      BY <1>1, <2>2
    <3>2. ~(first < i) /\ ~(i < first)
      <4> HIDE DEF first
      <4>1. ASSUME first < i PROVE FALSE
        <5>1. first \in 1 .. i - 1
          BY <1>1, <2>2, <3>1, <4>1
        <5> QED
          BY <2>1, <2>2, <5>1
      <4>2. ASSUME i < first PROVE FALSE
        <5>1. i \in 1 .. first - 1
          BY <1>1, <3>1, <4>2
        <5> QED
          BY <2>1, <2>2, <5>1
      <4> QED
        BY <4>1, <4>2
    <3> HIDE DEF first
    <3> QED
      BY <3>1, <3>2
  <2> QED
    BY <2>1, <2>3
<1> QED
  BY <1>7, <1>8 DEF CommandLineIsResolved

(* The command line is answered by all of its elements, each where it       *)
(* stands, whatever they are and however many, and the exit code tells what *)
(* happened (cli_parse, cli_dispatch).                                      *)
THEOREM InvocationStaysAnswered == Spec => []InvocationIsAnswered
<1>1. Init => AnswersSoFar
  <2> SUFFICES ASSUME Init
               PROVE  AnswersSoFar
    OBVIOUS
  <2>1. stage = "args" /\ args = <<>> /\ cli = NewCli
    BY DEF Init
  <2>2. Len(args) = 0 /\ IsBareAtEnd(args) = FALSE
    BY <2>1 DEF IsBareAtEnd
  <2>3. IsLine(args) /\ Knows(cli, args, Len(args), IsBareAtEnd(args))
    BY <2>1, <2>2, NothingIsKnown
  <2> QED
    BY <2>1, <2>3 DEF AnswersSoFar, ExitIsTruthful
<1>2. AnswersSoFar /\ ConfigIsUsable /\ [Next]_vars => AnswersSoFar'
  <2> SUFFICES ASSUME AnswersSoFar, ConfigIsUsable, [Next]_vars
               PROVE  AnswersSoFar'
    OBVIOUS
  <2>1. CASE ReadElement
    <3>1. PICK x \in Arguments : args' = Append(args, x) /\ cli' = ReadArgument(cli, x)
      BY <2>1 DEF ReadElement
    <3>2. stage = "args" /\ stage' = "args" /\ IsArgument(x)
      BY <2>1, InputsAssumption DEF ReadElement
    <3>3. IsLine(args) /\ Knows(cli, args, Len(args), IsBareAtEnd(args)) /\ IsBareAtEnd(args) \in BOOLEAN
      BY <3>2 DEF AnswersSoFar, IsBareAtEnd, IsBareCount
    <3>4. PICK due \in BOOLEAN : due = IsBareAtEnd(args)
      BY <3>3
    <3>5. PICK b : b = Append(args, x)
      OBVIOUS
    <3>6. IsLine(b) /\ Len(b) = Len(args) + 1 /\ b[Len(b)] = x /\ Knows(ReadArgument(cli, x), b, Len(b), IsBareCount(x))
      BY <3>2, <3>3, <3>4, <3>5, ArgumentIsRead DEF IsBareAtEnd
    <3>7. IsBareAtEnd(b) = IsBareCount(x)
      <4>1. Len(args) \in Nat
        BY <3>3 DEF IsLine, IsSeq
      <4>2. Len(b) > 0
        BY <3>6, <4>1
      <4> QED
        BY <3>6, <4>2 DEF IsBareAtEnd, IsBareCount
    <3>8. IsLine(args)' /\ Knows(cli, args, Len(args), IsBareAtEnd(args))'
      BY <3>1, <3>5, <3>6, <3>7
    <3> QED
      BY <3>2, <3>8 DEF AnswersSoFar, ExitIsTruthful
  <2>2. CASE EndArgs
    <3>1. stage = "args" /\ stage' = "resolved" /\ args' = args /\ cli' = Resolve(cli)
      BY <2>2 DEF EndArgs
    <3>2. IsLine(args) /\ Knows(cli, args, Len(args), IsBareAtEnd(args)) /\ IsBareAtEnd(args) \in BOOLEAN
      BY <3>1 DEF AnswersSoFar, IsBareAtEnd, IsBareCount
    <3>3. Answers(Resolve(cli), args)
      BY <3>2, LineIsAnswered
    <3>4. IsLine(args)' /\ Answers(cli, args)'
      BY <3>1, <3>2, <3>3
    <3> QED
      BY <3>1, <3>4 DEF AnswersSoFar, ExitIsTruthful
  <2>3. CASE PrintInstead
    BY <2>3 DEF PrintInstead, Exit, AnswersSoFar, ExitIsTruthful
  <2>4. CASE Dispatch
    <3>1. stage' = "config" /\ cli'.action = "run"
      BY <2>4 DEF Dispatch, NewCli
    <3> QED
      BY <3>1 DEF AnswersSoFar, ExitIsTruthful
  <2>5. CASE LoadConfig
    BY <2>5 DEF LoadConfig, AnswersSoFar, ExitIsTruthful
  <2>6. CASE FailToLoad
    BY <2>6 DEF FailToLoad, Exit, AnswersSoFar, ExitIsTruthful
  <2>7. CASE PrintConfig
    <3>1. stage = "loaded" /\ stage' = "done" /\ cli' = cli /\ site' = site /\ cli.action = "run" /\ exit' # "usage"
      BY <2>7 DEF PrintConfig, Exit, AnswersSoFar
    <3>2. exit' = "ok" => load.log = <<>>
      BY <2>7 DEF PrintConfig, Exit
    <3>3. load.log = <<>> => WrongKeys(site.table) = {}
      BY <3>1 DEF ConfigIsUsable, IsLoaded
    <3>4. exit' = "ok" => WrongKeys(site'.table) = {}
      BY <3>1, <3>2, <3>3
    <3> QED
      BY <3>1, <3>4 DEF AnswersSoFar, ExitIsTruthful
  <2>8. CASE StopAfterLoad
    BY <2>8 DEF StopAfterLoad, Exit, AnswersSoFar, ExitIsTruthful
  <2>9. CASE FindSources
    BY <2>9 DEF FindSources, AnswersSoFar, ExitIsTruthful
  <2>10. ASSUME NEW i, ParseEntry(i) \/ FailToParse(i)
         PROVE  AnswersSoFar'
    BY <2>10 DEF ParseEntry, FailToParse, AnswersSoFar, ExitIsTruthful
  <2>11. CASE Collect
    BY <2>11 DEF Collect, AnswersSoFar, ExitIsTruthful
  <2>12. CASE StopBuild
    BY <2>12 DEF StopBuild, Exit, AnswersSoFar, ExitIsTruthful
  <2>13. CASE GoOn
    BY <2>13 DEF GoOn, AnswersSoFar, ExitIsTruthful
  <2>14. CASE UNCHANGED vars
    BY <2>14 DEF vars, AnswersSoFar, ExitIsTruthful
  <2> QED
    BY <2>1, <2>2, <2>3, <2>4, <2>5, <2>6, <2>7, <2>8, <2>9, <2>10, <2>11, <2>12, <2>13, <2>14 DEF Next
<1>3. AnswersSoFar => InvocationIsAnswered
  BY AnswersResolve DEF AnswersSoFar, InvocationIsAnswered
<1> QED
  BY <1>1, <1>2, <1>3, ConfigStaysUsable, PTL DEF Spec

=============================================================================
