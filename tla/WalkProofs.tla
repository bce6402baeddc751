----------------------------- MODULE WalkProofs -----------------------------
(***************************************************************************)
(* For every tree, however its symlinks run, and every search: the listing  *)
(* holds each file there is to find exactly once, and under a path without  *)
(* a symlink where its directory has one.                                   *)
(***************************************************************************)
EXTENDS Walk, SequenceTheorems, FiniteSetTheorems, WellFoundedInduction, TLAPS

-----------------------------------------------------------------------------
(* Induction over data: the functions that a recursive definition names      *)
(* exist, and what holds of their every step holds of their value.  Each     *)
(* lemma is about a set where a textbook has a predicate or an operator,     *)
(* because the provers instantiate a set.                                    *)
LEMMA SetInduction ==
  ASSUME NEW S \in SUBSET Nat, 0 \in S, \A n \in S : n + 1 \in S
  PROVE  S = Nat
<1> SUFFICES ASSUME Nat \ S # {}
             PROVE  FALSE
  OBVIOUS
<1> DEFINE R == {ss \in Nat \X Nat : ss[1] < ss[2]}
<1>0. IsWellFoundedOn(R, Nat)
  BY NatLessThanWellFounded, Zenon DEF OpToRel
<1>1. PICK n \in Nat \ S : \A m \in Nat \ S : ~ (<<m, n>> \in R)
  <2> HIDE DEF R
  <2>1. Nat \ S \subseteq Nat
    OBVIOUS
  <2> QED
    BY <1>0, <2>1, WFMin, Zenon
<1>2. n # 0 /\ n - 1 \in Nat
  OBVIOUS
<1>3. n - 1 \in S
  <2>1. <<n - 1, n>> \in R
    BY <1>2
  <2> QED
    BY <1>1, <1>2, <2>1
<1>4. n - 1 + 1 = n
  OBVIOUS
<1> QED
  BY <1>3, <1>4

LEMMA Smallest ==
  ASSUME NEW S \in SUBSET Nat, S # {}
  PROVE  \E n \in S : \A m \in S : n <= m
<1> DEFINE R == {ss \in Nat \X Nat : ss[1] < ss[2]}
<1>0. IsWellFoundedOn(R, Nat)
  BY NatLessThanWellFounded, Zenon DEF OpToRel
<1>1. PICK n \in S : \A m \in S : ~ (<<m, n>> \in R)
  <2> HIDE DEF R
  <2> QED
    BY <1>0, WFMin, Zenon
<1>2. ASSUME NEW m \in S
      PROVE  n <= m
  <2>1. n \in Nat /\ m \in Nat
    OBVIOUS
  <2>2. ~ (m < n)
    BY <1>1, <2>1
  <2> QED
    BY <2>1, <2>2
<1> QED
  BY <1>2

Recurs(f, N, a, step) ==
  \A k \in 0 .. N : f[k] = IF k = 0 THEN a ELSE step[<<k - 1, f[k - 1]>>]

LEMMA Recursion ==
  ASSUME NEW N \in Nat, NEW V, NEW a \in V, NEW step \in [Nat \X V -> V]
  PROVE  \E f \in [0 .. N -> V] : Recurs(f, N, a, step)
<1> DEFINE Good(f, n) == \A k \in 0 .. n : f[k] = IF k = 0 THEN a ELSE step[<<k - 1, f[k - 1]>>]
           S == {n \in Nat : \E f \in [0 .. n -> V] : Good(f, n)}
<1>1. 0 \in S
  <2>1. [k \in 0 .. 0 |-> a] \in [0 .. 0 -> V] /\ Good([k \in 0 .. 0 |-> a], 0)
    OBVIOUS
  <2> QED
    BY <2>1
<1>2. ASSUME NEW n \in S
      PROVE  n + 1 \in S
  <2>1. PICK f \in [0 .. n -> V] : Good(f, n)
    OBVIOUS
  <2>2. n \in Nat /\ f[n] \in V /\ step[<<n, f[n]>>] \in V
    OBVIOUS
  <2> DEFINE g == [k \in 0 .. n + 1 |-> IF k = n + 1 THEN step[<<n, f[n]>>] ELSE f[k]]
  <2>3. \A k \in 0 .. n + 1 : k # n + 1 => k \in 0 .. n
    BY <2>2
  <2>4. g \in [0 .. n + 1 -> V]
    BY <2>2, <2>3
  <2>5. ASSUME NEW k \in 0 .. n + 1
        PROVE  g[k] = IF k = 0 THEN a ELSE step[<<k - 1, g[k - 1]>>]
    <3>1. CASE k = n + 1
      <4>1. k # 0 /\ k - 1 = n /\ n \in 0 .. n + 1 /\ n # n + 1
        BY <2>2, <3>1
      <4> QED
        BY <3>1, <4>1
    <3>2. CASE k # n + 1
      <4>1. k \in 0 .. n /\ (k # 0 => k - 1 \in 0 .. n /\ k - 1 # n + 1 /\ k - 1 \in 0 .. n + 1)
        BY <2>2, <3>2
      <4>2. g[k] = f[k] /\ (k # 0 => g[k - 1] = f[k - 1])
        BY <3>2, <4>1
      <4> QED
        BY <2>1, <4>1, <4>2
    <3> QED
      BY <3>1, <3>2
  <2> HIDE DEF g
  <2>6. Good(g, n + 1)
    BY <2>5
  <2>7. \E h \in [0 .. n + 1 -> V] : Good(h, n + 1)
    <3> HIDE DEF Good
    <3> QED
      BY <2>4, <2>6
  <2>8. n + 1 \in Nat
    BY <2>2
  <2> QED
    BY <2>7, <2>8
<1> HIDE DEF S
<1>3. S = Nat
  <2>1. S \in SUBSET Nat
    BY DEF S
  <2> QED
    BY <1>1, <1>2, <2>1, SetInduction
<1>4. N \in S
  BY <1>3
<1> QED
  BY <1>4 DEF S, Recurs

-----------------------------------------------------------------------------
(* A recursion that calls itself last: it ends where no set of arguments     *)
(* keeps it from ending.                                                     *)
Ending(S, ends, step) == \A B \in SUBSET (S \ ends) : (\A s \in B : step[s] \in B) => B = {}

TailFunctions(S, ends, step) ==
  {f \in [S -> S] : \A s \in S : f[s] = IF s \in ends THEN s ELSE f[step[s]]}

LEMMA TailRecursion ==
  ASSUME NEW S, NEW ends, NEW step \in [S -> S], Ending(S, ends, step)
  PROVE  \E f \in [S -> S] : \A s \in S : f[s] = IF s \in ends THEN s ELSE f[step[s]]
<1> DEFINE Holds(Q) == /\ \A s \in S : s \in ends => <<s, s>> \in Q
                       /\ \A s, r \in S : s \notin ends /\ <<step[s], r>> \in Q => <<s, r>> \in Q
           R == {p \in S \X S : \A Q \in SUBSET (S \X S) : Holds(Q) => p \in Q}
           IsOne(s) == \E r \in S : <<s, r>> \in R /\ \A q \in S : <<s, q>> \in R => q = r
           B == {s \in S : ~IsOne(s)}
<1>0. R \in SUBSET (S \X S)
  OBVIOUS
<1>1. Holds(R)
  OBVIOUS
<1>2. ASSUME NEW Q \in SUBSET (S \X S), Holds(Q), NEW p \in R
      PROVE  p \in Q
  BY <1>2
<1>3. ASSUME NEW s \in S, NEW r \in S, <<s, r>> \in R, s \in ends
      PROVE  r = s
  <2> SUFFICES ASSUME r # s
               PROVE  FALSE
    OBVIOUS
  <2> DEFINE Q == R \ {<<s, r>>}
  <2> HIDE DEF R
  <2>1. Holds(Q)
    BY <1>1, <1>3
  <2>2. Q \in SUBSET (S \X S)
    BY <1>0
  <2> QED
    BY <1>2, <1>3, <2>1, <2>2
<1>4. ASSUME NEW s \in S, NEW r \in S, <<s, r>> \in R, s \notin ends
      PROVE  <<step[s], r>> \in R
  <2> SUFFICES ASSUME <<step[s], r>> \notin R
               PROVE  FALSE
    OBVIOUS
  <2> DEFINE Q == R \ {<<s, r>>}
  <2> HIDE DEF R
  <2>1. Holds(Q)
    BY <1>1, <1>4
  <2>2. Q \in SUBSET (S \X S)
    BY <1>0
  <2> QED
    BY <1>2, <1>4, <2>1, <2>2
<1> HIDE DEF R
<1>5. \A s \in S : s \in ends => IsOne(s)
  BY <1>1, <1>3
<1>6. ASSUME NEW s \in S, s \notin ends, IsOne(step[s])
      PROVE  IsOne(s)
  <2>1. step[s] \in S
    OBVIOUS
  <2>2. PICK r \in S : <<step[s], r>> \in R /\ \A q \in S : <<step[s], q>> \in R => q = r
    BY <1>6
  <2>3. <<s, r>> \in R
    BY <1>1, <1>6, <2>1, <2>2
  <2>4. \A q \in S : <<s, q>> \in R => q = r
    BY <1>4, <1>6, <2>2
  <2> QED
    BY <2>3, <2>4
<1>7. B = {}
  <2>1. B \in SUBSET (S \ ends)
    BY <1>5
  <2>2. \A s \in B : step[s] \in B
    BY <1>6, <2>1
  <2> HIDE DEF B
  <2> QED
    BY <2>1, <2>2 DEF Ending
<1> DEFINE f == [s \in S |-> CHOOSE r \in S : <<s, r>> \in R]
<1>8. ASSUME NEW s \in S
      PROVE  /\ f[s] \in S /\ <<s, f[s]>> \in R
             /\ \A q \in S : <<s, q>> \in R => q = f[s]
  BY <1>7
<1>9. f \in [S -> S]
  BY <1>8
<1> HIDE DEF f
<1>10. ASSUME NEW s \in S
       PROVE  f[s] = IF s \in ends THEN s ELSE f[step[s]]
  <2>1. CASE s \in ends
    BY <1>1, <1>8, <2>1
  <2>2. CASE s \notin ends
    <3>1. step[s] \in S
      OBVIOUS
    <3>2. <<step[s], f[s]>> \in R
      BY <1>4, <1>8, <2>2
    <3> QED
      BY <1>8, <2>2, <3>1, <3>2
  <2> QED
    BY <2>1, <2>2
<1> QED
  BY <1>9, <1>10

-----------------------------------------------------------------------------
(* The set that is left when a finite set's step adds nothing more: what a   *)
(* loop "until nothing changes" computes.                                    *)
Closes(f, S, F) == \A R \in SUBSET S : f[R] = IF R \cup F[R] = R THEN R ELSE f[R \cup F[R]]

LEMMA TailFunctionExists ==
  ASSUME NEW S, NEW ends, NEW step \in [S -> S], Ending(S, ends, step)
  PROVE  TailFunctions(S, ends, step) # {}
BY TailRecursion DEF TailFunctions

LEMMA GrowthEnds ==
  ASSUME NEW S, IsFiniteSet(S), NEW F \in [SUBSET S -> SUBSET S],
         NEW B \in SUBSET SUBSET S, \A R \in B : R \cup F[R] # R /\ R \cup F[R] \in B
  PROVE  B = {}
<1> SUFFICES ASSUME B # {}
             PROVE  FALSE
  OBVIOUS
<1>1. \A R \in SUBSET S : /\ IsFiniteSet(R) /\ Cardinality(R) \in Nat
                          /\ Cardinality(R) <= Cardinality(S)
                          /\ \A Q \in SUBSET R : Q # R => Cardinality(Q) < Cardinality(R)
  BY FS_Subset, FS_CardinalityType
<1>2. Cardinality(S) \in Nat
  BY FS_CardinalityType
<1> DEFINE T == {Cardinality(S) - Cardinality(R) : R \in B}
<1>3. T \in SUBSET Nat /\ T # {}
  BY <1>1, <1>2
<1>4. PICK n \in T : \A m \in T : n <= m
  BY <1>3, Smallest
<1>5. PICK R \in B : n = Cardinality(S) - Cardinality(R)
  OBVIOUS
<1>6. R \cup F[R] \in B /\ R \cup F[R] \in SUBSET S /\ R \in SUBSET (R \cup F[R]) /\ R # R \cup F[R]
  OBVIOUS
<1>7. Cardinality(R) < Cardinality(R \cup F[R])
  BY <1>1, <1>6
<1>8. n <= Cardinality(S) - Cardinality(R \cup F[R])
  BY <1>4, <1>6
<1> QED
  BY <1>1, <1>2, <1>5, <1>6, <1>7, <1>8

LEMMA ClosureExists ==
  ASSUME NEW S, IsFiniteSet(S), NEW F \in [SUBSET S -> SUBSET S]
  PROVE  \E f \in [SUBSET S -> SUBSET S] : Closes(f, S, F)
<1> DEFINE ends == {R \in SUBSET S : R \cup F[R] = R}
           step == [R \in SUBSET S |-> R \cup F[R]]
<1>1. step \in [SUBSET S -> SUBSET S]
  OBVIOUS
<1>2. Ending(SUBSET S, ends, step)
  <2> SUFFICES ASSUME NEW B \in SUBSET ((SUBSET S) \ ends), \A R \in B : step[R] \in B
               PROVE  B = {}
    BY DEF Ending
  <2>1. B \in SUBSET SUBSET S /\ \A R \in B : R \cup F[R] # R /\ R \cup F[R] \in B
    OBVIOUS
  <2> QED
    BY <2>1, GrowthEnds
<1>3. PICK f \in [SUBSET S -> SUBSET S] :
        \A R \in SUBSET S : f[R] = IF R \in ends THEN R ELSE f[step[R]]
  <2> HIDE DEF ends, step
  <2>1. TailFunctions(SUBSET S, ends, step) # {}
    BY <1>1, <1>2, TailFunctionExists, Zenon
  <2> QED
    BY <2>1 DEF TailFunctions
<1> QED
  BY <1>3 DEF Closes

LEMMA ClosureFacts ==
  ASSUME NEW S, IsFiniteSet(S), NEW F \in [SUBSET S -> SUBSET S], NEW f, Closes(f, S, F),
         NEW R \in SUBSET S
  PROVE  /\ f[R] \in SUBSET S /\ R \subseteq f[R] /\ F[f[R]] \subseteq f[R]
         /\ \A X \in SUBSET S : R \subseteq X /\ (\A Y \in SUBSET X : F[Y] \subseteq X) => f[R] \subseteq X
<1> DEFINE Holds(Q) ==
             /\ f[Q] \in SUBSET S /\ Q \subseteq f[Q] /\ F[f[Q]] \subseteq f[Q]
             /\ \A X \in SUBSET S : Q \subseteq X /\ (\A Y \in SUBSET X : F[Y] \subseteq X) => f[Q] \subseteq X
           B == {Q \in SUBSET S : ~Holds(Q)}
<1>1. ASSUME NEW Q \in B
      PROVE  Q \cup F[Q] # Q /\ Q \cup F[Q] \in B
  <2>1. Q \in SUBSET S /\ ~Holds(Q)
    OBVIOUS
  <2>2. Q \cup F[Q] # Q
    <3> SUFFICES ASSUME Q \cup F[Q] = Q
                 PROVE  FALSE
      OBVIOUS
    <3>1. f[Q] = Q
      BY <2>1 DEF Closes
    <3> QED
      BY <2>1, <3>1
  <2>3. f[Q] = f[Q \cup F[Q]] /\ Q \cup F[Q] \in SUBSET S
    BY <2>1, <2>2 DEF Closes
  <2>4. ASSUME Holds(Q \cup F[Q])
        PROVE  FALSE
    <3>1. \A X \in SUBSET S : Q \subseteq X /\ (\A Y \in SUBSET X : F[Y] \subseteq X) => Q \cup F[Q] \subseteq X
      OBVIOUS
    <3> QED
      BY <2>1, <2>3, <2>4, <3>1
  <2> HIDE DEF Holds
  <2> QED
    BY <2>2, <2>3, <2>4
<1>2. B \in SUBSET SUBSET S
  OBVIOUS
<1>3. B = {}
  <2> HIDE DEF B
  <2> QED
    BY <1>1, <1>2, GrowthEnds
<1> QED
  BY <1>3

-----------------------------------------------------------------------------
(* A finite set can be put in order. *)
IsOrder(S, R) ==
  /\ \A a, b \in S : a # b => <<a, b>> \in R \/ <<b, a>> \in R
  /\ \A a, b, c \in S : <<a, b>> \in R /\ <<b, c>> \in R => <<a, c>> \in R

Orders(S, R) ==
  {g \in [1 .. Cardinality(S) -> S] :
     /\ \A i, j \in 1 .. Cardinality(S) : i < j => <<g[i], g[j]>> \in R
     /\ \A a \in S : \E i \in 1 .. Cardinality(S) : g[i] = a}

LEMMA OrderExists ==
  ASSUME NEW S, IsFiniteSet(S), NEW R, IsOrder(S, R)
  PROVE  Orders(S, R) # {}
<1> DEFINE N == {n \in Nat : \A U \in SUBSET S : Cardinality(U) = n => Orders(U, R) # {}}
<1>0. \A U \in SUBSET S : IsFiniteSet(U) /\ Cardinality(U) \in Nat
  BY FS_Subset, FS_CardinalityType
<1>1. 0 \in N
  <2> SUFFICES ASSUME NEW U \in SUBSET S, Cardinality(U) = 0
               PROVE  Orders(U, R) # {}
    OBVIOUS
  <2>1. U = {}
    BY <1>0, FS_EmptySet
  <2>2. 1 .. Cardinality(U) = {}
    OBVIOUS
  <2>3. [i \in 1 .. Cardinality(U) |-> i] \in Orders(U, R)
    BY <2>1, <2>2 DEF Orders
  <2> QED
    BY <2>3
<1>2. ASSUME NEW n \in N
      PROVE  n + 1 \in N
  <2> SUFFICES ASSUME NEW U \in SUBSET S, Cardinality(U) = n + 1
               PROVE  Orders(U, R) # {}
    OBVIOUS
  <2>0. n \in Nat /\ IsFiniteSet(U)
    BY <1>0
  <2>a. ASSUME NEW x \in U
        PROVE  Cardinality(U \ {x}) = n /\ U \ {x} \in SUBSET S
    <3>1. Cardinality(U \ {x}) = Cardinality(U) - 1
      BY <2>0, FS_RemoveElement
    <3>2. U \ {x} \in SUBSET S
      OBVIOUS
    <3> QED
      BY <2>0, <3>1, <3>2
  <2>1. PICK m \in U : \A u \in U \ {m} : <<u, m>> \in R
    <3>1. PICK x \in U : TRUE
      BY <2>0, FS_EmptySet
    <3>2. Cardinality(U \ {x}) = n /\ U \ {x} \in SUBSET S
      BY <2>a
    <3>3. PICK g \in Orders(U \ {x}, R) : TRUE
      BY <3>2
    <3>4. /\ g \in [1 .. n -> U \ {x}]
          /\ \A i, j \in 1 .. n : i < j => <<g[i], g[j]>> \in R
          /\ \A a \in U \ {x} : \E i \in 1 .. n : g[i] = a
      BY <3>2, <3>3 DEF Orders
    <3>5. CASE n = 0
      <4>1. U \ {x} = {}
        BY <3>4, <3>5
      <4> QED
        BY <4>1, <3>1
    <3>6. CASE n # 0
      <4>1. n \in 1 .. n
        BY <2>0, <3>6
      <4>2. g[n] \in U /\ g[n] # x
        BY <3>4, <4>1
      <4>3. CASE <<g[n], x>> \in R
        <5>1. ASSUME NEW u \in U \ {x}
              PROVE  <<u, x>> \in R
          <6>1. PICK i \in 1 .. n : g[i] = u
            BY <3>4
          <6>2. i = n \/ <<u, g[n]>> \in R
            BY <2>0, <3>4, <4>1, <6>1
          <6> QED
            BY <3>1, <4>2, <4>3, <6>1, <6>2 DEF IsOrder
        <5> QED
          BY <3>1, <5>1
      <4>4. CASE <<g[n], x>> \notin R
        <5>1. <<x, g[n]>> \in R
          BY <3>1, <4>2, <4>4 DEF IsOrder
        <5>2. ASSUME NEW u \in U \ {g[n]}
              PROVE  <<u, g[n]>> \in R
          <6>1. CASE u = x
            BY <5>1, <6>1
          <6>2. CASE u # x
            <7>1. PICK i \in 1 .. n : g[i] = u
              BY <3>4, <6>2
            <7> QED
              BY <2>0, <3>4, <4>1, <7>1
          <6> QED
            BY <6>1, <6>2
        <5> QED
          BY <4>2, <5>2
      <4> QED
        BY <4>3, <4>4
    <3> QED
      BY <3>5, <3>6
  <2>2. Cardinality(U \ {m}) = n /\ U \ {m} \in SUBSET S
    BY <2>a
  <2>3. PICK g \in Orders(U \ {m}, R) : TRUE
    BY <2>2
  <2>4. /\ g \in [1 .. n -> U \ {m}]
        /\ \A i, j \in 1 .. n : i < j => <<g[i], g[j]>> \in R
        /\ \A a \in U \ {m} : \E i \in 1 .. n : g[i] = a
    BY <2>2, <2>3 DEF Orders
  <2> DEFINE h == [i \in 1 .. n + 1 |-> IF i = n + 1 THEN m ELSE g[i]]
  <2>5. \A i \in 1 .. n + 1 : i = n + 1 \/ i \in 1 .. n
    BY <2>0
  <2>6. h \in [1 .. n + 1 -> U]
    BY <2>4, <2>5
  <2>7. ASSUME NEW i \in 1 .. n + 1, NEW j \in 1 .. n + 1, i < j
        PROVE  <<h[i], h[j]>> \in R
    <3>1. i \in 1 .. n /\ i # n + 1
      BY <2>0, <2>7
    <3>2. CASE j = n + 1
      BY <2>1, <2>4, <3>1, <3>2
    <3>3. CASE j # n + 1
      BY <2>4, <2>5, <2>7, <3>1, <3>3
    <3> QED
      BY <3>2, <3>3
  <2>8. ASSUME NEW a \in U
        PROVE  \E i \in 1 .. n + 1 : h[i] = a
    <3>1. CASE a = m
      BY <2>0, <3>1
    <3>2. CASE a # m
      <4>1. PICK i \in 1 .. n : g[i] = a
        BY <2>4, <3>2
      <4>2. i \in 1 .. n + 1 /\ i # n + 1
        BY <2>0
      <4> QED
        BY <4>1, <4>2
    <3> QED
      BY <3>1, <3>2
  <2> HIDE DEF h
  <2>9. h \in Orders(U, R)
    BY <2>6, <2>7, <2>8 DEF Orders
  <2> QED
    BY <2>9
<1> HIDE DEF N
<1>3. N = Nat
  <2>1. N \in SUBSET Nat
    BY DEF N
  <2> QED
    BY <1>1, <1>2, <2>1, SetInduction
<1>4. Cardinality(S) \in N /\ S \in SUBSET S
  BY <1>0, <1>3
<1> QED
  BY <1>4 DEF N

-----------------------------------------------------------------------------
(* Path resolution as one function of its state, which Resolve applies.     *)
IsEnd(s) == s.rest = <<>> \/ s.error # None

Run(tree, follow) ==
  CHOOSE run : run = [s \in Resolutions |->
    IF s.rest = <<>> \/ s.error # None THEN s ELSE run[StepPath(tree, follow, s)]]

At(dir, path) == [at |-> dir, rest |-> path, links |-> 0, error |-> None]

LEMMA ResolveIsRun ==
  ASSUME NEW tree, NEW dir, NEW path, NEW follow
  PROVE  Resolve(tree, dir, path, follow) = Run(tree, follow)[At(dir, path)]
BY DEF Resolve, Run, At

LEMMA StepIsTyped ==
  ASSUME NEW tree, IsTree(tree), NEW follow, NEW s \in Resolutions, ~IsEnd(s),
         NEW r, r = StepPath(tree, follow, s)
  PROVE  /\ r \in Resolutions
         /\ \/ r.error # None
            \/ r.error = None /\ r.links = s.links /\ Len(r.rest) = Len(s.rest) - 1
            \/ r.error = None /\ r.links = s.links + 1
<1> DEFINE name == Head(s.rest)
           node == IF name = Up THEN tree[s.at].up ELSE tree[s.at].entries[EntryName[name]]
<1>1. /\ s.at \in Nodes /\ s.rest \in Paths /\ s.rest # <<>> /\ s.links \in 0 .. LinkMax
      /\ s.error = None /\ LinkMax \in Nat
  BY HostTreeAssumption DEF Resolutions, IsEnd
<1>2. name \in Names \cup {Up} /\ Tail(s.rest) \in Paths /\ Len(Tail(s.rest)) = Len(s.rest) - 1
  BY <1>1, HeadTailProperties DEF Paths
<1>3. \A path \in Paths : [s EXCEPT !.rest = path] \in Resolutions
  BY <1>1 DEF Resolutions
<1>4. \A e \in {"ENOENT", "ENOTDIR", "ELOOP"} : [s EXCEPT !.error = e] \in Resolutions /\ e # None
  BY <1>1, HostTreeAssumption DEF Resolutions
<1>5. tree[s.at].kind = "dir" => node \in Nodes \cup {None}
  BY <1>1, <1>2, HostTreeAssumption DEF IsTree
<1>6. CASE tree[s.at].kind # "dir"
  BY <1>1, <1>4, <1>6 DEF StepPath, Resolutions
<1>7. CASE tree[s.at].kind = "dir" /\ node = None
  BY <1>1, <1>4, <1>7 DEF StepPath, Resolutions
<1>8. CASE tree[s.at].kind = "dir" /\ node # None
  <2> DEFINE isFollowed == tree[node].kind = "link" /\ (follow \/ Len(s.rest) > 1)
  <2>0. node \in Nodes
    BY <1>5, <1>8
  <2>1. r = IF ~isFollowed THEN [s EXCEPT !.at = node, !.rest = Tail(s.rest)]
            ELSE IF s.links = LinkMax THEN [s EXCEPT !.error = "ELOOP"]
            ELSE [s EXCEPT !.rest = tree[node].to \o Tail(s.rest), !.links = s.links + 1]
    BY <1>8 DEF StepPath
  <2> HIDE DEF node
  <2>2. CASE ~isFollowed
    BY <1>1, <1>2, <2>0, <2>1, <2>2 DEF Resolutions
  <2>3. CASE isFollowed /\ s.links = LinkMax
    BY <1>4, <2>1, <2>3
  <2>4. CASE isFollowed /\ s.links # LinkMax
    <3>1. tree[node].to \o Tail(s.rest) \in Paths
      BY <1>2, <2>0, <2>4, ConcatProperties DEF IsTree, Paths
    <3>2. s.links + 1 \in 0 .. LinkMax
      BY <1>1, <2>4
    <3> QED
      BY <1>1, <2>1, <2>4, <3>1, <3>2 DEF Resolutions
  <2> QED
    BY <2>2, <2>3, <2>4
<1> QED
  BY <1>6, <1>7, <1>8

(* A resolution ends: a step takes a name off or follows one symlink more.   *)
LEMMA ResolutionEnds ==
  ASSUME NEW tree, IsTree(tree), NEW follow, NEW B \in SUBSET Resolutions,
         \A s \in B : ~IsEnd(s) /\ StepPath(tree, follow, s) \in B
  PROVE  B = {}
<1> SUFFICES ASSUME B # {}
             PROVE  FALSE
  OBVIOUS
<1>0. LinkMax \in Nat /\ \A s \in B : s.links \in 0 .. LinkMax /\ s.rest \in Paths /\ Len(s.rest) \in Nat
  BY HostTreeAssumption, LenProperties DEF Resolutions, Paths
<1>1. PICK s \in B : \A r \in B : r.links <= s.links
  <2> DEFINE T == {LinkMax - s.links : s \in B}
  <2>1. T \in SUBSET Nat /\ T # {}
    BY <1>0
  <2>2. PICK n \in T : \A m \in T : n <= m
    BY <2>1, Smallest
  <2>3. PICK s \in B : n = LinkMax - s.links
    OBVIOUS
  <2>4. ASSUME NEW r \in B
        PROVE  r.links <= s.links
    <3>1. LinkMax - s.links <= LinkMax - r.links
      BY <2>2, <2>3
    <3> QED
      BY <1>0, <3>1
  <2> QED
    BY <2>4
<1>2. PICK t \in B : t.links = s.links /\ \A r \in B : r.links = s.links => Len(t.rest) <= Len(r.rest)
  <2> DEFINE T == {Len(r.rest) : r \in {q \in B : q.links = s.links}}
  <2>1. T \in SUBSET Nat /\ T # {}
    BY <1>0
  <2>2. PICK n \in T : \A m \in T : n <= m
    BY <2>1, Smallest
  <2> QED
    BY <2>2
<1>3. PICK r : r = StepPath(tree, follow, t)
  OBVIOUS
<1>4. t \in Resolutions /\ ~IsEnd(t) /\ r \in B /\ ~IsEnd(r)
  BY <1>3
<1>5. r.error = None
  BY <1>4 DEF IsEnd
<1>6. (r.links = t.links /\ Len(r.rest) = Len(t.rest) - 1) \/ r.links = t.links + 1
  BY <1>3, <1>4, <1>5, StepIsTyped
<1> QED
  BY <1>0, <1>1, <1>2, <1>4, <1>6

LEMMA RunEquation ==
  ASSUME NEW tree, IsTree(tree), NEW follow
  PROVE  /\ Run(tree, follow) \in [Resolutions -> Resolutions]
         /\ \A s \in Resolutions :
              /\ Run(tree, follow)[s] = IF IsEnd(s) THEN s ELSE Run(tree, follow)[StepPath(tree, follow, s)]
              /\ IsEnd(Run(tree, follow)[s])
<1> DEFINE ends == {s \in Resolutions : IsEnd(s)}
           step == [s \in Resolutions |-> IF IsEnd(s) THEN s ELSE StepPath(tree, follow, s)]
           run == Run(tree, follow)
<1>1. step \in [Resolutions -> Resolutions]
  BY StepIsTyped
<1>2. Ending(Resolutions, ends, step)
  <2> SUFFICES ASSUME NEW B \in SUBSET (Resolutions \ ends), \A s \in B : step[s] \in B
               PROVE  B = {}
    BY DEF Ending
  <2>1. B \in SUBSET Resolutions /\ \A s \in B : ~IsEnd(s) /\ StepPath(tree, follow, s) \in B
    OBVIOUS
  <2> QED
    BY <2>1, ResolutionEnds
<1>3. PICK f \in [Resolutions -> Resolutions] :
        \A s \in Resolutions : f[s] = IF s \in ends THEN s ELSE f[step[s]]
  <2> HIDE DEF ends, step
  <2> QED
    BY <1>1, <1>2, TailRecursion
<1>4. \A s \in Resolutions : f[s] = IF IsEnd(s) THEN s ELSE f[StepPath(tree, follow, s)]
  BY <1>3
<1>5. f = [s \in Resolutions |-> IF s.rest = <<>> \/ s.error # None THEN s ELSE f[StepPath(tree, follow, s)]]
  BY <1>4 DEF IsEnd
<1>6. run = [s \in Resolutions |-> IF s.rest = <<>> \/ s.error # None THEN s ELSE run[StepPath(tree, follow, s)]]
  BY <1>5 DEF Run
<1> HIDE DEF run
<1>7. \A s \in Resolutions : run[s] = IF IsEnd(s) THEN s ELSE run[StepPath(tree, follow, s)]
  BY <1>6 DEF IsEnd
<1>8. \A s \in Resolutions : run[s] \in Resolutions /\ IsEnd(run[s])
  <2> DEFINE B == {s \in Resolutions : ~(run[s] \in Resolutions /\ IsEnd(run[s]))}
  <2>1. \A s \in B : ~IsEnd(s) /\ StepPath(tree, follow, s) \in B
    BY <1>7, StepIsTyped
  <2>2. B \in SUBSET Resolutions
    OBVIOUS
  <2>3. B = {}
    <3> HIDE DEF B
    <3> QED
      BY <2>1, <2>2, ResolutionEnds
  <2> QED
    BY <2>3
<1>9. run \in [Resolutions -> Resolutions]
  BY <1>6, <1>8
<1> QED
  BY <1>7, <1>8, <1>9 DEF run

(* What a step depends on: the name it takes, and whether more follow.       *)
NextOf(tree, s) ==
  IF Head(s.rest) = Up THEN tree[s.at].up ELSE tree[s.at].entries[EntryName[Head(s.rest)]]

IsFollowed(tree, follow, s) ==
  tree[NextOf(tree, s)].kind = "link" /\ (follow \/ Len(s.rest) > 1)

LEMMA StepCases ==
  ASSUME NEW tree, NEW follow, NEW s
  PROVE  StepPath(tree, follow, s) =
           IF tree[s.at].kind # "dir" THEN [s EXCEPT !.error = "ENOTDIR"]
           ELSE IF NextOf(tree, s) = None THEN [s EXCEPT !.error = "ENOENT"]
           ELSE IF ~IsFollowed(tree, follow, s) THEN [s EXCEPT !.at = NextOf(tree, s), !.rest = Tail(s.rest)]
           ELSE IF s.links = LinkMax THEN [s EXCEPT !.error = "ELOOP"]
           ELSE [s EXCEPT !.rest = tree[NextOf(tree, s)].to \o Tail(s.rest), !.links = s.links + 1]
BY DEF StepPath, NextOf, IsFollowed

LEMMA RunFacts ==
  ASSUME NEW tree, IsTree(tree), NEW follow
  PROVE  \A s \in Resolutions :
           /\ Run(tree, follow)[s] \in Resolutions
           /\ IsEnd(Run(tree, follow)[s])
           /\ IsEnd(s) => Run(tree, follow)[s] = s
           /\ ~IsEnd(s) => /\ Run(tree, follow)[s] = Run(tree, follow)[StepPath(tree, follow, s)]
                           /\ StepPath(tree, follow, s) \in Resolutions
<1>1. \A s \in Resolutions : ~IsEnd(s) => StepPath(tree, follow, s) \in Resolutions
  BY StepIsTyped
<1> QED
  BY <1>1, RunEquation

(* Resolution that follows every symlink, as os_stat does.                   *)
Ahead(tree, s) == StepPath(tree, TRUE, s)
RunAhead(tree) == Run(tree, TRUE)

With(s, rest) == [s EXCEPT !.rest = rest]

LEMMA PathsConcat ==
  \A p, q, r \in Paths : p \o q \in Paths /\ p \o (q \o r) = (p \o q) \o r
BY ConcatAssociative, ConcatProperties DEF Paths

LEMMA HeadTailConcat ==
  ASSUME NEW S, NEW p \in Seq(S), NEW q \in Seq(S), p # <<>>
  PROVE  Head(p \o q) = Head(p) /\ Tail(p \o q) = Tail(p) \o q
<1>1. p = <<Head(p)>> \o Tail(p) /\ Head(p) \in S /\ Tail(p) \in Seq(S)
  BY HeadTailProperties
<1>2. <<Head(p)>> \in Seq(S) /\ Len(<<Head(p)>>) = 1 /\ <<Head(p)>>[1] = Head(p)
  BY <1>1
<1>3. Tail(p) \o q \in Seq(S)
  BY <1>1, ConcatProperties
<1>4. p \o q = <<Head(p)>> \o (Tail(p) \o q)
  BY <1>1, <1>2, ConcatAssociative
<1>5. \A x \in S : \A r \in Seq(S) : Head(<<x>> \o r) = x /\ Tail(<<x>> \o r) = r
  OBVIOUS
<1> QED
  BY <1>1, <1>3, <1>4, <1>5

(* A step with names to come after it is the step that follows symlinks.     *)
LEMMA StepBeforeMore ==
  ASSUME NEW tree, IsTree(tree), NEW follow, NEW s \in Resolutions, ~IsEnd(s),
         NEW q \in Paths, q # <<>>
  PROVE  /\ Ahead(tree, s).error = None =>
              StepPath(tree, follow, With(s, s.rest \o q)) = With(Ahead(tree, s), Ahead(tree, s).rest \o q)
         /\ Ahead(tree, s).error # None =>
              StepPath(tree, follow, With(s, s.rest \o q)).error = Ahead(tree, s).error
<1> PICK r : r = Ahead(tree, s)
  OBVIOUS
<1> PICK more : more = StepPath(tree, follow, With(s, s.rest \o q))
  OBVIOUS
<1> SUFFICES IF r.error = None THEN more = With(r, r.rest \o q)
             ELSE more.error = r.error
  OBVIOUS
<1> DEFINE t == With(s, s.rest \o q)
<1>r. r = StepPath(tree, TRUE, s)
  BY DEF Ahead
<1>0. None \notin {"ENOENT", "ENOTDIR", "ELOOP"}
  BY HostTreeAssumption
<1>1. /\ s.at \in Nodes /\ s.rest \in Paths /\ s.rest # <<>> /\ s.links \in 0 .. LinkMax
      /\ s.error = None
  BY DEF Resolutions, IsEnd
<1>2. /\ Head(s.rest \o q) = Head(s.rest) /\ Tail(s.rest \o q) = Tail(s.rest) \o q
      /\ Len(s.rest \o q) > 1
  <2>1. Head(s.rest \o q) = Head(s.rest) /\ Tail(s.rest \o q) = Tail(s.rest) \o q
    BY <1>1, HeadTailConcat DEF Paths
  <2>2. Len(s.rest \o q) = Len(s.rest) + Len(q) /\ Len(q) \in Nat /\ Len(s.rest) \in Nat
        /\ Len(q) # 0 /\ Len(s.rest) # 0
    BY <1>1, ConcatProperties, LenProperties, EmptySeq DEF Paths
  <2>3. Len(s.rest \o q) > 1
    BY <2>2
  <2> QED
    BY <2>1, <2>3
<1>3. t.at = s.at /\ t.rest = s.rest \o q /\ t.links = s.links /\ t.error = None
  BY <1>1 DEF With, Resolutions
<1>4. NextOf(tree, t) = NextOf(tree, s)
  BY <1>2, <1>3 DEF NextOf
<1>5. IsFollowed(tree, follow, t) <=> IsFollowed(tree, TRUE, s)
  BY <1>2, <1>3, <1>4 DEF IsFollowed
<1> HIDE DEF t
<1>6. more = StepPath(tree, follow, t)
  BY DEF t
<1>7. t = [s EXCEPT !.rest = s.rest \o q]
  BY DEF t, With
<1>8. CASE tree[s.at].kind # "dir"
  <2>1. r = [s EXCEPT !.error = "ENOTDIR"] /\ more = [t EXCEPT !.error = "ENOTDIR"]
    BY <1>3, <1>6, <1>8, StepCases, <1>r
  <2> QED
    BY <1>0, <1>1, <1>7, <2>1 DEF Resolutions
<1>9. CASE tree[s.at].kind = "dir" /\ NextOf(tree, s) = None
  <2>1. r = [s EXCEPT !.error = "ENOENT"] /\ more = [t EXCEPT !.error = "ENOENT"]
    BY <1>3, <1>4, <1>6, <1>9, StepCases, <1>r
  <2> QED
    BY <1>0, <1>1, <1>7, <2>1 DEF Resolutions
<1>10. CASE tree[s.at].kind = "dir" /\ NextOf(tree, s) # None /\ ~IsFollowed(tree, TRUE, s)
  <2>1. r = [s EXCEPT !.at = NextOf(tree, s), !.rest = Tail(s.rest)]
        /\ more = [t EXCEPT !.at = NextOf(tree, s), !.rest = Tail(s.rest) \o q]
    BY <1>2, <1>3, <1>4, <1>5, <1>6, <1>10, StepCases, <1>r
  <2> QED
    BY <1>0, <1>1, <1>7, <2>1 DEF Resolutions, With
<1>11. CASE tree[s.at].kind = "dir" /\ NextOf(tree, s) # None /\ IsFollowed(tree, TRUE, s) /\ s.links = LinkMax
  <2>1. r = [s EXCEPT !.error = "ELOOP"] /\ more = [t EXCEPT !.error = "ELOOP"]
    BY <1>3, <1>4, <1>5, <1>6, <1>11, StepCases, <1>r
  <2> QED
    BY <1>0, <1>1, <1>7, <2>1 DEF Resolutions
<1>12. CASE tree[s.at].kind = "dir" /\ NextOf(tree, s) # None /\ IsFollowed(tree, TRUE, s) /\ s.links # LinkMax
  <2> DEFINE to == tree[NextOf(tree, s)].to
  <2>1. r = [s EXCEPT !.rest = to \o Tail(s.rest), !.links = s.links + 1]
        /\ more = [t EXCEPT !.rest = to \o (Tail(s.rest) \o q), !.links = s.links + 1]
    BY <1>2, <1>3, <1>4, <1>5, <1>6, <1>12, StepCases, <1>r
  <2>2. NextOf(tree, s) \in Nodes
    <3>1. Head(s.rest) \in Names \cup {Up}
      BY <1>1, HeadTailProperties DEF Paths
    <3> QED
      BY <1>1, <1>12, <3>1, HostTreeAssumption DEF IsTree, NextOf
  <2>3. to \in Paths
    BY <1>12, <2>2 DEF IsTree, IsFollowed
  <2>4. to \o (Tail(s.rest) \o q) = (to \o Tail(s.rest)) \o q
    <3>1. Tail(s.rest) \in Paths
      BY <1>1, HeadTailProperties DEF Paths
    <3> QED
      BY <2>3, <3>1, PathsConcat
  <2> DEFINE one == to \o Tail(s.rest)
  <2>5. r = [s EXCEPT !.rest = one, !.links = s.links + 1]
        /\ more = [t EXCEPT !.rest = one \o q, !.links = s.links + 1]
    BY <2>1, <2>4
  <2> HIDE DEF to, one
  <2>6. r.rest = one /\ r.error = None
    BY <1>1, <2>5 DEF Resolutions
  <2>7. more = [r EXCEPT !.rest = one \o q]
    BY <1>1, <1>7, <2>5 DEF Resolutions
  <2> QED
    BY <2>6, <2>7 DEF With
<1> QED
  BY <1>8, <1>9, <1>10, <1>11, <1>12

LEMMA AheadEnds ==
  ASSUME NEW tree, IsTree(tree), NEW B \in SUBSET Resolutions,
         \A s \in B : ~IsEnd(s) /\ Ahead(tree, s) \in B
  PROVE  B = {}
<1>1. \A s \in B : ~IsEnd(s) /\ StepPath(tree, TRUE, s) \in B
  BY DEF Ahead
<1> QED
  BY <1>1, ResolutionEnds, Zenon

(* A path is resolved to its end before what is appended to it.              *)
LEMMA Continue ==
  ASSUME NEW tree, IsTree(tree), NEW follow, NEW s \in Resolutions, s.error = None,
         NEW q \in Paths, q # <<>>
  PROVE  LET e == RunAhead(tree)[s]
             all == Run(tree, follow)[With(s, s.rest \o q)]
         IN IF e.error = None THEN all = Run(tree, follow)[With(e, q)] ELSE all.error # None
<1>a. \A x \in Resolutions :
        /\ RunAhead(tree)[x] \in Resolutions
        /\ IsEnd(RunAhead(tree)[x])
        /\ IsEnd(x) => RunAhead(tree)[x] = x
        /\ ~IsEnd(x) => /\ RunAhead(tree)[x] = RunAhead(tree)[Ahead(tree, x)]
                        /\ Ahead(tree, x) \in Resolutions
  BY RunFacts, Zenon DEF Ahead, RunAhead
<1> DEFINE e(x) == RunAhead(tree)[x]
           all(x) == Run(tree, follow)[With(x, x.rest \o q)]
           Holds(x) == IF e(x).error = None THEN all(x) = Run(tree, follow)[With(e(x), q)]
                       ELSE all(x).error # None
           B == {x \in Resolutions : x.error = None /\ ~Holds(x)}
<1>1. ASSUME NEW x \in B
      PROVE  ~IsEnd(x) /\ Ahead(tree, x) \in B
  <2>0. x \in Resolutions /\ x.error = None /\ ~Holds(x) /\ x.rest \in Paths
    BY DEF Resolutions
  <2>a. ASSUME NEW p \in Paths
        PROVE  /\ With(x, p \o q) \in Resolutions /\ ~IsEnd(With(x, p \o q))
    <3>1. p \o q \in Paths /\ p \o q # <<>>
      BY ConcatProperties, LenProperties, EmptySeq DEF Paths
    <3> QED
      BY <2>0, <3>1 DEF With, Resolutions, IsEnd
  <2>1. ~IsEnd(x)
    <3> SUFFICES ASSUME x.rest = <<>>
                 PROVE  FALSE
      BY <2>0 DEF IsEnd
    <3>1. e(x) = x
      BY <2>0, <1>a DEF IsEnd
    <3>2. x.rest \o q = q
      BY DEF Paths
    <3> QED
      BY <2>0, <3>1, <3>2
  <2>2. PICK r : r = Ahead(tree, x)
    OBVIOUS
  <2>3. PICK m : m = StepPath(tree, follow, With(x, x.rest \o q))
    OBVIOUS
  <2>4. r \in Resolutions /\ e(x) = e(r) /\ all(x) = Run(tree, follow)[m]
    <3>1. r \in Resolutions /\ e(x) = e(r)
      BY <2>0, <2>1, <2>2, <1>a
    <3>2. With(x, x.rest \o q) \in Resolutions /\ ~IsEnd(With(x, x.rest \o q))
      BY <2>0, <2>a
    <3>3. all(x) = Run(tree, follow)[m]
      BY <2>3, <3>2, RunEquation
    <3> QED
      BY <3>1, <3>3
  <2>5. IF r.error = None THEN m = With(r, r.rest \o q) ELSE m.error = r.error
    BY <2>0, <2>1, <2>2, <2>3, StepBeforeMore
  <2>6. m \in Resolutions
    BY <2>0, <2>3, <2>a, StepIsTyped
  <2>7. r.error = None
    <3> SUFFICES ASSUME r.error # None
                 PROVE  FALSE
      OBVIOUS
    <3>1. e(r) = r
      BY <2>4, <1>a DEF IsEnd
    <3>2. Run(tree, follow)[m] = m
      BY <2>5, <2>6, RunEquation DEF IsEnd
    <3> QED
      BY <2>0, <2>4, <2>5, <3>1, <3>2
  <2>8. all(x) = all(r)
    BY <2>4, <2>5, <2>7
  <2> HIDE DEF e, all
  <2> QED
    BY <2>0, <2>1, <2>2, <2>4, <2>7, <2>8
<1>2. B \in SUBSET Resolutions
  OBVIOUS
<1>3. B = {}
  <2> HIDE DEF B
  <2> QED
    BY <1>1, <1>2, AheadEnds
<1> QED
  BY <1>3

(* A resolution that has followed fewer symlinks leads to the same node.     *)
Fewer(s, l) == [s EXCEPT !.links = l]

LEMMA Cheaper ==
  ASSUME NEW tree, IsTree(tree), NEW follow, NEW s \in Resolutions,
         Run(tree, follow)[s].error = None, NEW l \in 0 .. s.links
  PROVE  /\ Run(tree, follow)[Fewer(s, l)].error = None
         /\ Run(tree, follow)[Fewer(s, l)].at = Run(tree, follow)[s].at
<1> DEFINE run == Run(tree, follow)
           Less(x, k) == [x EXCEPT !.links = k]
           Holds(x, k) == run[Less(x, k)].error = None /\ run[Less(x, k)].at = run[x].at
           B == {x \in Resolutions : run[x].error = None /\ \E k \in 0 .. x.links : ~Holds(x, k)}
<1>0. LinkMax \in Nat /\ \A x \in Resolutions : x.links \in 0 .. LinkMax
  BY HostTreeAssumption DEF Resolutions
<1>1. ASSUME NEW x \in B
      PROVE  ~IsEnd(x) /\ StepPath(tree, follow, x) \in B
  <2>0. x \in Resolutions /\ run[x].error = None
    OBVIOUS
  <2>1. PICK k \in 0 .. x.links : ~Holds(x, k)
    OBVIOUS
  <2>a. Less(x, k) \in Resolutions /\ Less(x, k).error = x.error /\ Less(x, k).rest = x.rest
        /\ Less(x, k).at = x.at /\ Less(x, k).links = k
    BY <1>0, <2>0 DEF Resolutions
  <2>2. ~IsEnd(x)
    <3> SUFFICES ASSUME IsEnd(x)
                 PROVE  FALSE
      OBVIOUS
    <3>1. run[x] = x /\ IsEnd(Less(x, k))
      BY <2>0, <2>a, RunEquation DEF IsEnd
    <3>2. run[Less(x, k)] = Less(x, k)
      BY <2>a, <3>1, RunEquation
    <3> QED
      BY <2>0, <2>1, <2>a, <3>1, <3>2
  <2>3. PICK r : r = StepPath(tree, follow, x)
    OBVIOUS
  <2>4. PICK m : m = StepPath(tree, follow, Less(x, k))
    OBVIOUS
  <2>5. r \in Resolutions /\ run[x] = run[r] /\ run[Less(x, k)] = run[m]
    <3>1. ~IsEnd(Less(x, k))
      BY <2>2, <2>a DEF IsEnd
    <3> QED
      BY <2>0, <2>2, <2>3, <2>4, <2>a, <3>1, RunEquation, StepIsTyped
  <2>6. r.error = None
    <3> SUFFICES ASSUME r.error # None
                 PROVE  FALSE
      OBVIOUS
    <3>1. run[r] = r
      BY <2>5, RunEquation DEF IsEnd
    <3> QED
      BY <2>0, <2>5, <3>1
  <2>7. \E j \in 0 .. r.links : m = Less(r, j)
    <3>0. None \notin {"ENOENT", "ENOTDIR", "ELOOP"} /\ x.links \in 0 .. LinkMax /\ k <= x.links /\ k \in Nat
      BY <1>0, <2>0, HostTreeAssumption
    <3>1. NextOf(tree, Less(x, k)) = NextOf(tree, x)
          /\ (IsFollowed(tree, follow, Less(x, k)) <=> IsFollowed(tree, follow, x))
      BY <2>a DEF NextOf, IsFollowed
    <3> DEFINE n == NextOf(tree, x)
               y == Less(x, k)
    <3>2. y = [x EXCEPT !.links = k]
      OBVIOUS
    <3> HIDE DEF n, y
    <3>3. CASE ~IsFollowed(tree, follow, x)
      <4>1. r = [x EXCEPT !.at = n, !.rest = Tail(x.rest)] /\ m = [y EXCEPT !.at = n, !.rest = Tail(y.rest)]
        <5>1. tree[x.at].kind = "dir" /\ n # None
          BY <2>0, <2>3, <2>6, <3>0, StepCases DEF n, Resolutions
        <5> QED
          BY <2>3, <2>4, <2>a, <3>1, <3>3, <5>1, StepCases DEF n, y
      <4>2. k \in 0 .. r.links /\ m = Less(r, k)
        BY <2>0, <2>a, <3>0, <3>2, <4>1 DEF Resolutions, y
      <4> QED
        BY <4>2
    <3>4. CASE IsFollowed(tree, follow, x)
      <4>1. /\ r = [x EXCEPT !.rest = tree[n].to \o Tail(x.rest), !.links = x.links + 1]
            /\ m = [y EXCEPT !.rest = tree[n].to \o Tail(y.rest), !.links = k + 1]
        <5>1. tree[x.at].kind = "dir" /\ n # None /\ x.links # LinkMax
          BY <2>0, <2>3, <2>6, <3>0, <3>4, StepCases DEF n, Resolutions
        <5>2. k # LinkMax
          BY <3>0, <5>1
        <5> QED
          BY <2>3, <2>4, <2>a, <3>1, <3>4, <5>1, <5>2, StepCases DEF n, y
      <4>2. k + 1 \in 0 .. r.links /\ m = Less(r, k + 1)
        <5>1. r.links = x.links + 1 /\ x.links \in Nat
          BY <2>0, <3>0, <4>1 DEF Resolutions
        <5>2. m = Less(r, k + 1)
          BY <2>0, <2>a, <3>2, <4>1 DEF Resolutions, y
        <5> QED
          BY <3>0, <5>1, <5>2
      <4> QED
        BY <4>2
    <3> QED
      BY <3>3, <3>4
  <2>8. PICK j \in 0 .. r.links : m = Less(r, j)
    BY <2>7
  <2>9. ~Holds(r, j)
    BY <2>1, <2>5, <2>8
  <2> HIDE DEF Holds, run
  <2> QED
    BY <2>0, <2>2, <2>3, <2>5, <2>9
<1>2. B \in SUBSET Resolutions
  OBVIOUS
<1>3. B = {}
  <2> HIDE DEF B
  <2> QED
    BY <1>1, <1>2, ResolutionEnds
<1> QED
  BY <1>3 DEF Fewer

-----------------------------------------------------------------------------
(* What a path one name longer leads to. *)
LEMMA AtIsTyped ==
  ASSUME NEW d \in Nodes, NEW p \in Paths
  PROVE  At(d, p) \in Resolutions
BY HostTreeAssumption DEF At, Resolutions

LEMMA AppendIsPath ==
  ASSUME NEW p \in Paths, NEW n \in Names \cup {Up}
  PROVE  /\ <<n>> \in Paths /\ <<n>> # <<>> /\ Append(p, n) \in Paths /\ Append(p, n) = p \o <<n>>
         /\ Append(p, n) # <<>> /\ Front(Append(p, n)) = p /\ Last(Append(p, n)) = n
<1>1. <<n>> \in Paths /\ <<n>> # <<>> /\ Append(p, n) \in Paths /\ Append(p, n) # <<>>
  <2> PICK S : S = Names \cup {Up}
    OBVIOUS
  <2>1. p \in Seq(S) /\ n \in S
    BY DEF Paths
  <2>2. <<n>> \in Seq(S) /\ <<n>> # <<>>
    BY <2>1
  <2>3. Append(p, n) \in Seq(S) /\ Append(p, n) # <<>>
    BY <2>1, AppendProperties
  <2> QED
    BY <2>2, <2>3 DEF Paths
<1>2. Append(p, n) = p \o <<n>>
  BY AppendIsConcat DEF Paths
<1>3. Front(Append(p, n)) = p /\ Last(Append(p, n)) = n
  <2>1. Len(Append(p, n)) = Len(p) + 1 /\ Len(p) \in Nat
    BY DEF Paths
  <2>2. Front(Append(p, n)) = SubSeq(Append(p, n), 1, Len(p))
    BY <2>1 DEF Front
  <2>3. SubSeq(Append(p, n), 1, Len(p)) = p
    BY DEF Paths
  <2> QED
    BY <2>1, <2>2, <2>3 DEF Last, Paths
<1> QED
  BY <1>1, <1>2, <1>3

LEMMA SameResolution ==
  ASSUME NEW r \in Resolutions, NEW s \in Resolutions,
         r.at = s.at, r.rest = s.rest, r.links = s.links, r.error = s.error
  PROVE  r = s
BY DEF Resolutions

(* A resolution of a longer path goes on from where the shorter one led.     *)
LEMMA LongerPath ==
  ASSUME NEW tree, IsTree(tree), NEW follow, NEW p \in Paths, NEW n \in Names \cup {Up},
         NEW e, e = RunAhead(tree)[At(Root, p)]
  PROVE  /\ e \in Resolutions
         /\ IF e.error = None
            THEN /\ e.rest = <<>>
                 /\ Resolve(tree, Root, Append(p, n), follow) = Run(tree, follow)[With(e, <<n>>)]
            ELSE Resolve(tree, Root, Append(p, n), follow).error # None
<1>1. At(Root, p) \in Resolutions /\ At(Root, p).error = None /\ At(Root, p).rest = p
  BY AtIsTyped, HostTreeAssumption DEF At
<1>2. With(At(Root, p), p \o <<n>>) = At(Root, Append(p, n))
  <2>1. Append(p, n) = p \o <<n>>
    BY AppendIsPath
  <2>2. p \o <<n>> \in Paths
    BY <2>1, AppendIsPath
  <2>3. With(At(Root, p), p \o <<n>>) \in Resolutions /\ At(Root, p \o <<n>>) \in Resolutions
    BY <1>1, <2>2, AtIsTyped, HostTreeAssumption DEF With, Resolutions
  <2> QED
    BY <1>1, <2>1, <2>3, SameResolution DEF With, At
<1>3. Resolve(tree, Root, Append(p, n), follow) = Run(tree, follow)[With(At(Root, p), p \o <<n>>)]
  BY <1>2, ResolveIsRun
<1>4. <<n>> \in Paths /\ <<n>> # <<>>
  BY AppendIsPath
<1>5. e \in Resolutions /\ IsEnd(e)
  BY <1>1, RunFacts, Zenon DEF RunAhead
<1>6. PICK s \in Resolutions : s = At(Root, p) /\ s.error = None /\ s.rest = p
  BY <1>1
<1>7. IF e.error = None THEN Run(tree, follow)[With(s, s.rest \o <<n>>)] = Run(tree, follow)[With(e, <<n>>)]
      ELSE Run(tree, follow)[With(s, s.rest \o <<n>>)].error # None
  BY <1>4, <1>6, Continue
<1>8. Resolve(tree, Root, Append(p, n), follow) = Run(tree, follow)[With(s, s.rest \o <<n>>)]
  BY <1>3, <1>6
<1>9. e.error = None => e.rest = <<>>
  BY <1>5 DEF IsEnd
<1> QED
  BY <1>5, <1>7, <1>8, <1>9

LEMMA IdentityIsRun ==
  ASSUME NEW tree, IsTree(tree), NEW p \in Paths
  PROVE  LET e == RunAhead(tree)[At(Root, p)]
         IN /\ e \in Resolutions
            /\ Identity(tree, p) = IF e.error = None THEN e.at ELSE None
            /\ Identity(tree, p) \in Nodes \cup {None}
            /\ Identity(tree, p) # None <=> e.error = None
<1>1. Resolve(tree, Root, p, TRUE) = RunAhead(tree)[At(Root, p)]
  BY ResolveIsRun, Zenon DEF RunAhead
<1>2. RunAhead(tree)[At(Root, p)] \in Resolutions
  BY AtIsTyped, HostTreeAssumption, RunFacts, Zenon DEF RunAhead
<1> QED
  BY <1>1, <1>2, HostTreeAssumption DEF Identity, Stat, Resolutions

LEMMA IdentityOfEntry ==
  ASSUME NEW tree, IsTree(tree), NEW p \in Paths, NEW n \in Names \cup {Up},
         Identity(tree, Append(p, n)) # None
  PROVE  /\ Identity(tree, p) \in Nodes
         /\ Resolve(tree, Identity(tree, p), <<n>>, TRUE).error = None
         /\ Resolve(tree, Identity(tree, p), <<n>>, TRUE).at = Identity(tree, Append(p, n))
<1> PICK e : e = RunAhead(tree)[At(Root, p)]
  OBVIOUS
<1>1. /\ e \in Resolutions
      /\ Identity(tree, p) = IF e.error = None THEN e.at ELSE None
  BY IdentityIsRun
<1>2. IF e.error = None
      THEN /\ e.rest = <<>>
           /\ Resolve(tree, Root, Append(p, n), TRUE) = RunAhead(tree)[With(e, <<n>>)]
      ELSE Resolve(tree, Root, Append(p, n), TRUE).error # None
  <2> PICK follow : follow = TRUE
    OBVIOUS
  <2>1. IF e.error = None
        THEN /\ e.rest = <<>>
             /\ Resolve(tree, Root, Append(p, n), follow) = Run(tree, follow)[With(e, <<n>>)]
        ELSE Resolve(tree, Root, Append(p, n), follow).error # None
    BY LongerPath
  <2> QED
    BY <2>1, Zenon DEF RunAhead
<1>3. Resolve(tree, Root, Append(p, n), TRUE).error = None
      /\ Identity(tree, Append(p, n)) = Resolve(tree, Root, Append(p, n), TRUE).at
  BY DEF Identity, Stat
<1>4. e.error = None /\ e.at \in Nodes /\ e.links \in 0 .. LinkMax /\ LinkMax \in Nat
  BY <1>1, <1>2, <1>3, HostTreeAssumption DEF Resolutions
<1>5. With(e, <<n>>) \in Resolutions /\ With(e, <<n>>).links = e.links
  BY <1>1, <1>4, AppendIsPath DEF With, Resolutions
<1>6. Fewer(With(e, <<n>>), 0) = At(e.at, <<n>>)
  <2>1. Fewer(With(e, <<n>>), 0) \in Resolutions /\ At(e.at, <<n>>) \in Resolutions
    <3>1. At(e.at, <<n>>) \in Resolutions
      BY <1>4, AtIsTyped, AppendIsPath
    <3> QED
      BY <1>4, <1>5, <3>1 DEF Resolutions, Fewer
  <2> QED
    BY <1>1, <1>4, <2>1, SameResolution DEF Fewer, With, At, Resolutions
<1>7. 0 \in 0 .. With(e, <<n>>).links
  BY <1>4, <1>5
<1>8. RunAhead(tree)[At(e.at, <<n>>)].error = None
      /\ RunAhead(tree)[At(e.at, <<n>>)].at = RunAhead(tree)[With(e, <<n>>)].at
  <2> PICK s : s = With(e, <<n>>)
    OBVIOUS
  <2>1. s \in Resolutions /\ 0 \in 0 .. s.links
    BY <1>4, <1>5, <1>7
  <2>2. \A follow : Run(tree, follow)[s].error = None =>
          /\ Run(tree, follow)[Fewer(s, 0)].error = None
          /\ Run(tree, follow)[Fewer(s, 0)].at = Run(tree, follow)[s].at
    BY <2>1, Cheaper
  <2>3. RunAhead(tree)[s].error = None =>
          /\ RunAhead(tree)[Fewer(s, 0)].error = None
          /\ RunAhead(tree)[Fewer(s, 0)].at = RunAhead(tree)[s].at
    BY <2>2, Zenon DEF RunAhead
  <2> QED
    BY <1>2, <1>3, <1>4, <1>6, <2>3
<1>9. Resolve(tree, e.at, <<n>>, TRUE) = RunAhead(tree)[At(e.at, <<n>>)]
  BY ResolveIsRun, Zenon DEF RunAhead
<1> QED
  BY <1>1, <1>2, <1>3, <1>4, <1>8, <1>9

(* An entry that is no symlink is what its name leads to, followed or not.   *)
LEMMA EntryStep ==
  ASSUME NEW tree, IsTree(tree), NEW follow, NEW s \in Resolutions, s.error = None,
         NEW n \in Names, s.rest = <<n>>, tree[s.at].kind = "dir", Has(tree, s.at, n),
         tree[tree[s.at].entries[n]].kind # "link"
  PROVE  Run(tree, follow)[s].error = None /\ Run(tree, follow)[s].at = tree[s.at].entries[n]
<1> DEFINE child == tree[s.at].entries[n]
           r == [s EXCEPT !.at = child, !.rest = <<>>]
<1>1. /\ s.at \in Nodes /\ EntryName[n] = n /\ child \in Nodes /\ child # None
      /\ Head(s.rest) = n /\ Tail(s.rest) = <<>> /\ n # Up
  BY HostTreeAssumption DEF Resolutions, IsTree, Has
<1>2. NextOf(tree, s) = child /\ ~IsFollowed(tree, follow, s)
  BY <1>1 DEF NextOf, IsFollowed
<1>3. StepPath(tree, follow, s) = r
  BY <1>1, <1>2, StepCases
<1>4. ~IsEnd(s)
  BY DEF IsEnd
<1>5. r \in Resolutions /\ IsEnd(r)
  <2>1. <<>> \in Paths
    BY DEF Paths
  <2> QED
    BY <1>1, <2>1 DEF Resolutions, IsEnd
<1>6. Run(tree, follow)[s] = r
  BY <1>3, <1>4, <1>5, RunFacts
<1>7. r.error = None /\ r.at = child
  BY DEF Resolutions
<1> QED
  BY <1>6, <1>7

LEMMA EntryIsReal ==
  ASSUME NEW tree, IsTree(tree), NEW p \in Paths, NEW d \in Nodes, NEW n \in Names,
         tree[d].kind = "dir", Has(tree, d, n), tree[tree[d].entries[n]].kind # "link"
  PROVE  /\ Resolve(tree, d, <<n>>, TRUE).error = None
         /\ Resolve(tree, d, <<n>>, TRUE).at = tree[d].entries[n]
         /\ Identity(tree, p) = d => /\ Identity(tree, Append(p, n)) = tree[d].entries[n]
                                     /\ Lstat(tree, Append(p, n)).at = tree[d].entries[n]
<1>0. n \in Names \cup {Up} /\ tree[d].entries[n] \in Nodes /\ <<n>> \in Paths
      /\ tree[d].entries[n] # None
  BY AppendIsPath, HostTreeAssumption DEF IsTree, Has
<1>a. ASSUME NEW follow
      PROVE  /\ Resolve(tree, d, <<n>>, follow).error = None
             /\ Resolve(tree, d, <<n>>, follow).at = tree[d].entries[n]
             /\ Identity(tree, p) = d => /\ Resolve(tree, Root, Append(p, n), follow).error = None
                                         /\ Resolve(tree, Root, Append(p, n), follow).at = tree[d].entries[n]
  <2>1. At(d, <<n>>) \in Resolutions /\ At(d, <<n>>).at = d /\ At(d, <<n>>).error = None
        /\ At(d, <<n>>).rest = <<n>>
    BY <1>0, AtIsTyped DEF At
  <2>3. Resolve(tree, d, <<n>>, follow).error = None /\ Resolve(tree, d, <<n>>, follow).at = tree[d].entries[n]
    <3> PICK s : s = At(d, <<n>>)
      OBVIOUS
    <3>1. Run(tree, follow)[s].error = None /\ Run(tree, follow)[s].at = tree[d].entries[n]
      BY <2>1, EntryStep
    <3> QED
      BY <3>1, ResolveIsRun
  <2>4. ASSUME Identity(tree, p) = d
        PROVE  /\ Resolve(tree, Root, Append(p, n), follow).error = None
               /\ Resolve(tree, Root, Append(p, n), follow).at = tree[d].entries[n]
    <3> PICK e : e = RunAhead(tree)[At(Root, p)]
      OBVIOUS
    <3>1. e \in Resolutions /\ e.error = None /\ e.at = d
      BY <2>4, IdentityIsRun, HostTreeAssumption
    <3>2. Resolve(tree, Root, Append(p, n), follow) = Run(tree, follow)[With(e, <<n>>)]
      BY <1>0, <3>1, LongerPath
    <3>3. With(e, <<n>>) \in Resolutions /\ With(e, <<n>>).at = d /\ With(e, <<n>>).error = None
          /\ With(e, <<n>>).rest = <<n>>
      BY <1>0, <3>1 DEF With, Resolutions
    <3> PICK s : s = With(e, <<n>>)
      OBVIOUS
    <3>4. Run(tree, follow)[s].error = None /\ Run(tree, follow)[s].at = tree[d].entries[n]
      BY <3>3, EntryStep
    <3> QED
      BY <3>2, <3>4
  <2> QED
    BY <2>3, <2>4
<1>1. /\ Resolve(tree, d, <<n>>, TRUE).error = None
      /\ Resolve(tree, d, <<n>>, TRUE).at = tree[d].entries[n]
      /\ Identity(tree, p) = d => /\ Stat(tree, Append(p, n)).error = None
                                  /\ Stat(tree, Append(p, n)).at = tree[d].entries[n]
  BY <1>a, Zenon DEF Stat
<1>2. Identity(tree, p) = d => Lstat(tree, Append(p, n)).at = tree[d].entries[n]
  BY <1>a, Zenon DEF Lstat
<1> QED
  BY <1>1, <1>2 DEF Identity

LEMMA LstatOfEntry ==
  ASSUME NEW tree, IsTree(tree), NEW p \in Paths, NEW n \in Names, Identity(tree, p) \in Nodes,
         tree[Identity(tree, p)].kind = "dir", Has(tree, Identity(tree, p), n),
         tree[tree[Identity(tree, p)].entries[n]].kind # "link"
  PROVE  Lstat(tree, Append(p, n)).at = tree[Identity(tree, p)].entries[n]
BY EntryIsReal, Zenon

-----------------------------------------------------------------------------
(* What a directory lists, and the order the search takes it in. *)
Kinds == {"file", "dir", "dirlink", "failed"}

Child(tree, d, name) == Resolve(tree, d, <<name>>, TRUE).at

LEMMA ChildIsTyped ==
  ASSUME NEW tree, IsTree(tree), NEW d \in Nodes, NEW n \in Names
  PROVE  Resolve(tree, d, <<n>>, TRUE) \in Resolutions
<1>1. At(d, <<n>>) \in Resolutions
  <2>1. <<n>> \in Paths
    <3>1. <<>> \in Paths /\ n \in Names \cup {Up}
      BY DEF Paths
    <3> QED
      BY <3>1, AppendIsPath
  <2> QED
    BY <2>1, AtIsTyped
<1> QED
  BY <1>1, ResolveIsRun, RunFacts, Zenon

LEMMA ListingFacts ==
  ASSUME NEW tree, IsTree(tree), NEW d \in Nodes
  PROVE  /\ IsFiniteSet(Listing(tree, d))
         /\ Listing(tree, d) \subseteq [name : Names, kind : Kinds]
         /\ \A e \in Listing(tree, d) : e.kind = EntryKind(tree, d, e.name) /\ Has(tree, d, e.name)
         /\ \A e, f \in Listing(tree, d) : e.name = f.name => e = f
         /\ \A n \in Names : Has(tree, d, n) /\ EntryKind(tree, d, n) # "skipped" =>
              [name |-> n, kind |-> EntryKind(tree, d, n)] \in Listing(tree, d)
<1> DEFINE Entries == {[name |-> n, kind |-> EntryKind(tree, d, n)] : n \in {m \in Names : Has(tree, d, m)}}
<1>1. \A n \in Names : EntryKind(tree, d, n) \in Kinds \cup {"skipped"}
  BY DEF EntryKind, Kinds
<1>2. IsFiniteSet(Listing(tree, d))
  <2>1. IsFiniteSet({m \in Names : Has(tree, d, m)})
    BY HostTreeAssumption, FS_Subset
  <2>2. IsFiniteSet(Entries)
    <3> DEFINE M == {m \in Names : Has(tree, d, m)}
               f == [n \in M |-> [name |-> n, kind |-> EntryKind(tree, d, n)]]
    <3>1. f \in Surjection(M, Entries)
      BY DEF Surjection
    <3> QED
      BY <2>1, <3>1, FS_Surjection
  <2>3. Listing(tree, d) \subseteq Entries
    BY DEF Listing
  <2> QED
    BY <2>2, <2>3, FS_Subset
<1>3. Listing(tree, d) = {e \in Entries : e.kind # "skipped"}
  BY DEF Listing
<1> QED
  BY <1>1, <1>2, <1>3

IsOrderOf(order, L) ==
  /\ order \in Seq(L)
  /\ \A j, k \in 1..Len(order) : order[j] = order[k] => j = k
  /\ \A e \in L : \E j \in 1..Len(order) : order[j] = e

LEMMA InOrderFacts ==
  ASSUME NEW tree, IsTree(tree), NEW d \in Nodes
  PROVE  IsOrderOf(InOrder(Listing(tree, d)), Listing(tree, d))
<1> PICK L : L = Listing(tree, d)
  OBVIOUS
<1> PICK order : order = InOrder(L)
  OBVIOUS
<1> DEFINE R == {p \in L \X L : ByteOrder[p[1].name] < ByteOrder[p[2].name]}
           n == Cardinality(L)
<1>1. /\ IsFiniteSet(L) /\ \A e \in L : e.name \in Names
      /\ \A e, f \in L : e.name = f.name => e = f
  BY ListingFacts
<1>2. /\ \A e \in L : ByteOrder[e.name] \in Nat
      /\ \A e, f \in L : e # f => ByteOrder[e.name] # ByteOrder[f.name]
  BY <1>1, WalkAssumption
<1>3. IsOrder(L, R)
  BY <1>2 DEF IsOrder
<1>4. PICK g \in Orders(L, R) : TRUE
  <2> HIDE DEF R
  <2> QED
    BY <1>1, <1>3, OrderExists
<1>5. /\ g \in [1..n -> L]
      /\ \A i, j \in 1..n : i < j => ByteOrder[g[i].name] < ByteOrder[g[j].name]
  BY <1>4 DEF Orders
<1>6. /\ order \in [1..n -> L]
      /\ \A i, j \in 1..n : i < j => ByteOrder[order[i].name] < ByteOrder[order[j].name]
  BY <1>5 DEF InOrder
<1>7. n \in Nat
  BY <1>1, FS_CardinalityType
<1>8. \A i, j \in 1..n : order[i] = order[j] => i = j
  BY <1>2, <1>6, <1>7
<1>9. \A e \in L : \E i \in 1..n : order[i] = e
  <2>1. order \in Injection(1..n, L)
    BY <1>6, <1>8 DEF Injection, IsInjective
  <2>2. IsFiniteSet(1..n) /\ Cardinality(1..n) = n
    BY <1>7, FS_Interval
  <2>3. order \in Surjection(1..n, L)
    BY <1>1, <2>1, <2>2, FS_Injection
  <2> QED
    BY <2>3 DEF Surjection
<1>10. order \in Seq(L) /\ Len(order) = n
  BY <1>6, <1>7
<1> QED
  BY <1>8, <1>9, <1>10 DEF IsOrderOf

-----------------------------------------------------------------------------
(* The two sets the listing is compared with, each the closure of a step.    *)
Below(tree, d) ==
  {Resolve(tree, d, <<e.name>>, TRUE).at : e \in {f \in Listing(tree, d) : f.kind \in {"dir", "dirlink"}}}

ReachStep(tree, excluded) ==
  [dirs \in SUBSET Nodes |-> (UNION {Below(tree, d) : d \in dirs}) \ {excluded}]

LEMMA BelowIsTyped ==
  ASSUME NEW tree, IsTree(tree), NEW d \in Nodes
  PROVE  Below(tree, d) \subseteq Nodes
<1>1. \A e \in Listing(tree, d) : e.name \in Names
  BY ListingFacts
<1>2. \A n \in Names : Resolve(tree, d, <<n>>, TRUE).at \in Nodes
  BY ChildIsTyped DEF Resolutions
<1> QED
  BY <1>1, <1>2 DEF Below

Without(dir, excluded) == {dir} \ {excluded, None}

LEMMA ReachIsClosure ==
  ASSUME NEW tree, IsTree(tree), NEW dir, NEW excluded
  PROVE  /\ ReachStep(tree, excluded) \in [SUBSET Nodes -> SUBSET Nodes]
         /\ \E f : /\ Closes(f, Nodes, ReachStep(tree, excluded))
                  /\ Reach(tree, dir, excluded) = f[Without(dir, excluded)]
<1> DEFINE F == ReachStep(tree, excluded)
           Adds(R) == (UNION {Below(tree, d) : d \in R}) \ {excluded}
           f == CHOOSE close : close = [R \in SUBSET Nodes |->
                  IF R \cup Adds(R) = R THEN R ELSE close[R \cup Adds(R)]]
<1>1. F \in [SUBSET Nodes -> SUBSET Nodes]
  <2>1. \A R \in SUBSET Nodes : Adds(R) \in SUBSET Nodes
    BY BelowIsTyped
  <2> QED
    BY <2>1 DEF ReachStep
<1>2. \A R \in SUBSET Nodes : F[R] = Adds(R)
  BY DEF ReachStep
<1>3. Reach(tree, dir, excluded) = f[{dir} \ {excluded, None}]
  BY DEF Reach, Closure, Below
<1>4. PICK g \in [SUBSET Nodes -> SUBSET Nodes] : Closes(g, Nodes, F)
  <2> HIDE DEF F
  <2> QED
    BY <1>1, ClosureExists, HostTreeAssumption
<1> HIDE DEF F, Adds
<1>5. g = [R \in SUBSET Nodes |-> IF R \cup Adds(R) = R THEN R ELSE g[R \cup Adds(R)]]
  BY <1>2, <1>4 DEF Closes
<1>6. f = [R \in SUBSET Nodes |-> IF R \cup Adds(R) = R THEN R ELSE f[R \cup Adds(R)]]
  BY <1>5
<1> HIDE DEF f
<1>7. Closes(f, Nodes, F)
  BY <1>2, <1>6 DEF Closes
<1> QED
  BY <1>1, <1>3, <1>7 DEF F, Without

LEMMA ReachFacts ==
  ASSUME NEW tree, IsTree(tree), NEW dir \in Nodes \cup {None}, NEW excluded
  PROVE  /\ Reach(tree, dir, excluded) \in SUBSET Nodes
         /\ dir \notin {excluded, None} => dir \in Reach(tree, dir, excluded)
         /\ \A d \in Reach(tree, dir, excluded) : Below(tree, d) \ {excluded} \subseteq Reach(tree, dir, excluded)
         /\ \A X \in SUBSET Nodes :
              /\ {dir} \ {excluded, None} \subseteq X
              /\ \A d \in X : Below(tree, d) \ {excluded} \subseteq X
              => Reach(tree, dir, excluded) \subseteq X
<1> DEFINE start == Without(dir, excluded)
           reach == Reach(tree, dir, excluded)
<1> PICK F : F = ReachStep(tree, excluded)
  OBVIOUS
<1>1. F \in [SUBSET Nodes -> SUBSET Nodes]
  BY ReachIsClosure
<1>2. PICK f : Closes(f, Nodes, F) /\ reach = f[start]
  BY ReachIsClosure
<1>3. \A R \in SUBSET Nodes : F[R] = (UNION {Below(tree, d) : d \in R}) \ {excluded}
  BY DEF ReachStep
<1>4. start \in SUBSET Nodes
  BY DEF Without
<1> HIDE DEF start, reach, Without
<1>5. /\ reach \in SUBSET Nodes /\ start \subseteq reach /\ F[reach] \subseteq reach
      /\ \A X \in SUBSET Nodes : start \subseteq X /\ (\A Y \in SUBSET X : F[Y] \subseteq X) => reach \subseteq X
  <2>1. IsFiniteSet(Nodes)
    BY HostTreeAssumption
  <2> QED
    BY <1>1, <1>2, <1>4, <2>1, ClosureFacts
<1>6. \A d \in reach : Below(tree, d) \ {excluded} \subseteq reach
  BY <1>3, <1>5
<1>7. ASSUME NEW X \in SUBSET Nodes, start \subseteq X, \A d \in X : Below(tree, d) \ {excluded} \subseteq X
      PROVE  reach \subseteq X
  <2>1. \A Y \in SUBSET X : F[Y] \subseteq X
    BY <1>3, <1>7
  <2> QED
    BY <1>5, <1>7, <2>1
<1> QED
  BY <1>5, <1>6, <1>7 DEF start, reach, Without

RealStep(tree, excluded) == [dirs \in SUBSET Nodes |-> RealBelow(tree, dirs, excluded)]

LEMMA RealReachIsClosure ==
  ASSUME NEW tree, NEW dir, NEW excluded
  PROVE  /\ RealStep(tree, excluded) \in [SUBSET Nodes -> SUBSET Nodes]
         /\ \E f : /\ Closes(f, Nodes, RealStep(tree, excluded))
                  /\ RealReach(tree, dir, excluded) = f[Without(dir, excluded)]
<1> DEFINE F == RealStep(tree, excluded)
           Adds(R) == RealBelow(tree, R, excluded)
           f == CHOOSE close : close = [R \in SUBSET Nodes |->
                  IF R \cup Adds(R) = R THEN R ELSE close[R \cup Adds(R)]]
<1>1. F \in [SUBSET Nodes -> SUBSET Nodes]
  BY DEF RealStep, RealBelow
<1>2. \A R \in SUBSET Nodes : F[R] = Adds(R)
  BY DEF RealStep
<1>3. RealReach(tree, dir, excluded) = f[{dir} \ {excluded, None}]
  BY DEF RealReach, Closure
<1>4. PICK g \in [SUBSET Nodes -> SUBSET Nodes] : Closes(g, Nodes, F)
  <2> HIDE DEF F
  <2> QED
    BY <1>1, ClosureExists, HostTreeAssumption
<1> HIDE DEF F, Adds
<1>5. g = [R \in SUBSET Nodes |-> IF R \cup Adds(R) = R THEN R ELSE g[R \cup Adds(R)]]
  BY <1>2, <1>4 DEF Closes
<1>6. f = [R \in SUBSET Nodes |-> IF R \cup Adds(R) = R THEN R ELSE f[R \cup Adds(R)]]
  BY <1>5
<1> HIDE DEF f
<1>7. Closes(f, Nodes, F)
  BY <1>2, <1>6 DEF Closes
<1> QED
  BY <1>1, <1>3, <1>7 DEF F, Without

LEMMA RealReachFacts ==
  ASSUME NEW tree, NEW dir \in Nodes \cup {None}, NEW excluded
  PROVE  /\ RealReach(tree, dir, excluded) \in SUBSET Nodes
         /\ \A X \in SUBSET Nodes :
              /\ {dir} \ {excluded, None} \subseteq X
              /\ \A d \in X : \A n \in Names : LET c == tree[d].entries[n] IN
                   c \in Nodes /\ c # excluded /\ tree[c].kind = "dir" => c \in X
              => RealReach(tree, dir, excluded) \subseteq X
<1> DEFINE start == Without(dir, excluded)
           reach == RealReach(tree, dir, excluded)
<1> PICK F : F = RealStep(tree, excluded)
  OBVIOUS
<1>1. F \in [SUBSET Nodes -> SUBSET Nodes]
  BY RealReachIsClosure
<1>2. PICK f : Closes(f, Nodes, F) /\ reach = f[start]
  BY RealReachIsClosure
<1>3. \A R \in SUBSET Nodes : F[R] = RealBelow(tree, R, excluded)
  BY DEF RealStep
<1>4. start \in SUBSET Nodes
  BY DEF Without
<1> HIDE DEF start, reach, Without
<1>5. /\ reach \in SUBSET Nodes
      /\ \A X \in SUBSET Nodes : start \subseteq X /\ (\A Y \in SUBSET X : F[Y] \subseteq X) => reach \subseteq X
  <2>1. IsFiniteSet(Nodes)
    BY HostTreeAssumption
  <2> QED
    BY <1>1, <1>2, <1>4, <2>1, ClosureFacts
<1>6. ASSUME NEW X \in SUBSET Nodes, start \subseteq X,
             \A d \in X : \A n \in Names : LET c == tree[d].entries[n] IN
               c \in Nodes /\ c # excluded /\ tree[c].kind = "dir" => c \in X
      PROVE  reach \subseteq X
  <2>1. \A Y \in SUBSET X : F[Y] \subseteq X
    BY <1>3, <1>6 DEF RealBelow
  <2> QED
    BY <1>5, <1>6, <2>1
<1> QED
  BY <1>5, <1>6 DEF start, reach, Without

-----------------------------------------------------------------------------
(* The invariant of the search. *)
Excluded == Identity(fs, search.excluded)
Entered == visited \ {Excluded}
Frame == [dir : Paths, left : Seq([name : Names, kind : Kinds])]
FrameDirs(st) == {st[i].dir : i \in 1..Len(st)}

(* What is left to look at, each entry with its directory.                   *)
Pending(tree, st) ==
  UNION {{<<Identity(tree, st[i].dir), st[i].left[j]>> : j \in 1..Len(st[i].left)} : i \in 1..Len(st)}

(* The search is in no directory twice, and in each it has entries left that *)
(* the directory holds.                                                      *)
IsStack(tree, st) ==
  /\ st \in Seq(Frame)
  /\ \A i \in 1..Len(st) :
       /\ Identity(tree, st[i].dir) \in Nodes
       /\ \A j \in 1..Len(st[i].left) : st[i].left[j] \in Listing(tree, Identity(tree, st[i].dir))
       /\ \A j, k \in 1..Len(st[i].left) : st[i].left[j] = st[i].left[k] => j = k
  /\ \A i, j \in 1..Len(st) : Identity(tree, st[i].dir) = Identity(tree, st[j].dir) => i = j

TypeInv ==
  /\ fs \in Trees /\ search \in Searches
  /\ pc \in {"walk", "ok", "failed"} /\ next \in Paths \cup {None}
  /\ visited \subseteq Nodes
  /\ links \in Seq(Paths) /\ paths \in Seq(Paths)
  /\ IsStack(fs, stack)

(* A path waits for the search when it is the one visit_dir is called for,   *)
(* or a symlink that is put off.                                             *)
Awaited == ({next} \cup ToSet(links)) \ {None}

LeadsTo(tree, path, d, name) ==
  path # <<>> /\ Identity(tree, Front(path)) = d /\ Last(path) = name

(* Every entry of a directory that was entered is left to look at, or was    *)
(* dealt with.                                                               *)
IsDealtWith(d, e) ==
  \/ <<d, e>> \in Pending(fs, stack)
  \/ e.kind = "file" /\ \E path \in ToSet(paths) : Place(path) = <<d, e.name>>
  \/ e.kind \in {"dir", "dirlink"} /\ Child(fs, d, e.name) \in visited
  \/ e.kind = "dir" /\ next # None /\ LeadsTo(fs, next, d, e.name)
  \/ e.kind = "dirlink" /\ \E path \in Awaited : LeadsTo(fs, path, d, e.name)

DoneInv ==
  /\ \A d \in Entered : fs[d].kind = "dir" /\ \A e \in Listing(fs, d) : IsDealtWith(d, e)
  /\ \A path \in FrameDirs(stack) : Identity(fs, path) \in Entered
  /\ Excluded \in visited \cup {None}
  /\ Identity(fs, search.root) \in visited \/ next = search.root
  /\ pc = "ok" => stack = <<>> /\ Awaited = {}

(* A file on the list is one of a directory that was entered, and is done.   *)
ListInv ==
  /\ ListsEachFileOnce
  /\ \A path \in ToSet(paths) : \E d \in Entered : \E n \in Names :
       /\ path # <<>> /\ Place(path) = <<d, n>>
       /\ [name |-> n, kind |-> "file"] \in Listing(fs, d)
       /\ <<d, [name |-> n, kind |-> "file"]>> \notin Pending(fs, stack)

(* Whatever was entered, or waits, was reached.                              *)
FoundInv ==
  /\ Entered \subseteq Reach(fs, Identity(fs, search.root), Excluded)
  /\ \A path \in ToSet(links) : path # <<>>
  /\ \A path \in Awaited :
       \/ path = search.root
       \/ \E d \in Entered : \E e \in Listing(fs, d) :
            e.kind \in {"dir", "dirlink"} /\ LeadsTo(fs, path, d, e.name)

(* Either no symlink was followed yet, or the directories that need none are *)
(* done.                                                                     *)
RealAt(path) ==
  \A k \in Len(search.root) + 1..Len(path) : fs[Lstat(fs, SubSeq(path, 1, k)).at].kind = "dir"

RealInv ==
  /\ \/ RealDirs \subseteq visited
     \/ \A path \in FrameDirs(stack) \cup ({next} \ {None}) : RealAt(path)
  /\ \A path \in FrameDirs(stack) : Identity(fs, path) \in RealDirs => RealAt(path)
  /\ PrefersRealPaths

IInv == TypeInv /\ DoneInv /\ ListInv /\ FoundInv /\ RealInv

-----------------------------------------------------------------------------
(* What the search's steps do to its stack. *)
LEMMA PendingIs ==
  ASSUME NEW tree, NEW st, NEW d, NEW e
  PROVE  <<d, e>> \in Pending(tree, st) <=>
           \E i \in 1..Len(st) : \E j \in 1..Len(st[i].left) :
             d = Identity(tree, st[i].dir) /\ e = st[i].left[j]
BY DEF Pending

LEMMA FrameIs ==
  ASSUME NEW tree, NEW st, IsStack(tree, st), NEW i \in 1..Len(st)
  PROVE  /\ st \in Seq(Frame) /\ Len(st) \in Nat /\ st[i] \in Frame /\ st[i].dir \in Paths
         /\ st[i].left \in Seq([name : Names, kind : Kinds]) /\ Len(st[i].left) \in Nat
<1>1. st \in Seq(Frame)
  BY DEF IsStack
<1>2. Len(st) \in Nat /\ st[i] \in Frame
  BY <1>1, LenProperties, ElementOfSeq
<1>3. st[i].dir \in Paths /\ st[i].left \in Seq([name : Names, kind : Kinds])
  BY <1>2 DEF Frame
<1> QED
  BY <1>1, <1>2, <1>3, LenProperties

(* A stack with one frame more. *)
LEMMA OneMore ==
  ASSUME NEW tree, NEW st, IsStack(tree, st), NEW new \in Seq(Frame), NEW frame, NEW L,
         Identity(tree, frame.dir) \in Nodes, L = Listing(tree, Identity(tree, frame.dir)),
         \A i \in 1..Len(st) : Identity(tree, st[i].dir) # Identity(tree, frame.dir),
         IsOrderOf(frame.left, L),
         Len(new) = Len(st) + 1, \A i \in 1..Len(st) : new[i] = st[i], new[Len(st) + 1] = frame
  PROVE  /\ IsStack(tree, new)
         /\ FrameDirs(new) = FrameDirs(st) \cup {frame.dir}
         /\ \A x, e : <<x, e>> \in Pending(tree, new) <=>
                     <<x, e>> \in Pending(tree, st) \/ (x = Identity(tree, frame.dir) /\ e \in L)
<1> DEFINE d == Identity(tree, frame.dir)
           order == frame.left
<1>1. /\ order \in Seq(L)
      /\ \A j, k \in 1..Len(order) : order[j] = order[k] => j = k
      /\ \A e \in L : \E j \in 1..Len(order) : order[j] = e
  BY DEF IsOrderOf
<1>2. \A j \in 1..Len(order) : order[j] \in L
  BY <1>1, ElementOfSeq
<1>3. frame.left = order
  OBVIOUS
<1>4. Len(st) \in Nat
  BY LenProperties DEF IsStack
<1>5. /\ new \in Seq(Frame) /\ Len(new) = Len(st) + 1
      /\ \A i \in 1..Len(st) : new[i] = st[i]
      /\ new[Len(st) + 1] = frame
  OBVIOUS
<1>6. \A i \in 1..Len(new) : i \in 1..Len(st) \/ i = Len(st) + 1
  BY <1>4, <1>5
<1>7. 1..Len(st) \subseteq 1..Len(new) /\ Len(st) + 1 \in 1..Len(new)
  BY <1>4, <1>5
<1>8. IsStack(tree, new)
  <2>1. ASSUME NEW i \in 1..Len(new)
        PROVE  /\ Identity(tree, new[i].dir) \in Nodes
               /\ \A j \in 1..Len(new[i].left) : new[i].left[j] \in Listing(tree, Identity(tree, new[i].dir))
               /\ \A j, k \in 1..Len(new[i].left) : new[i].left[j] = new[i].left[k] => j = k
    <3>1. CASE i \in 1..Len(st)
      BY <1>5, <3>1 DEF IsStack
    <3>2. CASE i = Len(st) + 1
      BY <1>1, <1>2, <1>3, <1>5, <3>2
    <3> QED
      BY <1>6, <3>1, <3>2
  <2>2. ASSUME NEW i \in 1..Len(new), NEW j \in 1..Len(new),
               Identity(tree, new[i].dir) = Identity(tree, new[j].dir)
        PROVE  i = j
    BY <1>3, <1>5, <1>6, <2>2 DEF IsStack
  <2> QED
    BY <1>5, <2>1, <2>2 DEF IsStack
<1>9. FrameDirs(new) = FrameDirs(st) \cup {frame.dir}
  BY <1>3, <1>5, <1>6, <1>7 DEF FrameDirs
<1>10. ASSUME NEW x, NEW e
       PROVE  <<x, e>> \in Pending(tree, new) <=>
                <<x, e>> \in Pending(tree, st) \/ (x = d /\ e \in L)
  <2>1. ASSUME <<x, e>> \in Pending(tree, new)
        PROVE  <<x, e>> \in Pending(tree, st) \/ (x = d /\ e \in L)
    <3>1. PICK i \in 1..Len(new) : \E j \in 1..Len(new[i].left) :
            x = Identity(tree, new[i].dir) /\ e = new[i].left[j]
      BY <2>1, PendingIs
    <3>2. CASE i \in 1..Len(st)
      BY <1>5, <3>1, <3>2, PendingIs
    <3>3. CASE i = Len(st) + 1
      BY <1>2, <1>3, <1>5, <3>1, <3>3
    <3> QED
      BY <1>6, <3>2, <3>3
  <2>2. ASSUME <<x, e>> \in Pending(tree, st)
        PROVE  <<x, e>> \in Pending(tree, new)
    <3>1. PICK i \in 1..Len(st) : \E j \in 1..Len(st[i].left) :
            x = Identity(tree, st[i].dir) /\ e = st[i].left[j]
      BY <2>2, PendingIs
    <3>2. i \in 1..Len(new) /\ new[i] = st[i]
      BY <1>5, <1>7
    <3> QED
      BY <3>1, <3>2, PendingIs
  <2>3. ASSUME x = d, e \in L
        PROVE  <<x, e>> \in Pending(tree, new)
    <3>1. PICK j \in 1..Len(order) : order[j] = e
      BY <1>1, <2>3
    <3>2. Len(st) + 1 \in 1..Len(new) /\ j \in 1..Len(new[Len(st) + 1].left)
          /\ x = Identity(tree, new[Len(st) + 1].dir) /\ e = new[Len(st) + 1].left[j]
      BY <1>3, <1>5, <1>7, <2>3, <3>1
    <3> QED
      BY <3>2, PendingIs
  <2> QED
    BY <2>1, <2>2, <2>3
<1> QED
  BY <1>8, <1>9, <1>10

FrameOf(p, L) == [dir |-> p, left |-> InOrder(L)]
Pushed(st, p, L) == Append(st, FrameOf(p, L))

LEMMA PushStack ==
  ASSUME NEW tree, IsTree(tree), NEW st, IsStack(tree, st), NEW p \in Paths, Identity(tree, p) \in Nodes,
         \A i \in 1..Len(st) : Identity(tree, st[i].dir) # Identity(tree, p)
  PROVE  LET L == Listing(tree, Identity(tree, p))
             new == Pushed(st, p, L)
         IN /\ IsStack(tree, new)
            /\ FrameDirs(new) = FrameDirs(st) \cup {p}
            /\ \A x, e : <<x, e>> \in Pending(tree, new) <=>
                        <<x, e>> \in Pending(tree, st) \/ (x = Identity(tree, p) /\ e \in L)
<1> DEFINE L == Listing(tree, Identity(tree, p))
           new == Pushed(st, p, L)
           frame == FrameOf(p, L)
<1>1. frame.dir = p /\ frame.left = InOrder(L) /\ IsOrderOf(frame.left, L)
  BY InOrderFacts DEF FrameOf
<1>2. frame \in Frame
  <2>1. L \subseteq [name : Names, kind : Kinds] /\ frame.left \in Seq(L)
    BY <1>1, ListingFacts DEF IsOrderOf
  <2>2. frame.left \in Seq([name : Names, kind : Kinds])
    BY <2>1, SeqMonotonic
  <2> QED
    BY <1>1, <2>2 DEF Frame, FrameOf
<1>3. new = Append(st, frame) /\ st \in Seq(Frame)
  BY DEF IsStack, Pushed
<1> HIDE DEF new, frame
<1>4. /\ new \in Seq(Frame) /\ Len(new) = Len(st) + 1
      /\ \A i \in 1..Len(st) : new[i] = st[i]
      /\ new[Len(st) + 1] = frame
  BY <1>2, <1>3, AppendProperties
<1> HIDE DEF L
<1>5. L = Listing(tree, Identity(tree, frame.dir))
  BY <1>1 DEF L
<1>6. /\ IsStack(tree, new)
      /\ FrameDirs(new) = FrameDirs(st) \cup {frame.dir}
      /\ \A x, e : <<x, e>> \in Pending(tree, new) <=>
                  <<x, e>> \in Pending(tree, st) \/ (x = Identity(tree, frame.dir) /\ e \in L)
  BY <1>1, <1>4, <1>5, OneMore
<1> QED
  BY <1>1, <1>6 DEF new, L

(* A stack with one entry less in its last frame. *)
IsOneLess(st, new, n, tail) ==
  /\ new \in Seq(Frame) /\ n \in Nat /\ n \in 1..Len(st) /\ Len(new) = Len(st)
  /\ \A i \in 1..Len(st) : i # n => new[i] = st[i]
  /\ new[n].dir = st[n].dir /\ new[n].left = tail /\ 1 \in 1..Len(st[n].left) /\ Len(st[n].left) \in Nat
  /\ Head(st[n].left) = st[n].left[1] /\ Len(tail) = Len(st[n].left) - 1
  /\ \A j \in 1..Len(tail) : tail[j] = st[n].left[j + 1]

LEMMA OneLess ==
  ASSUME NEW tree, NEW st, IsStack(tree, st), NEW new, NEW n, NEW tail, IsOneLess(st, new, n, tail)
  PROVE  /\ IsStack(tree, new)
         /\ FrameDirs(new) = FrameDirs(st) /\ st[n].dir \in FrameDirs(st)
         /\ Identity(tree, st[n].dir) \in Nodes
         /\ Head(st[n].left) \in Listing(tree, Identity(tree, st[n].dir))
         /\ <<Identity(tree, st[n].dir), Head(st[n].left)>> \in Pending(tree, st)
         /\ \A x, e : <<x, e>> \in Pending(tree, new) <=>
              /\ <<x, e>> \in Pending(tree, st)
              /\ <<x, e>> # <<Identity(tree, st[n].dir), Head(st[n].left)>>
<1> USE DEF IsOneLess
<1> PICK top : top = st[n]
  OBVIOUS
<1>5. /\ Identity(tree, top.dir) \in Nodes
      /\ \A j \in 1..Len(top.left) : top.left[j] \in Listing(tree, Identity(tree, top.dir))
      /\ \A j, k \in 1..Len(top.left) : top.left[j] = top.left[k] => j = k
  BY DEF IsStack
<1>6. \A i \in 1..Len(new) : Identity(tree, new[i].dir) = Identity(tree, st[i].dir)
  OBVIOUS
<1>7. \A j \in 1..Len(tail) : j + 1 \in 1..Len(top.left) /\ j + 1 # 1
  OBVIOUS
<1>8. IsStack(tree, new)
  <2>1. ASSUME NEW i \in 1..Len(new)
        PROVE  /\ Identity(tree, new[i].dir) \in Nodes
               /\ \A j \in 1..Len(new[i].left) : new[i].left[j] \in Listing(tree, Identity(tree, new[i].dir))
               /\ \A j, k \in 1..Len(new[i].left) : new[i].left[j] = new[i].left[k] => j = k
    <3>1. CASE i # n
      BY <3>1 DEF IsStack
    <3>2. CASE i = n
      <4>4. ASSUME NEW j \in 1..Len(tail), NEW k \in 1..Len(tail), tail[j] = tail[k]
            PROVE  j = k
        <5>1. j + 1 \in 1..Len(top.left) /\ k + 1 \in 1..Len(top.left)
          BY <1>7
        <5>2. tail[j] = top.left[j + 1] /\ tail[k] = top.left[k + 1]
          OBVIOUS
        <5>3. j + 1 = k + 1
          BY <1>5, <4>4, <5>1, <5>2, Zenon
        <5> QED
          BY <5>3
      <4>3. \A j \in 1..Len(new[i].left) : new[i].left[j] \in Listing(tree, Identity(tree, new[i].dir))
        BY <1>5, <1>7, <3>2
      <4>5. new[i].left = tail
        BY <3>2
      <4>6. \A j, k \in 1..Len(new[i].left) : new[i].left[j] = new[i].left[k] => j = k
        BY <4>4, <4>5, Zenon
      <4>7. Identity(tree, new[i].dir) \in Nodes
        BY <1>5, <3>2
      <4> QED
        BY <4>3, <4>6, <4>7, Zenon
    <3> QED
      BY <3>1, <3>2
  <2> QED
    BY <1>6, <2>1 DEF IsStack
<1>9. FrameDirs(new) = FrameDirs(st) /\ top.dir \in FrameDirs(st)
  BY DEF FrameDirs
<1>10. <<Identity(tree, top.dir), Head(top.left)>> \in Pending(tree, st)
  BY PendingIs
<1>11. ASSUME NEW x, NEW e
       PROVE  <<x, e>> \in Pending(tree, new) <=>
                /\ <<x, e>> \in Pending(tree, st)
                /\ <<x, e>> # <<Identity(tree, top.dir), Head(top.left)>>
  <2>1. ASSUME <<x, e>> \in Pending(tree, new)
        PROVE  /\ <<x, e>> \in Pending(tree, st)
               /\ <<x, e>> # <<Identity(tree, top.dir), Head(top.left)>>
    <3>0. PICK i \in 1..Len(new) : \E j \in 1..Len(new[i].left) :
            x = Identity(tree, new[i].dir) /\ e = new[i].left[j]
      BY <2>1, PendingIs
    <3>1. PICK j \in 1..Len(new[i].left) : x = Identity(tree, new[i].dir) /\ e = new[i].left[j]
      BY <3>0
    <3>2. CASE i # n
      <4>1. i \in 1..Len(st) /\ j \in 1..Len(st[i].left) /\ x = Identity(tree, st[i].dir) /\ e = st[i].left[j]
        BY <3>1, <3>2
      <4>2. x # Identity(tree, top.dir)
        BY <3>2, <4>1 DEF IsStack
      <4> QED
        BY <4>1, <4>2, PendingIs
    <3>3. CASE i = n
      <4>1. e = top.left[j + 1] /\ j + 1 \in 1..Len(top.left) /\ x = Identity(tree, top.dir) /\ j + 1 # 1
        BY <1>7, <3>1, <3>3
      <4>2. e # Head(top.left)
        BY <1>5, <4>1
      <4> QED
        BY <4>1, <4>2, PendingIs
    <3> QED
      BY <3>2, <3>3
  <2>2. ASSUME <<x, e>> \in Pending(tree, st), <<x, e>> # <<Identity(tree, top.dir), Head(top.left)>>
        PROVE  <<x, e>> \in Pending(tree, new)
    <3>0. PICK i \in 1..Len(st) : \E j \in 1..Len(st[i].left) :
            x = Identity(tree, st[i].dir) /\ e = st[i].left[j]
      BY <2>2, PendingIs
    <3>1. PICK j \in 1..Len(st[i].left) : x = Identity(tree, st[i].dir) /\ e = st[i].left[j]
      BY <3>0
    <3>2. CASE i # n
      BY <3>1, <3>2, PendingIs
    <3>3. CASE i = n
      <4>1. j # 1
        BY <2>2, <3>1, <3>3
      <4>2. j - 1 \in 1..Len(tail) /\ j - 1 + 1 = j
        BY <3>1, <3>3, <4>1
      <4>3. e = new[n].left[j - 1] /\ x = Identity(tree, new[n].dir) /\ n \in 1..Len(new)
            /\ j - 1 \in 1..Len(new[n].left)
        BY <3>1, <3>3, <4>2
      <4> QED
        BY <4>3, PendingIs
    <3> QED
      BY <3>2, <3>3
  <2> QED
    BY <2>1, <2>2
<1>12. Head(top.left) \in Listing(tree, Identity(tree, top.dir))
  BY <1>5
<1> QED
  BY <1>5, <1>8, <1>9, <1>10, <1>11, <1>12

Popped(st) == [st EXCEPT ![Len(st)].left = Tail(@)]

LEMMA PopEntry ==
  ASSUME NEW tree, NEW st, IsStack(tree, st), st # <<>>, Last(st).left # <<>>
  PROVE  LET top == Last(st)
             new == Popped(st)
         IN /\ IsStack(tree, new)
            /\ FrameDirs(new) = FrameDirs(st) /\ top.dir \in FrameDirs(st) /\ top.dir \in Paths
            /\ Identity(tree, top.dir) \in Nodes
            /\ Head(top.left) \in Listing(tree, Identity(tree, top.dir))
            /\ <<Identity(tree, top.dir), Head(top.left)>> \in Pending(tree, st)
            /\ \A x, e : <<x, e>> \in Pending(tree, new) <=>
                 /\ <<x, e>> \in Pending(tree, st)
                 /\ <<x, e>> # <<Identity(tree, top.dir), Head(top.left)>>
<1> DEFINE n == Len(st)
           top == Last(st)
           new == Popped(st)
<1>1. st \in Seq(Frame) /\ n \in Nat /\ n \in 1..Len(st) /\ top = st[n] /\ n # 0
  BY LenProperties, EmptySeq DEF IsStack, Last
<1>2. /\ st[n] \in Frame /\ top.dir \in Paths /\ top.left \in Seq([name : Names, kind : Kinds])
      /\ Len(top.left) \in Nat
  BY <1>1, FrameIs
<1>3. /\ Head(top.left) = top.left[1] /\ 1 \in 1..Len(top.left)
      /\ Tail(top.left) \in Seq([name : Names, kind : Kinds]) /\ Len(Tail(top.left)) = Len(top.left) - 1
      /\ \A j \in 1..Len(Tail(top.left)) : Tail(top.left)[j] = top.left[j + 1]
  BY <1>2, HeadTailProperties, EmptySeq
<1>4. /\ new \in Seq(Frame) /\ Len(new) = Len(st)
      /\ \A i \in 1..Len(st) : i # n => new[i] = st[i]
      /\ new[n].dir = top.dir /\ new[n].left = Tail(top.left)
  <2>1. new = [st EXCEPT ![n] = [top EXCEPT !.left = Tail(top.left)]]
    BY <1>1 DEF Popped
  <2>2. [top EXCEPT !.left = Tail(top.left)] \in Frame
    BY <1>1, <1>2, <1>3 DEF Frame
  <2>3. [top EXCEPT !.left = Tail(top.left)].dir = top.dir
        /\ [top EXCEPT !.left = Tail(top.left)].left = Tail(top.left)
    BY <1>1, <1>2 DEF Frame
  <2> QED
    BY <1>1, <2>1, <2>2, <2>3, ExceptSeq
<1>5. top = st[n] /\ Len(top.left) \in Nat /\ top.dir \in Paths
  BY <1>1, <1>2
<1>6. Len(new) = Len(st) /\ n \in 1..Len(st) /\ n \in Nat /\ new \in Seq(Frame)
      /\ \A i \in 1..Len(st) : i # n => new[i] = st[i]
  BY <1>1, <1>4
<1>a. /\ new[n].dir = st[n].dir /\ new[n].left = Tail(st[n].left) /\ 1 \in 1..Len(st[n].left)
      /\ Len(st[n].left) \in Nat
      /\ Head(st[n].left) = st[n].left[1] /\ Len(Tail(st[n].left)) = Len(st[n].left) - 1
      /\ \A j \in 1..Len(Tail(st[n].left)) : Tail(st[n].left)[j] = st[n].left[j + 1]
  BY <1>3, <1>4, <1>5
<1>b. top = st[n]
  BY <1>5
<1> HIDE DEF n, top, new
<1>7. /\ IsStack(tree, new)
      /\ FrameDirs(new) = FrameDirs(st) /\ st[n].dir \in FrameDirs(st)
      /\ Identity(tree, st[n].dir) \in Nodes
      /\ Head(st[n].left) \in Listing(tree, Identity(tree, st[n].dir))
      /\ <<Identity(tree, st[n].dir), Head(st[n].left)>> \in Pending(tree, st)
      /\ \A x, e : <<x, e>> \in Pending(tree, new) <=>
           /\ <<x, e>> \in Pending(tree, st)
           /\ <<x, e>> # <<Identity(tree, st[n].dir), Head(st[n].left)>>
  <2>1. IsOneLess(st, new, n, Tail(st[n].left))
    BY <1>6, <1>a DEF IsOneLess
  <2> QED
    BY <2>1, OneLess
<1>8. /\ IsStack(tree, new)
      /\ FrameDirs(new) = FrameDirs(st) /\ top.dir \in FrameDirs(st) /\ top.dir \in Paths
      /\ Identity(tree, top.dir) \in Nodes
      /\ Head(top.left) \in Listing(tree, Identity(tree, top.dir))
      /\ <<Identity(tree, top.dir), Head(top.left)>> \in Pending(tree, st)
      /\ \A x, e : <<x, e>> \in Pending(tree, new) <=>
           /\ <<x, e>> \in Pending(tree, st)
           /\ <<x, e>> # <<Identity(tree, top.dir), Head(top.left)>>
  BY <1>5, <1>7, <1>b, Zenon
<1> QED
  BY <1>8 DEF top, new

LEMMA LeaveStack ==
  ASSUME NEW tree, NEW st, IsStack(tree, st), st # <<>>, Last(st).left = <<>>
  PROVE  /\ IsStack(tree, Front(st))
         /\ FrameDirs(Front(st)) \subseteq FrameDirs(st)
         /\ \A x, e : <<x, e>> \in Pending(tree, Front(st)) <=> <<x, e>> \in Pending(tree, st)
<1> DEFINE new == Front(st)
<1>1. st \in Seq(Frame) /\ Len(st) \in Nat /\ Len(st) # 0
  BY LenProperties, EmptySeq DEF IsStack
<1>2. /\ new \in Seq(Frame) /\ Len(new) = Len(st) - 1
      /\ \A i \in 1..Len(new) : new[i] = st[i]
  <2> PICK n : n = Len(st) - 1
    OBVIOUS
  <2>1. n \in Nat /\ \A i \in 1..n : i \in 1..Len(st)
    BY <1>1
  <2>2. new = [i \in 1..n |-> st[i]]
    BY <1>1 DEF Front
  <2>3. \A i \in 1..n : st[i] \in Frame
    BY <1>1, <2>1, ElementOfSeq
  <2> HIDE DEF new
  <2>4. new \in [1..n -> Frame] /\ \A i \in 1..n : new[i] = st[i]
    BY <2>2, <2>3
  <2>5. new \in Seq(Frame) /\ Len(new) = n
    BY <2>1, <2>4
  <2> QED
    BY <2>4, <2>5
<1>3. 1..Len(new) \subseteq 1..Len(st) /\ \A i \in 1..Len(st) : i \in 1..Len(new) \/ i = Len(st)
  BY <1>1, <1>2
<1>4. 1..Len(st[Len(st)].left) = {}
  BY DEF Last
<1> HIDE DEF new
<1>5. IsStack(tree, new)
  BY <1>2, <1>3 DEF IsStack
<1>6. FrameDirs(new) \subseteq FrameDirs(st)
  BY <1>2, <1>3 DEF FrameDirs
<1>7. ASSUME NEW x, NEW e, <<x, e>> \in Pending(tree, new)
      PROVE  <<x, e>> \in Pending(tree, st)
  <2>1. PICK i \in 1..Len(new) : \E j \in 1..Len(new[i].left) :
          x = Identity(tree, new[i].dir) /\ e = new[i].left[j]
    BY <1>7, PendingIs
  <2>2. i \in 1..Len(st) /\ new[i] = st[i]
    BY <1>2, <1>3
  <2> QED
    BY <2>1, <2>2, PendingIs
<1>8. ASSUME NEW x, NEW e, <<x, e>> \in Pending(tree, st)
      PROVE  <<x, e>> \in Pending(tree, new)
  <2>1. PICK i \in 1..Len(st) : \E j \in 1..Len(st[i].left) :
          x = Identity(tree, st[i].dir) /\ e = st[i].left[j]
    BY <1>8, PendingIs
  <2>2. i \in 1..Len(new) /\ new[i] = st[i]
    BY <1>2, <1>3, <1>4, <2>1
  <2> QED
    BY <2>1, <2>2, PendingIs
<1> QED
  BY <1>5, <1>6, <1>7, <1>8 DEF new

-----------------------------------------------------------------------------
(* The invariant holds at the start, and every step keeps it. *)
LEMMA Typed ==
  ASSUME TypeInv
  PROVE  /\ IsTree(fs) /\ search.root \in Paths /\ search.excluded \in Paths
         /\ \A p \in Paths : Identity(fs, p) \in Nodes \cup {None}
         /\ None \notin Nodes /\ None \notin Paths
<1>1. IsTree(fs) /\ search.root \in Paths /\ search.excluded \in Paths
  BY WalkAssumption DEF TypeInv
<1>2. \A p \in Paths : Identity(fs, p) \in Nodes \cup {None}
  BY <1>1, IdentityIsRun
<1> QED
  BY <1>1, <1>2, HostTreeAssumption

LEMMA SameTree ==
  ASSUME fs' = fs, search' = search
  PROVE  /\ Excluded' = Excluded /\ RealDirs' = RealDirs
         /\ Identity(fs, search.root)' = Identity(fs, search.root)
         /\ \A p : /\ Place(p)' = Place(p)
                  /\ (RealAt(p)' <=> RealAt(p))
                  /\ (IsReal(p)' <=> IsReal(p))
<1>1. Excluded' = Excluded /\ Identity(fs, search.root)' = Identity(fs, search.root)
  BY DEF Excluded
<1>2. RealDirs' = RealDirs
  BY DEF RealDirs
<1>3. \A p : /\ Place(p)' = Place(p)
             /\ (RealAt(p)' <=> RealAt(p))
             /\ (IsReal(p)' <=> IsReal(p))
  BY DEF Place, RealAt, IsReal
<1> QED
  BY <1>1, <1>2, <1>3

LEMMA ToSetOfAppend ==
  ASSUME NEW S, NEW s \in Seq(S), NEW x \in S
  PROVE  Append(s, x) \in Seq(S) /\ ToSet(Append(s, x)) = ToSet(s) \cup {x}
<1>1. /\ Append(s, x) \in Seq(S) /\ Len(Append(s, x)) = Len(s) + 1 /\ Len(s) \in Nat
      /\ \A i \in 1..Len(s) : Append(s, x)[i] = s[i]
      /\ Append(s, x)[Len(s) + 1] = x
      /\ DOMAIN s = 1..Len(s) /\ DOMAIN Append(s, x) = 1..Len(s) + 1
  BY AppendProperties, LenProperties
<1>2. 1..Len(s) + 1 = 1..Len(s) \cup {Len(s) + 1}
  BY <1>1
<1> QED
  BY <1>1, <1>2 DEF ToSet

LEMMA ToSetOfHead ==
  ASSUME NEW S, NEW s \in Seq(S), s # <<>>
  PROVE  Head(s) \in S /\ Tail(s) \in Seq(S) /\ ToSet(s) = {Head(s)} \cup ToSet(Tail(s))
<1>1. /\ Head(s) \in S /\ Tail(s) \in Seq(S) /\ Len(Tail(s)) = Len(s) - 1 /\ Len(s) \in Nat /\ Len(s) # 0
      /\ Head(s) = s[1] /\ \A i \in 1..Len(Tail(s)) : Tail(s)[i] = s[i + 1]
      /\ DOMAIN s = 1..Len(s) /\ DOMAIN Tail(s) = 1..Len(Tail(s))
  BY HeadTailProperties, LenProperties, EmptySeq
<1>2. \A i \in 1..Len(s) : i = 1 \/ (i - 1 \in 1..Len(Tail(s)) /\ s[i] = Tail(s)[i - 1])
  <2> TAKE i \in 1..Len(s)
  <2>1. i = 1 \/ (i - 1 \in 1..Len(Tail(s)) /\ i - 1 + 1 = i)
    BY <1>1
  <2> QED
    BY <1>1, <2>1
<1>3. 1 \in 1..Len(s) /\ \A i \in 1..Len(Tail(s)) : i + 1 \in 1..Len(s)
  BY <1>1
<1>4. \A x : x \in ToSet(s) <=> \E i \in 1..Len(s) : s[i] = x
  BY <1>1 DEF ToSet
<1>5. \A x : x \in ToSet(Tail(s)) <=> \E i \in 1..Len(Tail(s)) : Tail(s)[i] = x
  BY <1>1 DEF ToSet
<1>6. ASSUME NEW x
      PROVE  x \in ToSet(s) <=> x = Head(s) \/ x \in ToSet(Tail(s))
  <2>1. ASSUME x \in ToSet(s)
        PROVE  x = Head(s) \/ x \in ToSet(Tail(s))
    BY <1>1, <1>2, <1>4, <1>5, <2>1
  <2>2. ASSUME x = Head(s) \/ x \in ToSet(Tail(s))
        PROVE  x \in ToSet(s)
    BY <1>1, <1>3, <1>4, <1>5, <2>2
  <2> QED
    BY <2>1, <2>2
<1> QED
  BY <1>1, <1>6

(* A path that leads to an entry of a directory has the entry's identity.    *)
LEMMA LeadsToChild ==
  ASSUME NEW tree, IsTree(tree), NEW path \in Paths, NEW d, NEW n,
         LeadsTo(tree, path, d, n), Identity(tree, path) # None
  PROVE  d \in Nodes /\ Child(tree, d, n) = Identity(tree, path)
<1> DEFINE S == Names \cup {Up}
<1>1. path \in Seq(S) /\ path # <<>> /\ Len(path) \in Nat /\ Len(path) # 0
  BY LenProperties, EmptySeq DEF LeadsTo, Paths
<1>2. Front(path) \in Paths /\ n \in S /\ path = Append(Front(path), n)
  <2> PICK k : k = Len(path) - 1
    OBVIOUS
  <2>1. k \in Nat /\ Len(path) = k + 1 /\ k + 1 \in 1..Len(path) /\ \A i \in 1..k : i \in 1..Len(path)
    BY <1>1
  <2>2. Front(path) = [i \in 1..k |-> path[i]]
    BY <1>1, <2>1 DEF Front
  <2>3. n = path[k + 1] /\ n \in S /\ \A i \in 1..k : path[i] \in S
    BY <1>1, <2>1, ElementOfSeq DEF LeadsTo, Last
  <2>4. Front(path) \in Seq(S) /\ Len(Front(path)) = k /\ \A i \in 1..k : Front(path)[i] = path[i]
    BY <2>1, <2>2, <2>3
  <2>5. path = Append(Front(path), n)
    <3> PICK f : f = Front(path)
      OBVIOUS
    <3> HIDE DEF S
    <3>1. /\ Append(f, n) \in Seq(S) /\ Len(Append(f, n)) = k + 1
          /\ \A i \in 1..k : Append(f, n)[i] = f[i]
          /\ Append(f, n)[k + 1] = n
      BY <2>3, <2>4, AppendProperties
    <3>2. \A i \in 1..k + 1 : i \in 1..k \/ i = k + 1
      BY <2>1
    <3>3. \A i \in 1..Len(path) : path[i] = Append(f, n)[i]
      BY <2>1, <2>3, <2>4, <3>1, <3>2
    <3> QED
      BY <1>1, <2>1, <3>1, <3>3, SeqEqual
  <2> QED
    BY <2>3, <2>4, <2>5 DEF Paths
<1>3. Identity(tree, Front(path)) = d
  BY DEF LeadsTo
<1> QED
  BY <1>2, <1>3, IdentityOfEntry DEF Child

(* The entry the search looks at next. *)
TopDir == Identity(fs, Top.dir)

LEMMA EntryTaken ==
  ASSUME TypeInv, IsInDir, Top.left # <<>>
  PROVE  /\ IsStack(fs, WithoutEntry) /\ FrameDirs(WithoutEntry) = FrameDirs(stack)
         /\ Top.dir \in FrameDirs(stack) /\ Top.dir \in Paths /\ TopDir \in Nodes
         /\ Entry \in Listing(fs, TopDir) /\ Entry.name \in Names
         /\ <<TopDir, Entry>> \in Pending(fs, stack)
         /\ \A d, e : <<d, e>> \in Pending(fs, WithoutEntry) <=>
                        <<d, e>> \in Pending(fs, stack) /\ <<d, e>> # <<TopDir, Entry>>
         /\ EntryPath \in Paths /\ EntryPath # <<>> /\ EntryPath # None
         /\ EntryPath = Append(Top.dir, Entry.name)
         /\ LeadsTo(fs, EntryPath, TopDir, Entry.name) /\ Place(EntryPath) = <<TopDir, Entry.name>>
<1>1. IsTree(fs) /\ None \notin Paths
  BY Typed
<1>2. /\ IsStack(fs, stack) /\ stack # <<>> /\ Last(stack).left # <<>>
      /\ WithoutEntry = Popped(stack) /\ Top = Last(stack) /\ Entry = Head(Last(stack).left)
  BY DEF TypeInv, IsInDir, Top, Entry, WithoutEntry, Popped
<1>3. /\ IsStack(fs, WithoutEntry) /\ FrameDirs(WithoutEntry) = FrameDirs(stack)
      /\ Top.dir \in FrameDirs(stack) /\ Top.dir \in Paths /\ TopDir \in Nodes
      /\ Entry \in Listing(fs, TopDir)
      /\ <<TopDir, Entry>> \in Pending(fs, stack)
      /\ \A d, e : <<d, e>> \in Pending(fs, WithoutEntry) <=>
                     <<d, e>> \in Pending(fs, stack) /\ <<d, e>> # <<TopDir, Entry>>
  <2> PICK st : st = stack
    OBVIOUS
  <2>1. /\ IsStack(fs, Popped(st)) /\ FrameDirs(Popped(st)) = FrameDirs(st)
        /\ Last(st).dir \in FrameDirs(st) /\ Last(st).dir \in Paths
        /\ Identity(fs, Last(st).dir) \in Nodes
        /\ Head(Last(st).left) \in Listing(fs, Identity(fs, Last(st).dir))
        /\ <<Identity(fs, Last(st).dir), Head(Last(st).left)>> \in Pending(fs, st)
        /\ \A d, e : <<d, e>> \in Pending(fs, Popped(st)) <=>
             /\ <<d, e>> \in Pending(fs, st)
             /\ <<d, e>> # <<Identity(fs, Last(st).dir), Head(Last(st).left)>>
    BY <1>2, PopEntry
  <2>2. TopDir = Identity(fs, Last(st).dir)
    BY <1>2 DEF TopDir
  <2> QED
    BY <1>2, <2>1, <2>2, Zenon
<1>4. Entry.name \in Names
  BY <1>1, <1>3, ListingFacts
<1>5. EntryPath \in Paths /\ EntryPath # <<>> /\ Front(EntryPath) = Top.dir /\ Last(EntryPath) = Entry.name
  BY <1>3, <1>4, AppendIsPath DEF EntryPath
<1> QED
  BY <1>1, <1>3, <1>4, <1>5 DEF LeadsTo, Place, TopDir, EntryPath

(* What an entry's kind says of the node it leads to. *)
LEMMA KindOfEntry ==
  ASSUME NEW tree, IsTree(tree), NEW d \in Nodes, tree[d].kind = "dir", NEW n \in Names, Has(tree, d, n)
  PROVE  /\ EntryKind(tree, d, n) = "dir" =>
              /\ tree[tree[d].entries[n]].kind = "dir"
              /\ Child(tree, d, n) = tree[d].entries[n]
         /\ tree[tree[d].entries[n]].kind = "dir" =>
              /\ EntryKind(tree, d, n) = "dir"
              /\ Child(tree, d, n) = tree[d].entries[n]
<1> DEFINE c == tree[d].entries[n]
           r == Resolve(tree, d, <<n>>, TRUE)
<1>1. c \in Nodes /\ tree[c].kind \in {"file", "link", "dir"}
  BY HostTreeAssumption DEF IsTree, Has
<1>2. tree[c].kind # "link" => r.error = None /\ r.at = c
  <2>1. <<>> \in Paths
    BY DEF Paths
  <2> QED
    BY <2>1, EntryIsReal
<1>3. None \notin {"ENOENT", "ENOTDIR", "ELOOP"}
  BY HostTreeAssumption
<1>4. ASSUME EntryKind(tree, d, n) = "dir"
      PROVE  tree[c].kind # "link" /\ tree[r.at].kind # "file"
  BY <1>4 DEF EntryKind
<1>5. ASSUME tree[c].kind = "dir"
      PROVE  EntryKind(tree, d, n) = "dir"
  BY <1>2, <1>3, <1>5 DEF EntryKind
<1> QED
  BY <1>1, <1>2, <1>4, <1>5 DEF Child

(* The parts of a path one name longer that need no symlink. *)
LEMMA LongerIsReal ==
  ASSUME NEW p \in Paths, NEW n \in Names, search.root \in Paths, RealAt(p)
  PROVE  /\ IsReal(Append(p, n))
         /\ fs[Lstat(fs, Append(p, n)).at].kind = "dir" => RealAt(Append(p, n))
<1> PICK q : q = Append(p, n)
  OBVIOUS
<1>1. Len(q) = Len(p) + 1 /\ Len(p) \in Nat /\ Len(search.root) \in Nat /\ q \in Paths
  <2>1. n \in Names \cup {Up}
    OBVIOUS
  <2> QED
    BY <2>1, AppendIsPath, AppendProperties, LenProperties DEF Paths
<1>2. \A k \in Len(search.root) + 1 .. Len(p) : SubSeq(q, 1, k) = SubSeq(p, 1, k)
  <2> TAKE k \in Len(search.root) + 1 .. Len(p)
  <2>1. k \in Nat /\ \A i \in 1..k : i \in 1..Len(p)
    BY <1>1
  <2>2. \A i \in 1..Len(p) : q[i] = p[i]
    BY AppendProperties DEF Paths
  <2>3. SubSeq(q, 1, k) = [i \in 1..k |-> q[i]] /\ SubSeq(p, 1, k) = [i \in 1..k |-> p[i]]
    BY <2>1
  <2> QED
    BY <2>1, <2>2, <2>3
<1>3. SubSeq(q, 1, Len(q)) = q
  BY <1>1 DEF Paths
<1>4. \A k \in Len(search.root) + 1 .. Len(q) : k \in Len(search.root) + 1 .. Len(p) \/ k = Len(q)
  BY <1>1
<1>5. Len(q) - 1 = Len(p)
  BY <1>1
<1>6. \A k \in Len(search.root) + 1 .. Len(p) : fs[Lstat(fs, SubSeq(q, 1, k)).at].kind = "dir"
  BY <1>2 DEF RealAt
<1>7. IsReal(q)
  BY <1>5, <1>6 DEF IsReal
<1>8. fs[Lstat(fs, q).at].kind = "dir" => RealAt(q)
  BY <1>3, <1>4, <1>6 DEF RealAt
<1> QED
  BY <1>7, <1>8

LEMMA InitInv ==
  ASSUME Init
  PROVE  IInv
<1>1. IsTree(fs) /\ search.root \in Paths /\ search.excluded \in Paths /\ None \notin Nodes
  BY WalkAssumption, HostTreeAssumption DEF Init
<1>2. Excluded \in Nodes \cup {None} /\ visited = {Excluded} \ {None}
  BY <1>1, IdentityIsRun DEF Init, Excluded
<1>3. /\ Entered = {} /\ Pending(fs, stack) = {} /\ FrameDirs(stack) = {}
      /\ ToSet(links) = {} /\ ToSet(paths) = {} /\ next = search.root /\ DOMAIN paths = {}
  BY <1>2 DEF Init, Entered, Pending, FrameDirs, ToSet
<1>4. TypeInv
  <2>1. IsStack(fs, stack)
    BY DEF Init, IsStack
  <2> QED
    BY <1>1, <1>2, <2>1 DEF TypeInv, Init
<1>5. DoneInv
  BY <1>2, <1>3 DEF DoneInv, Init
<1>6. ListInv
  BY <1>3 DEF ListInv, ListsEachFileOnce
<1>7. FoundInv
  BY <1>3 DEF FoundInv, Awaited
<1>8. RealAt(search.root)
  <2>1. Len(search.root) \in Nat
    BY <1>1, LenProperties DEF Paths
  <2>2. \A k : ~(k \in Len(search.root) + 1 .. Len(search.root))
    BY <2>1
  <2> QED
    BY <2>2 DEF RealAt
<1>9. RealInv
  BY <1>3, <1>8 DEF RealInv, PrefersRealPaths
<1> QED
  BY <1>4, <1>5, <1>6, <1>7, <1>9 DEF IInv

(* A walk that fails where it is, or is over, changes nothing else.          *)
LEMMA StandsStill ==
  ASSUME IInv, UNCHANGED <<fs, search, next, stack, visited, links, paths>>,
         pc' = pc \/ pc' = "failed"
  PROVE  IInv'
<1>1. /\ Excluded' = Excluded /\ RealDirs' = RealDirs /\ Entered' = Entered /\ Awaited' = Awaited
      /\ Identity(fs, search.root)' = Identity(fs, search.root)
      /\ \A p : /\ Place(p)' = Place(p)
               /\ (RealAt(p)' <=> RealAt(p))
               /\ (IsReal(p)' <=> IsReal(p))
  BY SameTree DEF Entered, Awaited
<1>2. TypeInv'
  BY DEF IInv, TypeInv
<1>3. DoneInv'
  BY <1>1 DEF IInv, DoneInv, IsDealtWith
<1>4. ListInv'
  BY <1>1 DEF IInv, ListInv, ListsEachFileOnce
<1>5. FoundInv'
  BY <1>1 DEF IInv, FoundInv
<1>6. RealInv'
  BY <1>1 DEF IInv, RealInv, PrefersRealPaths
<1> QED
  BY <1>2, <1>3, <1>4, <1>5, <1>6 DEF IInv

LEMMA LeaveDirInv ==
  ASSUME IInv, LeaveDir
  PROVE  IInv'
<1>0. TypeInv /\ fs' = fs /\ search' = search /\ pc' = pc /\ next' = next /\ visited' = visited
      /\ links' = links /\ paths' = paths /\ stack' = Front(stack) /\ pc = "walk"
  BY DEF IInv, LeaveDir, IsInDir
<1>1. /\ Excluded' = Excluded /\ RealDirs' = RealDirs /\ Entered' = Entered /\ Awaited' = Awaited
      /\ Identity(fs, search.root)' = Identity(fs, search.root)
      /\ \A p : /\ Place(p)' = Place(p)
               /\ (RealAt(p)' <=> RealAt(p))
               /\ (IsReal(p)' <=> IsReal(p))
  BY <1>0, SameTree DEF Entered, Awaited
<1>2. /\ IsStack(fs, stack') /\ FrameDirs(stack') \subseteq FrameDirs(stack)
      /\ \A d, e : <<d, e>> \in Pending(fs, stack') <=> <<d, e>> \in Pending(fs, stack)
  <2>1. IsStack(fs, stack) /\ stack # <<>> /\ Last(stack).left = <<>>
    BY <1>0 DEF TypeInv, LeaveDir, IsInDir, Top
  <2> QED
    BY <1>0, <2>1, LeaveStack
<1>3. TypeInv'
  BY <1>0, <1>2 DEF TypeInv
<1>4. DoneInv'
  <2>1. \A d, e : IsDealtWith(d, e) => IsDealtWith(d, e)'
    BY <1>0, <1>1, <1>2 DEF IsDealtWith
  <2> QED
    BY <1>0, <1>1, <1>2, <2>1 DEF IInv, DoneInv
<1>5. ListInv'
  BY <1>0, <1>1, <1>2 DEF IInv, ListInv, ListsEachFileOnce
<1>6. FoundInv'
  BY <1>0, <1>1 DEF IInv, FoundInv
<1>7. RealInv'
  BY <1>0, <1>1, <1>2 DEF IInv, RealInv, PrefersRealPaths
<1> QED
  BY <1>3, <1>4, <1>5, <1>6, <1>7 DEF IInv

LEMMA DeferLinkInv ==
  ASSUME IInv, DeferLink
  PROVE  IInv'
<1>0. /\ TypeInv /\ IsInDir /\ Top.left # <<>> /\ Entry.kind = "dirlink" /\ next = None
      /\ fs' = fs /\ search' = search /\ pc' = pc /\ next' = next /\ visited' = visited
      /\ links' = Append(links, EntryPath) /\ paths' = paths /\ stack' = WithoutEntry /\ pc = "walk"
  BY DEF IInv, DeferLink, IsInDir
<1>1. /\ Excluded' = Excluded /\ RealDirs' = RealDirs /\ Entered' = Entered
      /\ Identity(fs, search.root)' = Identity(fs, search.root)
      /\ \A p : /\ Place(p)' = Place(p)
               /\ (RealAt(p)' <=> RealAt(p))
               /\ (IsReal(p)' <=> IsReal(p))
  BY <1>0, SameTree DEF Entered
<1>2. /\ IsStack(fs, stack') /\ FrameDirs(stack') = FrameDirs(stack)
      /\ Top.dir \in FrameDirs(stack) /\ Entry \in Listing(fs, TopDir)
      /\ \A d, e : <<d, e>> \in Pending(fs, stack') <=>
                     <<d, e>> \in Pending(fs, stack) /\ <<d, e>> # <<TopDir, Entry>>
      /\ EntryPath \in Paths /\ EntryPath # <<>> /\ EntryPath # None
      /\ LeadsTo(fs, EntryPath, TopDir, Entry.name)
  BY <1>0, EntryTaken
<1>3. /\ links' \in Seq(Paths) /\ ToSet(links') = ToSet(links) \cup {EntryPath}
      /\ Awaited' = Awaited \cup {EntryPath}
  <2>1. links' \in Seq(Paths) /\ ToSet(links') = ToSet(links) \cup {EntryPath}
    BY <1>0, <1>2, ToSetOfAppend DEF TypeInv
  <2> QED
    BY <1>0, <1>2, <2>1 DEF Awaited
<1>4. TypeInv'
  BY <1>0, <1>2, <1>3 DEF TypeInv
<1>5. DoneInv'
  <2>1. ASSUME NEW d, NEW e, IsDealtWith(d, e)
        PROVE  IsDealtWith(d, e)'
    <3>1. CASE <<d, e>> = <<TopDir, Entry>>
      BY <1>0, <1>2, <1>3, <3>1 DEF IsDealtWith
    <3>2. CASE <<d, e>> # <<TopDir, Entry>>
      BY <1>0, <1>1, <1>2, <1>3, <2>1, <3>2 DEF IsDealtWith
    <3> QED
      BY <3>1, <3>2
  <2> QED
    BY <1>0, <1>1, <1>2, <2>1 DEF IInv, DoneInv
<1>6. ListInv'
  BY <1>0, <1>1, <1>2 DEF IInv, ListInv, ListsEachFileOnce
<1>7. FoundInv'
  <2>1. TopDir \in Entered
    BY <1>2 DEF IInv, DoneInv, TopDir
  <2> QED
    BY <1>0, <1>1, <1>2, <1>3, <2>1 DEF IInv, FoundInv
<1>8. RealInv'
  BY <1>0, <1>1, <1>2 DEF IInv, RealInv, PrefersRealPaths
<1> QED
  BY <1>4, <1>5, <1>6, <1>7, <1>8 DEF IInv

LEMMA EnterDirInv ==
  ASSUME IInv, EnterDir
  PROVE  IInv'
<1>0. /\ TypeInv /\ IsInDir /\ Top.left # <<>> /\ Entry.kind = "dir" /\ next = None
      /\ fs' = fs /\ search' = search /\ pc' = pc /\ next' = EntryPath /\ visited' = visited
      /\ links' = links /\ paths' = paths /\ stack' = WithoutEntry /\ pc = "walk"
  BY DEF IInv, EnterDir, IsInDir
<1>1. /\ Excluded' = Excluded /\ RealDirs' = RealDirs /\ Entered' = Entered
      /\ Identity(fs, search.root)' = Identity(fs, search.root)
      /\ \A p : /\ Place(p)' = Place(p)
               /\ (RealAt(p)' <=> RealAt(p))
               /\ (IsReal(p)' <=> IsReal(p))
  BY <1>0, SameTree DEF Entered
<1>2. /\ IsStack(fs, stack') /\ FrameDirs(stack') = FrameDirs(stack)
      /\ Top.dir \in FrameDirs(stack) /\ Entry \in Listing(fs, TopDir) /\ Top.dir \in Paths
      /\ TopDir \in Nodes /\ Entry.name \in Names
      /\ \A d, e : <<d, e>> \in Pending(fs, stack') <=>
                     <<d, e>> \in Pending(fs, stack) /\ <<d, e>> # <<TopDir, Entry>>
      /\ EntryPath \in Paths /\ EntryPath # <<>> /\ EntryPath # None
      /\ EntryPath = Append(Top.dir, Entry.name)
      /\ LeadsTo(fs, EntryPath, TopDir, Entry.name)
  BY <1>0, EntryTaken
<1>3. Awaited' = Awaited \cup {EntryPath}
  BY <1>0, <1>2 DEF Awaited
<1>4. TypeInv'
  BY <1>0, <1>2 DEF TypeInv
<1>a. IsTree(fs) /\ search.root \in Paths /\ TopDir \in Entered /\ fs[TopDir].kind = "dir"
  BY <1>0, <1>2, Typed DEF IInv, DoneInv, TopDir
<1>5. DoneInv'
  <2>1. ASSUME NEW d, NEW e, IsDealtWith(d, e)
        PROVE  IsDealtWith(d, e)'
    <3>1. CASE <<d, e>> = <<TopDir, Entry>>
      BY <1>0, <1>2, <3>1 DEF IsDealtWith
    <3>2. CASE <<d, e>> # <<TopDir, Entry>>
      BY <1>0, <1>1, <1>2, <1>3, <2>1, <3>2 DEF IsDealtWith
    <3> QED
      BY <3>1, <3>2
  <2>2. Identity(fs, search.root) \in visited
    <3>1. None # search.root
      BY <1>a, HostTreeAssumption
    <3> QED
      BY <1>0, <3>1 DEF IInv, DoneInv
  <2> QED
    BY <1>0, <1>1, <1>2, <2>1, <2>2 DEF IInv, DoneInv
<1>6. ListInv'
  BY <1>0, <1>1, <1>2 DEF IInv, ListInv, ListsEachFileOnce
<1>7. FoundInv'
  BY <1>0, <1>1, <1>2, <1>3, <1>a DEF IInv, FoundInv
<1>8. RealInv'
  <2>1. ASSUME RealAt(Top.dir)
        PROVE  RealAt(EntryPath)
    <3>1. Has(fs, TopDir, Entry.name) /\ EntryKind(fs, TopDir, Entry.name) = "dir"
      BY <1>0, <1>2, <1>a, ListingFacts
    <3>2. fs[fs[TopDir].entries[Entry.name]].kind = "dir"
      BY <1>2, <1>a, <3>1, KindOfEntry
    <3>3. Lstat(fs, EntryPath).at = fs[TopDir].entries[Entry.name]
      <4> PICK n : n = Entry.name
        OBVIOUS
      <4> PICK path : path = Top.dir
        OBVIOUS
      <4>1. /\ n \in Names /\ path \in Paths /\ Identity(fs, path) = TopDir /\ Identity(fs, path) \in Nodes
            /\ fs[Identity(fs, path)].kind = "dir" /\ Has(fs, Identity(fs, path), n)
            /\ fs[fs[Identity(fs, path)].entries[n]].kind # "link"
        BY <1>2, <1>a, <3>1, <3>2 DEF TopDir
      <4>2. Lstat(fs, Append(path, n)).at = fs[Identity(fs, path)].entries[n]
        BY <1>a, <4>1, LstatOfEntry, Zenon
      <4> QED
        BY <1>2, <4>1, <4>2
    <3> QED
      BY <1>2, <1>a, <2>1, <3>2, <3>3, LongerIsReal
  <2> QED
    BY <1>0, <1>1, <1>2, <2>1 DEF IInv, RealInv, PrefersRealPaths
<1> QED
  BY <1>4, <1>5, <1>6, <1>7, <1>8 DEF IInv

LEMMA ListFileInv ==
  ASSUME IInv, ListFile
  PROVE  IInv'
<1>0. /\ TypeInv /\ IsInDir /\ Top.left # <<>> /\ Entry.kind = "file" /\ next = None
      /\ fs' = fs /\ search' = search /\ pc' = pc /\ next' = next /\ visited' = visited
      /\ links' = links /\ paths' = Append(paths, EntryPath) /\ stack' = WithoutEntry /\ pc = "walk"
  BY DEF IInv, ListFile, IsInDir
<1>1. /\ Excluded' = Excluded /\ RealDirs' = RealDirs /\ Entered' = Entered /\ Awaited' = Awaited
      /\ Identity(fs, search.root)' = Identity(fs, search.root)
      /\ \A p : /\ Place(p)' = Place(p)
               /\ (RealAt(p)' <=> RealAt(p))
               /\ (IsReal(p)' <=> IsReal(p))
  BY <1>0, SameTree DEF Entered, Awaited
<1>2. /\ IsStack(fs, stack') /\ FrameDirs(stack') = FrameDirs(stack)
      /\ Top.dir \in FrameDirs(stack) /\ Entry \in Listing(fs, TopDir) /\ Top.dir \in Paths
      /\ TopDir \in Nodes /\ Entry.name \in Names /\ <<TopDir, Entry>> \in Pending(fs, stack)
      /\ \A d, e : <<d, e>> \in Pending(fs, stack') <=>
                     <<d, e>> \in Pending(fs, stack) /\ <<d, e>> # <<TopDir, Entry>>
      /\ EntryPath \in Paths /\ EntryPath # <<>>
      /\ EntryPath = Append(Top.dir, Entry.name)
      /\ Place(EntryPath) = <<TopDir, Entry.name>>
  BY <1>0, EntryTaken
<1>3. paths' \in Seq(Paths) /\ ToSet(paths') = ToSet(paths) \cup {EntryPath}
  <2> PICK list : list = paths
    OBVIOUS
  <2> PICK path : path = EntryPath
    OBVIOUS
  <2>1. list \in Seq(Paths) /\ path \in Paths
    BY <1>0, <1>2 DEF TypeInv
  <2>2. Append(list, path) \in Seq(Paths) /\ ToSet(Append(list, path)) = ToSet(list) \cup {path}
    BY <2>1, ToSetOfAppend
  <2> QED
    BY <1>0, <2>2
<1>a. IsTree(fs) /\ search.root \in Paths /\ TopDir \in Entered
  BY <1>0, <1>2, Typed DEF IInv, DoneInv, TopDir
<1>b. Entry = [name |-> Entry.name, kind |-> "file"]
  BY <1>0, <1>2, <1>a, ListingFacts
<1>4. TypeInv'
  BY <1>0, <1>2, <1>3 DEF TypeInv
<1>5. DoneInv'
  <2>1. ASSUME NEW d, NEW e, IsDealtWith(d, e)
        PROVE  IsDealtWith(d, e)'
    <3>1. CASE <<d, e>> = <<TopDir, Entry>>
      BY <1>0, <1>1, <1>2, <1>3, <3>1 DEF IsDealtWith
    <3>2. CASE <<d, e>> # <<TopDir, Entry>>
      BY <1>0, <1>1, <1>2, <1>3, <2>1, <3>2 DEF IsDealtWith
    <3> QED
      BY <3>1, <3>2
  <2> QED
    BY <1>0, <1>1, <1>2, <2>1 DEF IInv, DoneInv
<1>6. ListInv'
  <2>1. ASSUME NEW i \in DOMAIN paths
        PROVE  Place(paths[i]) # Place(EntryPath)
    <3> SUFFICES ASSUME Place(paths[i]) = Place(EntryPath)
                 PROVE  FALSE
      OBVIOUS
    <3>1. paths[i] \in ToSet(paths)
      BY DEF ToSet
    <3>2. PICK d \in Entered, n \in Names :
            /\ Place(paths[i]) = <<d, n>>
            /\ <<d, [name |-> n, kind |-> "file"]>> \notin Pending(fs, stack)
      BY <3>1 DEF IInv, ListInv
    <3>3. d = TopDir /\ n = Entry.name
      BY <1>2, <3>2
    <3> QED
      BY <1>2, <1>b, <3>2, <3>3
  <2>2. ListsEachFileOnce'
    <3>1. /\ DOMAIN paths = 1..Len(paths) /\ Len(paths) \in Nat
          /\ DOMAIN paths' = 1..Len(paths) + 1
          /\ \A i \in 1..Len(paths) : paths'[i] = paths[i]
          /\ paths'[Len(paths) + 1] = EntryPath
      <4>1. paths \in Seq(Paths)
        BY <1>0 DEF TypeInv
      <4> QED
        BY <1>0, <1>2, <4>1, AppendProperties, LenProperties
    <3>2. \A i \in 1..Len(paths) + 1 : i \in 1..Len(paths) \/ i = Len(paths) + 1
      BY <3>1
    <3>3. ASSUME NEW i \in DOMAIN paths', NEW j \in DOMAIN paths', Place(paths'[i]) = Place(paths'[j])
          PROVE  i = j
      BY <2>1, <3>1, <3>2, <3>3 DEF IInv, ListInv, ListsEachFileOnce
    <3> QED
      BY <1>1, <3>3 DEF ListsEachFileOnce
  <2>3. ASSUME NEW path \in ToSet(paths')
        PROVE  \E d \in Entered : \E n \in Names :
                 /\ path # <<>> /\ Place(path) = <<d, n>>
                 /\ [name |-> n, kind |-> "file"] \in Listing(fs, d)
                 /\ <<d, [name |-> n, kind |-> "file"]>> \notin Pending(fs, stack')
    <3>1. CASE path = EntryPath
      <4>1. <<TopDir, [name |-> Entry.name, kind |-> "file"]>> \notin Pending(fs, stack')
        BY <1>2, <1>b
      <4>2. [name |-> Entry.name, kind |-> "file"] \in Listing(fs, TopDir)
        BY <1>2, <1>b
      <4> QED
        BY <1>2, <1>a, <3>1, <4>1, <4>2
    <3>2. CASE path \in ToSet(paths)
      BY <1>2, <3>2 DEF IInv, ListInv
    <3> QED
      BY <1>3, <3>1, <3>2
  <2> QED
    BY <1>0, <1>1, <2>2, <2>3 DEF ListInv
<1>7. FoundInv'
  BY <1>0, <1>1 DEF IInv, FoundInv
<1>8. RealInv'
  <2>1. TopDir \in RealDirs => IsReal(EntryPath)
    BY <1>2, <1>a, LongerIsReal DEF IInv, RealInv, TopDir
  <2>2. Place(EntryPath)[1] = TopDir
    BY <1>2
  <2>3. \A path \in ToSet(paths') : Place(path)[1] \in RealDirs => IsReal(path)
    BY <1>3, <2>1, <2>2 DEF IInv, RealInv, PrefersRealPaths
  <2>4. PrefersRealPaths'
    BY <1>1, <2>3 DEF PrefersRealPaths
  <2> QED
    BY <1>0, <1>1, <1>2, <2>4 DEF IInv, RealInv
<1> QED
  BY <1>4, <1>5, <1>6, <1>7, <1>8 DEF IInv

LEMMA VisitDirInv ==
  ASSUME IInv, VisitDir
  PROVE  IInv'
<1> PICK dir : dir = Identity(fs, next)
  OBVIOUS
<1>0. TypeInv /\ fs' = fs /\ search' = search /\ pc = "walk" /\ next # None /\ next \in Paths
  BY DEF IInv, TypeInv, VisitDir
<1>t. IsTree(fs) /\ search.root \in Paths /\ dir \in Nodes \cup {None} /\ None \notin Nodes
      /\ Identity(fs, search.root) \in Nodes \cup {None} /\ Excluded \in Nodes \cup {None}
  BY <1>0, Typed DEF Excluded
<1>1. /\ Excluded' = Excluded /\ RealDirs' = RealDirs
      /\ Identity(fs, search.root)' = Identity(fs, search.root)
      /\ \A p : /\ Place(p)' = Place(p)
               /\ (RealAt(p)' <=> RealAt(p))
               /\ (IsReal(p)' <=> IsReal(p))
  BY <1>0, SameTree
<1>2. CASE dir = None \/ (dir \notin visited /\ fs[dir].kind # "dir")
  BY <1>2, StandsStill DEF VisitDir, Fail
<1>3. CASE dir # None /\ dir \in visited
  <2>1. pc' = pc /\ next' = None /\ visited' = visited /\ stack' = stack /\ links' = links /\ paths' = paths
    BY <1>3 DEF VisitDir
  <2>2. Entered' = Entered /\ Awaited' \subseteq Awaited /\ \A path \in Awaited : path = next \/ path \in Awaited'
    BY <1>1, <2>1 DEF Entered, Awaited
  <2>3. TypeInv'
    BY <1>0, <2>1 DEF TypeInv
  <2>4. \A d, n : LeadsTo(fs, next, d, n) => Child(fs, d, n) \in visited
    BY <1>0, <1>t, <1>3, LeadsToChild
  <2>5. DoneInv'
    <3>1. ASSUME NEW d, NEW e, IsDealtWith(d, e)
          PROVE  IsDealtWith(d, e)'
      BY <1>0, <1>1, <2>1, <2>2, <2>4, <3>1 DEF IsDealtWith
    <3> QED
      BY <1>0, <1>1, <1>3, <2>1, <2>2, <3>1 DEF IInv, DoneInv
  <2>6. ListInv'
    BY <1>0, <1>1, <2>1, <2>2 DEF IInv, ListInv, ListsEachFileOnce
  <2>7. FoundInv'
    BY <1>0, <1>1, <2>1, <2>2 DEF IInv, FoundInv
  <2>8. RealInv'
    BY <1>0, <1>1, <2>1 DEF IInv, RealInv, PrefersRealPaths
  <2> QED
    BY <2>3, <2>5, <2>6, <2>7, <2>8 DEF IInv
<1>4. CASE dir # None /\ dir \notin visited /\ fs[dir].kind = "dir"
  <2>1. /\ pc' = pc /\ next' = None /\ visited' = visited \cup {dir} /\ links' = links /\ paths' = paths
        /\ stack' = Pushed(stack, next, Listing(fs, dir))
    BY <1>4 DEF VisitDir, Pushed, FrameOf
  <2>2. dir \in Nodes /\ dir # Excluded
    BY <1>t, <1>4 DEF IInv, DoneInv
  <2>3. /\ Entered' = Entered \cup {dir} /\ Awaited' \subseteq Awaited
        /\ \A path \in Awaited : path = next \/ path \in Awaited'
    BY <1>1, <2>1, <2>2 DEF Entered, Awaited
  <2>4. \A i \in 1..Len(stack) : Identity(fs, stack[i].dir) # dir
    BY <1>4 DEF IInv, DoneInv, FrameDirs, Entered
  <2>5. /\ IsStack(fs, stack') /\ FrameDirs(stack') = FrameDirs(stack) \cup {next}
        /\ \A d, e : <<d, e>> \in Pending(fs, stack') <=>
                       <<d, e>> \in Pending(fs, stack) \/ (d = dir /\ e \in Listing(fs, dir))
    <3> PICK st : st = stack
      OBVIOUS
    <3> PICK p : p = next
      OBVIOUS
    <3>1. /\ IsStack(fs, st) /\ p \in Paths /\ Identity(fs, p) \in Nodes
          /\ \A i \in 1..Len(st) : Identity(fs, st[i].dir) # Identity(fs, p)
      BY <1>0, <2>2, <2>4 DEF TypeInv
    <3>2. LET L == Listing(fs, Identity(fs, p))
              new == Pushed(st, p, L)
          IN /\ IsStack(fs, new)
             /\ FrameDirs(new) = FrameDirs(st) \cup {p}
             /\ \A x, e : <<x, e>> \in Pending(fs, new) <=>
                         <<x, e>> \in Pending(fs, st) \/ (x = Identity(fs, p) /\ e \in L)
      BY <1>t, <3>1, PushStack
    <3> QED
      BY <2>1, <3>2
  <2>6. TypeInv'
    BY <1>0, <2>1, <2>2, <2>5 DEF TypeInv
  <2>7. \A d, n : LeadsTo(fs, next, d, n) => d \in Nodes /\ Child(fs, d, n) = dir
    BY <1>0, <1>t, <1>4, LeadsToChild
  <2>8. DoneInv'
    <3>1. ASSUME NEW d, NEW e, IsDealtWith(d, e)
          PROVE  IsDealtWith(d, e)'
      BY <1>0, <1>1, <2>1, <2>3, <2>5, <2>7, <3>1 DEF IsDealtWith
    <3>2. \A e \in Listing(fs, dir) : IsDealtWith(dir, e)'
      BY <1>0, <2>5 DEF IsDealtWith
    <3>3. \A d \in Entered' : fs[d].kind = "dir" /\ \A e \in Listing(fs, d) : IsDealtWith(d, e)'
      BY <1>4, <2>3, <3>1, <3>2 DEF IInv, DoneInv
    <3>4. \A path \in FrameDirs(stack') : Identity(fs, path) \in Entered'
      BY <2>3, <2>5 DEF IInv, DoneInv
    <3>5. Excluded \in visited' \cup {None} /\ Identity(fs, search.root) \in visited'
      BY <2>1 DEF IInv, DoneInv
    <3>6. pc' # "ok"
      BY <1>0, <2>1
    <3> QED
      BY <1>0, <1>1, <3>3, <3>4, <3>5, <3>6 DEF DoneInv
  <2>9. ListInv'
    <3>1. dir \notin Entered
      BY <1>4 DEF Entered
    <3> QED
      BY <1>0, <1>1, <2>1, <2>3, <2>5, <3>1 DEF IInv, ListInv, ListsEachFileOnce
  <2>10. FoundInv'
    <3>1. dir \in Reach(fs, Identity(fs, search.root), Excluded)
      <4>1. next \in Awaited
        BY <1>0 DEF Awaited
      <4>2. CASE next = search.root
        BY <1>t, <1>4, <2>2, <4>2, ReachFacts
      <4>3. ASSUME NEW d \in Entered, NEW e \in Listing(fs, d), e.kind \in {"dir", "dirlink"},
                   LeadsTo(fs, next, d, e.name)
            PROVE  dir \in Reach(fs, Identity(fs, search.root), Excluded)
        <5>1. d \in Reach(fs, Identity(fs, search.root), Excluded)
          BY DEF IInv, FoundInv
        <5>2. dir \in Below(fs, d) \ {Excluded}
          BY <2>2, <2>7, <4>3 DEF Below, Child
        <5> QED
          BY <1>t, <5>1, <5>2, ReachFacts
      <4> QED
        BY <4>1, <4>2, <4>3 DEF IInv, FoundInv
    <3> QED
      BY <1>0, <1>1, <2>1, <2>3, <3>1 DEF IInv, FoundInv
  <2>11. RealInv'
    <3>1. (RealDirs \subseteq visited /\ dir \notin RealDirs) \/ RealAt(next)
      BY <1>0, <1>4 DEF IInv, RealInv
    <3> QED
      BY <1>0, <1>1, <2>1, <2>5, <3>1 DEF IInv, RealInv, PrefersRealPaths
  <2> QED
    BY <2>6, <2>8, <2>9, <2>10, <2>11 DEF IInv
<1> QED
  BY <1>t, <1>2, <1>3, <1>4

(* Before a symlink is followed, the directories that need none are done.    *)
LEMMA RealDirsAreDone ==
  ASSUME IInv, next = None, stack = <<>>
  PROVE  RealDirs \subseteq visited
<1>0. TypeInv /\ DoneInv
  BY DEF IInv
<1>t. /\ IsTree(fs) /\ search.root \in Paths /\ None \notin Nodes /\ None \notin Paths
      /\ Identity(fs, search.root) \in Nodes \cup {None}
  BY <1>0, Typed
<1>1. {Identity(fs, search.root)} \ {Excluded, None} \subseteq Entered
  BY <1>0, <1>t DEF DoneInv, Entered
<1>2. ASSUME NEW d \in Entered, NEW n \in Names, NEW c, c = fs[d].entries[n],
             c \in Nodes, c # Excluded, fs[c].kind = "dir"
      PROVE  c \in Entered
  <2>1. d \in Nodes /\ fs[d].kind = "dir" /\ Has(fs, d, n)
    BY <1>0, <1>t, <1>2 DEF DoneInv, TypeInv, Entered, Has
  <2>2. EntryKind(fs, d, n) = "dir" /\ Child(fs, d, n) = c
    BY <1>t, <1>2, <2>1, KindOfEntry
  <2> PICK e : e = [name |-> n, kind |-> "dir"]
    OBVIOUS
  <2>3. e \in Listing(fs, d) /\ e.name = n /\ e.kind = "dir"
    BY <1>t, <2>1, <2>2, ListingFacts
  <2>4. IsDealtWith(d, e)
    BY <1>0, <2>3 DEF DoneInv
  <2>5. ~(<<d, e>> \in Pending(fs, stack))
    <3>1. Len(stack) = 0
      OBVIOUS
    <3>2. 1..Len(stack) = {}
      BY <3>1
    <3> QED
      BY <3>2, PendingIs
  <2> QED
    BY <1>2, <2>2, <2>3, <2>4, <2>5 DEF IsDealtWith, Entered
<1>3. Entered \in SUBSET Nodes
  BY <1>0 DEF TypeInv, Entered
<1>4. RealDirs = RealReach(fs, Identity(fs, search.root), Excluded)
  BY DEF RealDirs, Excluded
<1>5. RealDirs \subseteq Entered
  <2> PICK X : X = Entered
    OBVIOUS
  <2> PICK dir : dir = Identity(fs, search.root)
    OBVIOUS
  <2> PICK excluded : excluded = Excluded
    OBVIOUS
  <2>1. /\ X \in SUBSET Nodes /\ dir \in Nodes \cup {None} /\ {dir} \ {excluded, None} \subseteq X
        /\ \A d \in X : \A n \in Names : LET c == fs[d].entries[n] IN
             c \in Nodes /\ c # excluded /\ fs[c].kind = "dir" => c \in X
    BY <1>t, <1>1, <1>2, <1>3
  <2>2. RealReach(fs, dir, excluded) \subseteq X
    BY <2>1, RealReachFacts
  <2> QED
    BY <1>4, <2>2
<1> QED
  BY <1>5 DEF Entered

LEMMA FollowLinkInv ==
  ASSUME IInv, FollowLink
  PROVE  IInv'
<1>0. /\ TypeInv /\ next = None /\ stack = <<>> /\ pc = "walk" /\ fs' = fs /\ search' = search
      /\ stack' = stack /\ visited' = visited /\ paths' = paths
  BY DEF IInv, FollowLink
<1>1. /\ Excluded' = Excluded /\ RealDirs' = RealDirs /\ Entered' = Entered
      /\ Identity(fs, search.root)' = Identity(fs, search.root)
      /\ \A p : /\ Place(p)' = Place(p)
               /\ (RealAt(p)' <=> RealAt(p))
               /\ (IsReal(p)' <=> IsReal(p))
  BY <1>0, SameTree DEF Entered
<1>t. None \notin Paths /\ search.root \in Paths /\ links \in Seq(Paths)
  BY <1>0, Typed DEF TypeInv
<1>2. Identity(fs, search.root) \in visited
  BY <1>0, <1>t DEF IInv, DoneInv
<1>3. RealDirs \subseteq visited
  BY <1>0, RealDirsAreDone
<1>4. /\ Awaited' = Awaited /\ next' \in Paths \cup {None} /\ links' \in Seq(Paths)
      /\ ToSet(links') \subseteq ToSet(links)
      /\ pc' = "walk" \/ (pc' = "ok" /\ Awaited = {})
  <2>1. CASE links # <<>>
    <3> PICK list : list = links
      OBVIOUS
    <3>1. next' = Head(list) /\ links' = Tail(list) /\ pc' = pc
      BY <2>1 DEF FollowLink
    <3>2. Head(list) \in Paths /\ Tail(list) \in Seq(Paths) /\ ToSet(list) = {Head(list)} \cup ToSet(Tail(list))
      BY <1>t, <2>1, ToSetOfHead
    <3>3. ToSet(links) = {next'} \cup ToSet(links') /\ next' \in Paths /\ links' \in Seq(Paths)
      BY <3>1, <3>2
    <3> QED
      BY <1>0, <1>t, <3>1, <3>3 DEF Awaited
  <2>2. CASE links = <<>>
    <3>1. pc' = "ok" /\ next' = next /\ links' = links
      BY <2>2 DEF FollowLink
    <3>2. ToSet(links) = {}
      BY <2>2 DEF ToSet
    <3> QED
      BY <1>0, <1>t, <3>1, <3>2 DEF Awaited
  <2> QED
    BY <2>1, <2>2
<1>5. TypeInv'
  BY <1>0, <1>4 DEF TypeInv
<1>6. DoneInv'
  <2>1. \A d, e : IsDealtWith(d, e) => IsDealtWith(d, e)'
    BY <1>0, <1>1, <1>4 DEF IsDealtWith
  <2>2. Excluded \in visited \cup {None} /\ \A path \in FrameDirs(stack) : Identity(fs, path) \in Entered
    BY DEF IInv, DoneInv
  <2>3. \A d \in Entered : fs[d].kind = "dir" /\ \A e \in Listing(fs, d) : IsDealtWith(d, e)'
    BY <2>1 DEF IInv, DoneInv
  <2>4. pc' = "ok" => stack' = <<>> /\ Awaited' = {}
    BY <1>0, <1>4
  <2> QED
    BY <1>0, <1>1, <1>2, <2>2, <2>3, <2>4 DEF DoneInv
<1>7. ListInv'
  BY <1>0, <1>1 DEF IInv, ListInv, ListsEachFileOnce
<1>8. FoundInv'
  BY <1>0, <1>1, <1>4 DEF IInv, FoundInv
<1>9. RealInv'
  BY <1>0, <1>1, <1>3 DEF IInv, RealInv, PrefersRealPaths
<1> QED
  BY <1>5, <1>6, <1>7, <1>8, <1>9 DEF IInv

LEMMA StepInv ==
  ASSUME IInv, [Next]_vars
  PROVE  IInv'
<1>1. CASE FailEntry
  BY <1>1, StandsStill DEF FailEntry, Fail
<1>2. CASE Ended \/ UNCHANGED vars
  BY <1>2, StandsStill DEF Ended, vars
<1> QED
  BY <1>1, <1>2, VisitDirInv, DeferLinkInv, EnterDirInv, ListFileInv, LeaveDirInv, FollowLinkInv DEF Next

-----------------------------------------------------------------------------
(* A search that is over has nothing left to look at. *)
LEMMA AtTheEnd ==
  ASSUME IInv, pc = "ok"
  PROVE  /\ Reach(fs, Identity(fs, search.root), Excluded) = Entered
         /\ \A d \in Entered : \A e \in Listing(fs, d) :
              \/ e.kind = "file" /\ \E path \in ToSet(paths) : Place(path) = <<d, e.name>>
              \/ e.kind \in {"dir", "dirlink"} /\ Child(fs, d, e.name) \in visited
<1>0. TypeInv /\ DoneInv /\ stack = <<>> /\ Awaited = {}
  BY DEF IInv, DoneInv
<1>1. next = None
  BY <1>0 DEF Awaited
<1>t. /\ IsTree(fs) /\ search.root \in Paths /\ None \notin Paths
      /\ Identity(fs, search.root) \in Nodes \cup {None}
  BY <1>0, Typed
<1>2. \A d, e : <<d, e>> \notin Pending(fs, stack)
  <2>1. Len(stack) = 0
    BY <1>0
  <2>2. 1..Len(stack) = {}
    BY <2>1
  <2> QED
    BY <2>2, PendingIs
<1>3. \A d \in Entered : \A e \in Listing(fs, d) :
        \/ e.kind = "file" /\ \E path \in ToSet(paths) : Place(path) = <<d, e.name>>
        \/ e.kind \in {"dir", "dirlink"} /\ Child(fs, d, e.name) \in visited
  BY <1>0, <1>1, <1>2 DEF DoneInv, IsDealtWith
<1>4. Entered \in SUBSET Nodes /\ {Identity(fs, search.root)} \ {Excluded, None} \subseteq Entered
  BY <1>0, <1>1, <1>t DEF TypeInv, DoneInv, Entered
<1>5. \A d \in Entered : Below(fs, d) \ {Excluded} \subseteq Entered
  BY <1>3 DEF Below, Child, Entered
<1>6. Reach(fs, Identity(fs, search.root), Excluded) \subseteq Entered
  BY <1>t, <1>4, <1>5, ReachFacts
<1> QED
  BY <1>3, <1>6 DEF IInv, FoundInv

LEMMA InvIsExact ==
  ASSUME IInv
  PROVE  ListIsExact
<1>1. TypeOK
  <2>1. ASSUME NEW path \in ToSet(links) \cup ToSet(paths)
        PROVE  path \in Paths \ {<<>>}
    <3>1. path \in Paths
      BY DEF IInv, TypeInv, ToSet
    <3>2. path # <<>>
      BY DEF IInv, FoundInv, ListInv
    <3> QED
      BY <3>1, <3>2
  <2> QED
    BY <2>1 DEF IInv, TypeInv, TypeOK
<1>2. ASSUME pc = "ok"
      PROVE  /\ EntriesBelow(fs, Identity(fs, search.root), Excluded, "failed") = {}
             /\ {Place(path) : path \in ToSet(paths)} =
                  EntriesBelow(fs, Identity(fs, search.root), Excluded, "file")
  <2>1. /\ Reach(fs, Identity(fs, search.root), Excluded) = Entered
        /\ \A d \in Entered : \A e \in Listing(fs, d) :
             \/ e.kind = "file" /\ \E path \in ToSet(paths) : Place(path) = <<d, e.name>>
             \/ e.kind \in {"dir", "dirlink"} /\ Child(fs, d, e.name) \in visited
    BY <1>2, AtTheEnd
  <2>2. \A kind : EntriesBelow(fs, Identity(fs, search.root), Excluded, kind) =
                    UNION {{<<d, e.name>> : e \in {f \in Listing(fs, d) : f.kind = kind}} : d \in Entered}
    BY <2>1 DEF EntriesBelow
  <2>3. EntriesBelow(fs, Identity(fs, search.root), Excluded, "failed") = {}
    BY <2>1, <2>2
  <2>4. ASSUME NEW path \in ToSet(paths)
        PROVE  Place(path) \in EntriesBelow(fs, Identity(fs, search.root), Excluded, "file")
    <3>1. PICK d \in Entered, n \in Names :
            Place(path) = <<d, n>> /\ [name |-> n, kind |-> "file"] \in Listing(fs, d)
      BY DEF IInv, ListInv
    <3>2. PICK e \in Listing(fs, d) : e = [name |-> n, kind |-> "file"]
      BY <3>1
    <3>3. e.name = n /\ e.kind = "file"
      BY <3>2
    <3> QED
      BY <2>2, <3>1, <3>3
  <2>5. ASSUME NEW place \in EntriesBelow(fs, Identity(fs, search.root), Excluded, "file")
        PROVE  \E path \in ToSet(paths) : Place(path) = place
    <3>1. PICK d \in Entered : \E e \in Listing(fs, d) : e.kind = "file" /\ place = <<d, e.name>>
      BY <2>2
    <3> QED
      BY <2>1, <3>1
  <2> QED
    BY <2>3, <2>4, <2>5
<1>3. ListsEverything
  BY <1>2 DEF ListsEverything, Excluded
<1> QED
  BY <1>1, <1>3 DEF IInv, ListInv, ListIsExact

(* However the symlinks of a tree form cycles and aliases, and whatever is   *)
(* searched: walk_files_with_suffixes lists each file it can find exactly    *)
(* once, and a walk that succeeds has looked past nothing.                   *)
THEOREM ListIsAlwaysExact == Spec => []ListIsExact
<1>1. Init => IInv
  BY InitInv
<1>2. IInv /\ [Next]_vars => IInv'
  BY StepInv
<1>3. IInv => ListIsExact
  BY InvIsExact
<1> QED
  BY <1>1, <1>2, <1>3, PTL DEF Spec

(* A directory that has a path without a symlink is listed under that path,  *)
(* whatever symlinks lead to it: they are all put off until every such       *)
(* directory is done.                                                        *)
THEOREM RealPathsArePreferred == Spec => []PrefersRealPaths
<1>1. Init => IInv
  BY InitInv
<1>2. IInv /\ [Next]_vars => IInv'
  BY StepInv
<1>3. IInv => PrefersRealPaths
  BY DEF IInv, RealInv
<1> QED
  BY <1>1, <1>2, <1>3, PTL DEF Spec

=============================================================================
