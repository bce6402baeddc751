--------------------------- MODULE HighlightProofs ---------------------------
(***************************************************************************)
(* For any number of threads and grammars: grammar_lock lets one thread     *)
(* load grammars at a time, each query is compiled once, and a compiled     *)
(* query stays as it is. Threads therefore read queries without the lock.   *)
(* For any table of free lists and any sizes: tree-sitter's allocator hands *)
(* no address out twice, and serves a block only while it is written.       *)
(***************************************************************************)
EXTENDS Highlight, FiniteSetTheorems, SequenceTheorems, WellFoundedInduction, TLAPS

Loaded == {g \in Grammars : grammars[g].isLoaded}

(* Where a thread has a grammar of the program. *)
HasGrammar == Locked \cup Parsed \cup {"lock", "open"}

GrammarsInv ==
  /\ \A t \in Threads : step[t] \in HasGrammar => grammar[t] \in Grammars
  /\ \A t \in Threads : step[t] = "load" => isAllocatorInstalled
  /\ \A g \in Grammars : grammars[g].query # 0 => grammars[g].isLoaded

IInv == QueriesAreCompiledOnce /\ GrammarsInv

-----------------------------------------------------------------------------
LEMMA InitInv == Init => IInv
<1>. SUFFICES ASSUME Init PROVE IInv
  OBVIOUS
<1>1. /\ grammars = [g \in Grammars |-> [isLoaded |-> FALSE, query |-> 0]]
      /\ \A g \in Grammars : ~grammars[g].isLoaded /\ grammars[g].query = 0
  BY DEF Init
<1>2. Loaded = {}
  BY <1>1 DEF Loaded
<1>3. compiles = Cardinality(Loaded)
  <2>1. Cardinality({}) = 0
    BY FS_EmptySet
  <2>. QED
    BY <1>2, <2>1 DEF Init
<1>4. grammars \in [Grammars -> [isLoaded : BOOLEAN, query : Nat]]
  BY <1>1
<1>5. TypeOK
  BY <1>4 DEF Init, TypeOK
<1>. QED
  BY <1>1, <1>3, <1>5 DEF Init, IInv, QueriesAreCompiledOnce, GrammarsInv, Loaded, Locked, Parsed, HasGrammar

(* A step outside the lock: it leaves the grammars alone and ends in a place *)
(* that holds no lock, with a grammar if the place needs one.                *)
LEMMA OutsideLock ==
  ASSUME IInv, UNCHANGED loading, NEW t \in Threads, NEW to,
         step' = [step EXCEPT ![t] = to],
         to \in Parsed \cup {"find", "lock", "open", "finish", "clear"},
         grammar' \in [Threads -> Grammars \cup {NoGrammar}],
         \A u \in Threads \ {t} : grammar'[u] = grammar[u],
         to \in Parsed \cup {"lock", "open"} => grammar'[t] \in Grammars,
         to \in Parsed \cup {"open"} => grammars[grammar'[t]].query # 0,
         treeMemory' \subseteq Threads
  PROVE  IInv'
<1>1. Loaded' = Loaded /\ compiles' = compiles
  BY DEF loading, Loaded
<1>2. TypeOK'
  BY DEF IInv, QueriesAreCompiledOnce, TypeOK, loading, Locked, Parsed
<1>3. compiles' = Cardinality(Loaded')
  BY <1>1 DEF IInv, QueriesAreCompiledOnce, Loaded
<1>4. \A u \in Threads :
        step'[u] = IF u = t THEN to ELSE step[u]
  BY DEF IInv, QueriesAreCompiledOnce, TypeOK
<1>5. \A u \in Threads : step'[u] \in Locked => grammarLock' = u
  BY <1>4 DEF IInv, QueriesAreCompiledOnce, loading, Locked, Parsed
<1>6. \A g \in Grammars : grammars'[g].isLoaded => isAllocatorInstalled'
  BY DEF IInv, QueriesAreCompiledOnce, loading
<1>7. \A u \in Threads : step'[u] \in Parsed \cup {"open"} => grammars'[grammar'[u]].query # 0
  BY <1>4 DEF IInv, QueriesAreCompiledOnce, loading
<1>8. GrammarsInv'
  BY <1>4 DEF IInv, GrammarsInv, HasGrammar, loading, Locked, Parsed
<1>. QED
  BY <1>2, <1>3, <1>5, <1>6, <1>7, <1>8 DEF IInv, QueriesAreCompiledOnce, Loaded

(* A step that stays where the thread is, or goes on without its grammar.    *)
LEMMA InBlock ==
  ASSUME IInv, NEW t \in Threads, UNCHANGED <<loading, grammar>>,
         UNCHANGED treeMemory \/ treeMemory' \subseteq Threads,
         \/ UNCHANGED step
         \/ step' = [step EXCEPT ![t] = "finish"]
         \/ step' = [step EXCEPT ![t] = "clear"]
         \/ step[t] \in Parsed \cup {"open"} /\ \E to \in Parsed : step' = [step EXCEPT ![t] = to]
  PROVE  IInv'
<1>1. treeMemory' \subseteq Threads /\ grammar' = grammar /\ grammar \in [Threads -> Grammars \cup {NoGrammar}]
  BY DEF IInv, QueriesAreCompiledOnce, TypeOK
<1>2. CASE UNCHANGED step
  <2>1. Loaded' = Loaded /\ compiles' = compiles
    BY DEF loading, Loaded
  <2>2. TypeOK'
    BY <1>1, <1>2 DEF IInv, QueriesAreCompiledOnce, TypeOK, loading
  <2>3. compiles' = Cardinality(Loaded')
    BY <2>1 DEF IInv, QueriesAreCompiledOnce, Loaded
  <2>. QED
    BY <1>1, <1>2, <2>2, <2>3 DEF IInv, QueriesAreCompiledOnce, GrammarsInv, Loaded, loading
<1>3. CASE step' = [step EXCEPT ![t] = "finish"]
  <2>1. /\ "finish" \in Parsed \cup {"find", "lock", "open", "finish", "clear"}
        /\ "finish" \notin Parsed \cup {"lock", "open"} /\ "finish" \notin Parsed \cup {"open"}
    BY DEF Parsed
  <2>2. UNCHANGED loading
    OBVIOUS
  <2>. QED
    BY <1>1, <1>3, <2>1, <2>2, OutsideLock
<1>4. CASE step' = [step EXCEPT ![t] = "clear"]
  <2>1. /\ "clear" \in Parsed \cup {"find", "lock", "open", "finish", "clear"}
        /\ "clear" \notin Parsed \cup {"lock", "open"} /\ "clear" \notin Parsed \cup {"open"}
    BY DEF Parsed
  <2>2. UNCHANGED loading
    OBVIOUS
  <2>. QED
    BY <1>1, <1>4, <2>1, <2>2, OutsideLock
<1>5. CASE step[t] \in Parsed \cup {"open"} /\ \E to \in Parsed : step' = [step EXCEPT ![t] = to]
  <2>1. PICK to \in Parsed : step' = [step EXCEPT ![t] = to]
    BY <1>5
  <2>2. grammar[t] \in Grammars /\ grammars[grammar[t]].query # 0
    BY <1>5 DEF IInv, QueriesAreCompiledOnce, GrammarsInv, HasGrammar
  <2>. QED
    BY <1>1, <2>1, <2>2, OutsideLock
<1>. QED
  BY <1>2, <1>3, <1>4, <1>5

(* Inside the lock: only the thread that holds it is there.                  *)
LEMMA AloneInLock ==
  ASSUME IInv, NEW t \in Threads, step[t] \in Locked
  PROVE  grammarLock = t /\ \A u \in Threads \ {t} : step[u] \notin Locked
BY DEF IInv, QueriesAreCompiledOnce

LEMMA LockStep ==
  ASSUME IInv, NEW t \in Threads, Lock(t)
  PROVE  IInv'
<1>1. /\ grammars' = grammars /\ compiles' = compiles /\ Loaded' = Loaded
      /\ isAllocatorInstalled' = isAllocatorInstalled /\ grammar' = grammar
      /\ treeMemory' = treeMemory
  BY DEF Lock, block, Loaded
<1>2. \A u \in Threads : step'[u] = IF u = t THEN "install" ELSE step[u]
  BY DEF Lock, GoTo, IInv, QueriesAreCompiledOnce, TypeOK
<1>3. \A u \in Threads : step[u] \notin Locked
  BY HighlightAssumption DEF Lock, IInv, QueriesAreCompiledOnce
<1>4. TypeOK'
  BY <1>1 DEF Lock, GoTo, IInv, QueriesAreCompiledOnce, TypeOK, Locked
<1>5. \A u \in Threads : step'[u] \in Locked => grammarLock' = u
  BY <1>2, <1>3 DEF Lock
<1>6. compiles' = Cardinality(Loaded')
  BY <1>1 DEF IInv, QueriesAreCompiledOnce, Loaded
<1>7. GrammarsInv'
  BY <1>1, <1>2 DEF Lock, IInv, GrammarsInv, HasGrammar, Locked
<1>8. \A u \in Threads : step'[u] \in Parsed \cup {"open"} => grammars'[grammar'[u]].query # 0
  BY <1>1, <1>2 DEF IInv, QueriesAreCompiledOnce, Parsed
<1>. QED
  BY <1>1, <1>4, <1>5, <1>6, <1>7, <1>8 DEF IInv, QueriesAreCompiledOnce, Loaded

LEMMA InstallStep ==
  ASSUME IInv, NEW t \in Threads, Install(t)
  PROVE  IInv'
<1>1. /\ grammars' = grammars /\ compiles' = compiles /\ Loaded' = Loaded
      /\ grammarLock' = grammarLock /\ grammar' = grammar /\ treeMemory' = treeMemory
      /\ isAllocatorInstalled' = TRUE
  BY DEF Install, block, Loaded
<1>2. \A u \in Threads : step'[u] = IF u = t THEN "load" ELSE step[u]
  BY DEF Install, GoTo, IInv, QueriesAreCompiledOnce, TypeOK
<1>3. TypeOK'
  BY <1>1 DEF Install, GoTo, IInv, QueriesAreCompiledOnce, TypeOK, Locked
<1>4. \A u \in Threads : step'[u] \in Locked => grammarLock' = u
  BY <1>1, <1>2 DEF Install, IInv, QueriesAreCompiledOnce, Locked
<1>5. compiles' = Cardinality(Loaded')
  BY <1>1 DEF IInv, QueriesAreCompiledOnce, Loaded
<1>6. GrammarsInv'
  BY <1>1, <1>2 DEF Install, IInv, GrammarsInv, HasGrammar, Locked
<1>7. \A u \in Threads : step'[u] \in Parsed \cup {"open"} => grammars'[grammar'[u]].query # 0
  BY <1>1, <1>2 DEF IInv, QueriesAreCompiledOnce, Parsed
<1>. QED
  BY <1>1, <1>3, <1>4, <1>5, <1>6, <1>7 DEF IInv, QueriesAreCompiledOnce, Loaded

LEMMA LoadStep ==
  ASSUME IInv, NEW t \in Threads, Load(t)
  PROVE  IInv'
<1>. DEFINE g == grammar[t]
<1>1. g \in Grammars
  BY DEF Load, IInv, GrammarsInv, HasGrammar, Locked
<1>2. /\ grammarLock' = grammarLock /\ grammar' = grammar /\ treeMemory' = treeMemory
      /\ isAllocatorInstalled' = isAllocatorInstalled /\ isAllocatorInstalled
  BY DEF Load, block, IInv, GrammarsInv
<1>3. \A u \in Threads : step'[u] = IF u = t THEN "unlock" ELSE step[u]
  BY DEF Load, GoTo, IInv, QueriesAreCompiledOnce, TypeOK
<1>4. /\ grammars' \in [Grammars -> [isLoaded : BOOLEAN, query : Nat]]
      /\ compiles' \in Nat
      /\ compiles' = Cardinality(Loaded')
      /\ \A h \in Grammars : grammars[h].query # 0 => grammars'[h] = grammars[h]
      /\ \A h \in Grammars : grammars'[h].query # 0 => grammars'[h].isLoaded
  <2>1. CASE grammars[g].isLoaded
    <3>1. grammars' = grammars /\ compiles' = compiles /\ Loaded' = Loaded
      BY <2>1 DEF Load, Loaded
    <3>. QED
      BY <3>1 DEF IInv, QueriesAreCompiledOnce, TypeOK, GrammarsInv, Loaded
  <2>2. CASE ~grammars[g].isLoaded
    <3>1. /\ compiles' = compiles + 1
          /\ grammars' = [grammars EXCEPT ![g] = LoadedGrammar(g, compiles')]
      BY <2>2 DEF Load
    <3>2. grammars \in [Grammars -> [isLoaded : BOOLEAN, query : Nat]] /\ compiles \in Nat
      BY DEF IInv, QueriesAreCompiledOnce, TypeOK
    <3>3. LoadedGrammar(g, compiles') \in [isLoaded : BOOLEAN, query : Nat] /\ LoadedGrammar(g, compiles').isLoaded
      BY <3>1, <3>2 DEF LoadedGrammar
    <3>4. Loaded' = Loaded \cup {g} /\ g \notin Loaded
      BY <1>1, <2>2, <3>1, <3>2, <3>3 DEF Loaded
    <3>5. IsFiniteSet(Loaded)
      BY HighlightAssumption, FS_Subset DEF Loaded
    <3>6. Cardinality(Loaded') = Cardinality(Loaded) + 1
      BY <3>4, <3>5, FS_AddElement
    <3>7. compiles' = Cardinality(Loaded')
      BY <3>1, <3>6 DEF IInv, QueriesAreCompiledOnce, Loaded
    <3>8. \A h \in Grammars : grammars'[h] = IF h = g THEN LoadedGrammar(g, compiles') ELSE grammars[h]
      BY <3>1, <3>2
    <3>9. grammars[g].query = 0
      BY <1>1, <2>2 DEF IInv, GrammarsInv
    <3>. QED
      BY <1>1, <3>1, <3>2, <3>3, <3>7, <3>8, <3>9 DEF IInv, GrammarsInv
  <2>. QED
    BY <2>1, <2>2
<1>5. TypeOK'
  BY <1>2, <1>4 DEF Load, GoTo, IInv, QueriesAreCompiledOnce, TypeOK, Locked
<1>6. \A u \in Threads : step'[u] \in Locked => grammarLock' = u
  BY <1>2, <1>3 DEF Load, IInv, QueriesAreCompiledOnce, Locked
<1>7. GrammarsInv'
  BY <1>2, <1>3, <1>4 DEF Load, IInv, GrammarsInv, HasGrammar, Locked
<1>8. \A u \in Threads : step'[u] \in Parsed \cup {"open"} => grammars'[grammar'[u]].query # 0
  BY <1>2, <1>3, <1>4 DEF IInv, QueriesAreCompiledOnce, GrammarsInv, HasGrammar, Parsed
<1>9. \A h \in Grammars : grammars'[h].isLoaded => isAllocatorInstalled'
  BY <1>2
<1>. QED
  BY <1>4, <1>5, <1>6, <1>7, <1>8, <1>9 DEF IInv, QueriesAreCompiledOnce, Loaded

LEMMA UnlockStep ==
  ASSUME IInv, NEW t \in Threads, Unlock(t)
  PROVE  IInv'
<1>1. /\ grammars' = grammars /\ compiles' = compiles /\ Loaded' = Loaded
      /\ isAllocatorInstalled' = isAllocatorInstalled /\ treeMemory' = treeMemory
  BY DEF Unlock, block, Loaded
<1>2. \A u \in Threads \ {t} : step'[u] = step[u] /\ grammar'[u] = grammar[u]
  BY DEF Unlock, GoTo, IInv, QueriesAreCompiledOnce, TypeOK
<1>3. \/ step'[t] = "open" /\ grammar' = grammar /\ grammars[grammar[t]].query # 0
      \/ step'[t] = "finish"
  BY DEF Unlock, GoTo, IInv, QueriesAreCompiledOnce, TypeOK
<1>4. \A u \in Threads \ {t} : step[u] \notin Locked
  BY AloneInLock DEF Unlock, Locked
<1>5. TypeOK'
  BY <1>1 DEF Unlock, GoTo, IInv, QueriesAreCompiledOnce, TypeOK
<1>6. \A u \in Threads : step'[u] \notin Locked
  BY <1>2, <1>3, <1>4 DEF Locked
<1>7. compiles' = Cardinality(Loaded')
  BY <1>1 DEF IInv, QueriesAreCompiledOnce, Loaded
<1>8. grammar[t] \in Grammars
  BY DEF Unlock, IInv, GrammarsInv, HasGrammar, Locked
<1>9. GrammarsInv'
  BY <1>1, <1>2, <1>3, <1>8 DEF Unlock, IInv, GrammarsInv, HasGrammar, Locked, Parsed
<1>10. \A u \in Threads : step'[u] \in Parsed \cup {"open"} => grammars'[grammar'[u]].query # 0
  BY <1>1, <1>2, <1>3 DEF IInv, QueriesAreCompiledOnce, Parsed
<1>. QED
  BY <1>1, <1>5, <1>6, <1>7, <1>9, <1>10 DEF IInv, QueriesAreCompiledOnce, Loaded

LEMMA FindStep ==
  ASSUME IInv, NEW t \in Threads, Find(t)
  PROVE  IInv'
<1>1. UNCHANGED loading /\ UNCHANGED treeMemory /\ treeMemory \subseteq Threads
  BY DEF Find, block, IInv, QueriesAreCompiledOnce, TypeOK
<1>2. CASE \E g \in Grammars : grammar' = [grammar EXCEPT ![t] = g] /\ GoTo(t, "lock")
  <2>1. PICK g \in Grammars : grammar' = [grammar EXCEPT ![t] = g] /\ step' = [step EXCEPT ![t] = "lock"]
    BY <1>2 DEF GoTo
  <2>2. grammar \in [Threads -> Grammars \cup {NoGrammar}]
    BY DEF IInv, QueriesAreCompiledOnce, TypeOK
  <2>3. /\ grammar' \in [Threads -> Grammars \cup {NoGrammar}] /\ grammar'[t] \in Grammars
        /\ \A u \in Threads \ {t} : grammar'[u] = grammar[u]
    BY <2>1, <2>2
  <2>4. "lock" \in Parsed \cup {"find", "lock", "open", "finish", "clear"} /\ "lock" \notin Parsed \cup {"open"}
    BY DEF Parsed
  <2>. QED
    BY <1>1, <2>1, <2>3, <2>4, OutsideLock
<1>3. CASE GoTo(t, "finish") /\ UNCHANGED grammar
  BY <1>1, <1>3, InBlock DEF GoTo
<1>. QED
  BY <1>2, <1>3 DEF Find

LEMMA ClearStep ==
  ASSUME IInv, NEW t \in Threads, Clear(t)
  PROVE  IInv'
<1>1. /\ UNCHANGED loading /\ treeMemory' \subseteq Threads
      /\ step' = [step EXCEPT ![t] = "find"]
      /\ grammar' = [grammar EXCEPT ![t] = NoGrammar]
  BY DEF Clear, GoTo, Fresh, IInv, QueriesAreCompiledOnce, TypeOK
<1>2. /\ grammar' \in [Threads -> Grammars \cup {NoGrammar}]
      /\ \A u \in Threads \ {t} : grammar'[u] = grammar[u]
  BY <1>1 DEF IInv, QueriesAreCompiledOnce, TypeOK
<1>3. /\ "find" \in Parsed \cup {"find", "lock", "open", "finish", "clear"}
      /\ "find" \notin Parsed \cup {"lock", "open"} /\ "find" \notin Parsed \cup {"open"}
  BY DEF Parsed
<1>. QED
  BY <1>1, <1>2, <1>3, OutsideLock

(* The steps inside a block.                                                 *)
LEMMA BlockStep ==
  ASSUME IInv, NEW t \in Threads,
         \/ Open(t) \/ Allocate(t) \/ EndParse(t) \/ CancelParse(t) \/ Report(t)
         \/ NextCapture(t) \/ EndQuery(t) \/ Finish(t)
  PROVE  IInv'
<1>1. UNCHANGED <<loading, grammar>>
  BY DEF Open, Allocate, EndParse, CancelParse, Report, NextCapture, EndQuery, Finish
<1>2. UNCHANGED treeMemory \/ treeMemory' \subseteq Threads
  BY DEF Open, Allocate, EndParse, CancelParse, Report, NextCapture, EndQuery, Finish, block,
         IInv, QueriesAreCompiledOnce, TypeOK
<1>3. CASE UNCHANGED step
  BY <1>1, <1>2, <1>3, InBlock
<1>4. CASE step' = [step EXCEPT ![t] = "finish"] \/ step' = [step EXCEPT ![t] = "clear"]
  BY <1>1, <1>2, <1>4, InBlock
<1>5. CASE step[t] \in Parsed \cup {"open"} /\ \E to \in Parsed : step' = [step EXCEPT ![t] = to]
  BY <1>1, <1>2, <1>5, InBlock
<1>6. \/ UNCHANGED step
      \/ step' = [step EXCEPT ![t] = "finish"] \/ step' = [step EXCEPT ![t] = "clear"]
      \/ step[t] \in Parsed \cup {"open"} /\ \E to \in Parsed : step' = [step EXCEPT ![t] = to]
  BY DEF Open, Allocate, EndParse, CancelParse, Report, NextCapture, EndQuery, Finish, GoTo, Parsed
<1>. QED
  BY <1>3, <1>4, <1>5, <1>6

LEMMA StepInv == IInv /\ [Next]_vars => IInv'
<1>. SUFFICES ASSUME IInv, [Next]_vars PROVE IInv'
  OBVIOUS
<1>1. ASSUME NEW t \in Threads, Progress(t) \/ Allocate(t) \/ NextCapture(t) \/ EndQuery(t)
      PROVE  IInv'
  BY <1>1, FindStep, LockStep, InstallStep, LoadStep, UnlockStep, BlockStep, ClearStep DEF Progress
<1>2. CASE UNCHANGED vars
  <2>1. /\ UNCHANGED <<step, grammar, treeMemory, grammarLock, isAllocatorInstalled, grammars, compiles>>
        /\ Loaded' = Loaded
    BY <1>2 DEF vars, loading, block, Loaded
  <2>. QED
    BY <2>1 DEF IInv, QueriesAreCompiledOnce, TypeOK, GrammarsInv
<1>. QED
  BY <1>1, <1>2 DEF Next

-----------------------------------------------------------------------------
(* One thread at a time loads grammars, no query is compiled twice, and a   *)
(* block is only parsed with a grammar whose query was compiled.            *)
THEOREM CompiledOnce == Spec => []QueriesAreCompiledOnce
<1>1. Spec => []IInv
  BY InitInv, StepInv, PTL DEF Spec
<1>2. IInv => QueriesAreCompiledOnce
  BY DEF IInv
<1>. QED
  BY <1>1, <1>2, PTL

(* A grammar's query stays once it was compiled, so a thread that found it  *)
(* under the lock may read it after the lock is released.                   *)
THEOREM CompiledStay == Spec => QueriesStay
<1>. DEFINE Stay == \A g \in Grammars : grammars[g].isLoaded => grammars'[g] = grammars[g]
<1>1. IInv /\ [Next]_vars => [Stay]_vars
  <2>. SUFFICES ASSUME IInv, Next PROVE Stay
    OBVIOUS
  <2>1. ASSUME NEW t \in Threads, Load(t) PROVE Stay
    BY <2>1 DEF Load, IInv, QueriesAreCompiledOnce, TypeOK
  <2>2. ASSUME UNCHANGED grammars PROVE Stay
    BY <2>2
  <2>3. (\E t \in Threads : Load(t)) \/ UNCHANGED grammars
    BY DEF Next, Progress, Find, Lock, Install, Unlock, Open, Allocate, EndParse, CancelParse,
           Report, NextCapture, EndQuery, Finish, Clear, loading
  <2>. QED
    BY <2>1, <2>2, <2>3
<1>2. Spec => []IInv
  BY InitInv, StepInv, PTL DEF Spec
<1>. QED
  BY <1>1, <1>2, PTL DEF Spec, QueriesStay
-----------------------------------------------------------------------------
(* Tree-sitter's memory.  An address waits on one free list at most, on that *)
(* of its size, and only while it is not allocated.                          *)
FreeLists == [0 .. Slots - 1 -> [key : Nat, free : Seq(Nat)]]

FreeOn(lists, slot) == 1 .. Len(lists[slot].free)

IsFreed(header, live, lists) ==
  /\ \A s \in 0 .. Slots - 1 : \A i \in FreeOn(lists, s) :
       LET a == lists[s].free[i]
       IN a \in DOMAIN header /\ a \notin DOMAIN live /\ header[a] = lists[s].key - 1
  /\ \A s \in 0 .. Slots - 1 : \A i, j \in FreeOn(lists, s) :
       lists[s].free[i] = lists[s].free[j] => i = j
  /\ \A s, r \in 0 .. Slots - 1 : \A i \in FreeOn(lists, s) : \A j \in FreeOn(lists, r) :
       lists[s].free[i] = lists[r].free[j] => s = r

Holds(header, live) ==
  /\ DOMAIN live \subseteq DOMAIN header
  /\ \A a \in DOMAIN live : live[a] \in Nat /\ live[a] <= header[a]

IsMemory(m) ==
  /\ DOMAIN m = {"len", "next", "live", "header", "lists"}
  /\ m.header \in Seq(Nat) /\ m.next = Len(m.header) + 1
  /\ Holds(m.header, m.live)
  /\ m.lists \in FreeLists
  /\ IsFreed(m.header, m.live, m.lists)

LEMMA NewMemoryIsSound == IsMemory(NewMemory(Slots))
<1> DEFINE m == NewMemory(Slots)
<1>1. /\ DOMAIN m = {"len", "next", "live", "header", "lists"} /\ m.next = 1
      /\ m.header = <<>> /\ m.live = <<>>
      /\ m.lists = [slot \in 0 .. (Slots - 1) |-> [key |-> 0, free |-> <<>>]]
  BY DEF NewMemory
<1>2. m.lists \in FreeLists /\ \A s \in 0 .. Slots - 1 : FreeOn(m.lists, s) = {}
  BY <1>1 DEF FreeLists, FreeOn
<1>3. DOMAIN <<>> = {} /\ 1 .. 1 - 1 = {}
  OBVIOUS
<1> HIDE DEF m
<1>4. Holds(m.header, m.live) /\ IsFreed(m.header, m.live, m.lists)
  BY <1>1, <1>2, <1>3 DEF Holds, IsFreed
<1>5. IsMemory(m)
  <2>1. m.header \in Seq(Nat) /\ Len(m.header) = 0
    BY <1>1
  <2> QED
    BY <1>1, <1>2, <1>4, <2>1 DEF IsMemory
<1> QED
  BY <1>5 DEF m

LEMMA AddressesAreNumbered ==
  ASSUME NEW m, IsMemory(m)
  PROVE  /\ m.next \in Nat \ {0} /\ DOMAIN m.header = 1 .. m.next - 1
         /\ \A a \in DOMAIN m.header : m.header[a] \in Nat
BY DEF IsMemory

(* The least number of a set.                                                *)
LEMMA Least ==
  ASSUME NEW S \in SUBSET Nat, S # {}
  PROVE  \E i \in S : \A j \in S : i <= j
<1> DEFINE R == {ss \in Nat \X Nat : ss[1] < ss[2]}
<1>1. IsWellFoundedOn(R, Nat)
  BY NatLessThanWellFounded, Zenon DEF OpToRel
<1>2. PICK i \in S : \A j \in S : ~ (<<j, i>> \in R)
  <2> HIDE DEF R
  <2>1. S \subseteq Nat
    OBVIOUS
  <2> QED
    BY <1>1, <2>1, WFMin, Zenon
<1>3. \A j \in S : i <= j
  <2> TAKE j \in S
  <2>1. i \in Nat /\ j \in Nat /\ ~ (<<j, i>> \in R)
    BY <1>2
  <2> QED
    BY <2>1
<1> QED
  BY <1>3

(* A size finds the slot that has its free list, or one that is unused.      *)
LEMMA SlotIsRight ==
  ASSUME NEW m, IsMemory(m), NEW size \in Nat
  PROVE  LET slot == FreeListSlot(m, size)
         IN \/ slot = -1
            \/ slot \in 0 .. Slots - 1 /\ m.lists[slot].key \in {0, size + 1}
<1> DEFINE count == Cardinality(DOMAIN m.lists)
           Probe(i) == (size + i) % count
           hits == {i \in 0 .. (count - 1) : m.lists[Probe(i)].key \in {0, size + 1}}
           best == CHOOSE i \in hits : \A j \in hits : i <= j
<1>1. DOMAIN m.lists = 0 .. Slots - 1 /\ Slots \in Nat \ {0}
  BY HighlightAssumption DEF IsMemory, FreeLists
<1>2. count = Slots
  <2>1. 0 \in Int /\ Slots - 1 \in Int /\ ~ (0 > Slots - 1)
    BY <1>1
  <2>2. Cardinality(0 .. Slots - 1) = Slots - 1 - 0 + 1
    BY <2>1, FS_Interval
  <2> QED
    BY <1>1, <2>2
<1>3. FreeListSlot(m, size) = IF hits = {} THEN -1 ELSE Probe(best)
  BY DEF FreeListSlot
<1>4. CASE hits # {}
  <2>1. hits \in SUBSET Nat
    BY <1>1, <1>2
  <2>2. \E i \in hits : \A j \in hits : i <= j
    <3> HIDE DEF hits
    <3> QED
      BY <1>4, <2>1, Least
  <2>3. best \in hits
    <3> HIDE DEF hits
    <3> QED
      BY <2>2
  <2> HIDE DEF best
  <2>4. best \in 0 .. Slots - 1 /\ m.lists[Probe(best)].key \in {0, size + 1}
    BY <1>2, <2>3
  <2>5. Probe(best) \in 0 .. Slots - 1
    <3> HIDE DEF count
    <3>1. \A n \in Nat : n % Slots \in 0 .. Slots - 1
      BY <1>1
    <3>2. size + best \in Nat
      BY <1>1, <2>4
    <3> QED
      BY <1>2, <3>1, <3>2
  <2> QED
    BY <1>3, <1>4, <2>4, <2>5
<1>5. CASE hits = {}
  BY <1>3, <1>5
<1> QED
  BY <1>4, <1>5

(* One slot of a table of free lists changes.                                *)
Changes(lists, slot, key, free, changed) ==
  /\ changed \in FreeLists /\ changed[slot].key = key /\ changed[slot].free = free
  /\ \A s \in 0 .. Slots - 1 : s # slot => changed[s] = lists[s]

LEMMA ChangedKey ==
  ASSUME NEW lists \in FreeLists, NEW slot \in 0 .. Slots - 1, NEW key \in Nat
  PROVE  Changes(lists, slot, key, lists[slot].free, [lists EXCEPT ![slot].key = key])
BY DEF Changes, FreeLists

LEMMA ChangedFree ==
  ASSUME NEW lists \in FreeLists, NEW slot \in 0 .. Slots - 1, NEW free \in Seq(Nat)
  PROVE  Changes(lists, slot, lists[slot].key, free, [lists EXCEPT ![slot].free = free])
BY DEF Changes, FreeLists

LEMMA ChangedSlot ==
  ASSUME NEW lists \in FreeLists, NEW slot \in 0 .. Slots - 1, NEW key \in Nat, NEW free \in Seq(Nat)
  PROVE  Changes(lists, slot, key, free, [lists EXCEPT ![slot] = [key |-> key, free |-> free]])
BY DEF Changes, FreeLists

(* A size takes an unused slot: the list stays as it is, and an unused list  *)
(* is empty.                                                                 *)
LEMMA ClaimedList ==
  ASSUME NEW header, NEW live, NEW lists \in FreeLists, IsFreed(header, live, lists),
         \A a \in DOMAIN header : header[a] \in Nat,
         NEW slot \in 0 .. Slots - 1, NEW size \in Nat, lists[slot].key \in {0, size + 1},
         NEW claimed,
         Changes(lists, slot, size + 1, lists[slot].free, claimed)
  PROVE  /\ claimed \in FreeLists /\ IsFreed(header, live, claimed)
         /\ claimed[slot].free = lists[slot].free /\ claimed[slot].key = size + 1
<1>1. /\ claimed \in FreeLists /\ claimed[slot].key = size + 1
      /\ \A s \in 0 .. Slots - 1 : /\ claimed[s].free = lists[s].free
                                   /\ s # slot => claimed[s] = lists[s]
  BY DEF Changes
<1>2. \A s \in 0 .. Slots - 1 : FreeOn(claimed, s) = FreeOn(lists, s)
  BY <1>1 DEF FreeOn
<1>3. ASSUME NEW i \in FreeOn(lists, slot)
      PROVE  lists[slot].key = size + 1
  <2>1. header[lists[slot].free[i]] \in Nat /\ header[lists[slot].free[i]] = lists[slot].key - 1
    BY DEF IsFreed
  <2> QED
    BY <2>1
<1>4. ASSUME NEW s \in 0 .. Slots - 1, NEW i \in FreeOn(claimed, s)
      PROVE  /\ claimed[s].free[i] \in DOMAIN header /\ claimed[s].free[i] \notin DOMAIN live
             /\ header[claimed[s].free[i]] = claimed[s].key - 1
  <2>1. claimed[s].key = lists[s].key /\ claimed[s].free = lists[s].free /\ i \in FreeOn(lists, s)
    BY <1>1, <1>2, <1>3
  <2> QED
    BY <2>1 DEF IsFreed
<1>5. IsFreed(header, live, claimed)
  BY <1>1, <1>2, <1>4 DEF IsFreed
<1> QED
  BY <1>1, <1>5

(* The first address of a list is allocated again.                           *)
LEMMA PoppedList ==
  ASSUME NEW header, NEW live, NEW lists \in FreeLists, IsFreed(header, live, lists),
         NEW slot \in 0 .. Slots - 1, lists[slot].free # <<>>,
         NEW used, DOMAIN used = DOMAIN live \cup {Head(lists[slot].free)},
         NEW popped,
         Changes(lists, slot, lists[slot].key, Tail(lists[slot].free), popped)
  PROVE  /\ popped \in FreeLists /\ IsFreed(header, used, popped)
         /\ Head(lists[slot].free) \in DOMAIN header
         /\ header[Head(lists[slot].free)] = lists[slot].key - 1
<1> DEFINE free == lists[slot].free
<1>1. free \in Seq(Nat) /\ free # <<>>
  BY DEF FreeLists
<1>2. /\ Tail(free) \in Seq(Nat) /\ Len(Tail(free)) = Len(free) - 1 /\ Len(free) \in Nat
      /\ \A i \in 1 .. Len(Tail(free)) : Tail(free)[i] = free[i + 1]
      /\ Head(free) = free[1] /\ Len(free) # 0
  <2> HIDE DEF free
  <2>1. /\ Tail(free) \in Seq(Nat) /\ Len(Tail(free)) = Len(free) - 1
        /\ \A i \in 1 .. Len(Tail(free)) : Tail(free)[i] = free[i + 1]
    BY <1>1, HeadTailProperties
  <2>2. Len(free) \in Nat /\ Head(free) = free[1] /\ Len(free) # 0
    BY <1>1
  <2> QED
    BY <2>1, <2>2
<1>3. /\ popped \in FreeLists /\ popped[slot].free = Tail(free)
      /\ \A s \in 0 .. Slots - 1 : /\ popped[s].key = lists[s].key
                                   /\ s # slot => popped[s] = lists[s]
  BY DEF Changes
<1>4. \A i \in FreeOn(popped, slot) :
        i + 1 \in FreeOn(lists, slot) /\ i + 1 # 1 /\ popped[slot].free[i] = free[i + 1] /\ i \in Nat
  <2> HIDE DEF free
  <2>1. \A i \in 1 .. Len(Tail(free)) : i + 1 \in 1 .. Len(free) /\ i + 1 # 1 /\ i \in Nat
    BY <1>2
  <2> QED
    BY <1>2, <1>3, <2>1 DEF FreeOn, free
<1>5. 1 \in FreeOn(lists, slot)
  BY <1>2 DEF FreeOn
(* Each address still on a list was on it before, and was not the first.     *)
<1>6. ASSUME NEW s \in 0 .. Slots - 1, NEW i \in FreeOn(popped, s)
      PROVE  \E j \in FreeOn(lists, s) :
               /\ popped[s].free[i] = lists[s].free[j] /\ (s = slot => j = i + 1)
               /\ s # slot => j = i
               /\ lists[s].free[j] # free[1]
  <2>1. CASE s = slot
    <3>1. i + 1 \in FreeOn(lists, slot) /\ popped[s].free[i] = free[i + 1] /\ i + 1 # 1
      BY <1>4, <2>1
    <3>2. free[i + 1] # free[1]
      BY <1>5, <3>1 DEF IsFreed
    <3> QED
      BY <2>1, <3>1, <3>2
  <2>2. CASE s # slot
    <3>1. popped[s] = lists[s] /\ i \in FreeOn(lists, s)
      BY <1>3, <2>2 DEF FreeOn
    <3>2. lists[s].free[i] # free[1]
      BY <1>5, <2>2, <3>1 DEF IsFreed
    <3> QED
      BY <2>2, <3>1, <3>2
  <2> QED
    BY <2>1, <2>2
<1>7. ASSUME NEW s \in 0 .. Slots - 1, NEW i \in FreeOn(popped, s)
      PROVE  /\ popped[s].free[i] \in DOMAIN header /\ popped[s].free[i] \notin DOMAIN used
             /\ header[popped[s].free[i]] = popped[s].key - 1
  <2>1. PICK j \in FreeOn(lists, s) :
          popped[s].free[i] = lists[s].free[j] /\ lists[s].free[j] # free[1]
    BY <1>6
  <2>2. /\ lists[s].free[j] \in DOMAIN header /\ lists[s].free[j] \notin DOMAIN live
        /\ header[lists[s].free[j]] = lists[s].key - 1
    BY DEF IsFreed
  <2> QED
    BY <1>2, <1>3, <2>1, <2>2
<1>8. ASSUME NEW s \in 0 .. Slots - 1, NEW i \in FreeOn(popped, s), NEW j \in FreeOn(popped, s),
             popped[s].free[i] = popped[s].free[j]
      PROVE  i = j
  <2>1. PICK a \in FreeOn(lists, s) :
          popped[s].free[i] = lists[s].free[a] /\ (s = slot => a = i + 1) /\ (s # slot => a = i)
    BY <1>6
  <2>2. PICK b \in FreeOn(lists, s) :
          popped[s].free[j] = lists[s].free[b] /\ (s = slot => b = j + 1) /\ (s # slot => b = j)
    BY <1>6
  <2>3. a = b
    BY <1>8, <2>1, <2>2 DEF IsFreed
  <2>4. s = slot => i \in Nat /\ j \in Nat
    BY <1>4
  <2> QED
    BY <2>1, <2>2, <2>3, <2>4
<1>9. ASSUME NEW s \in 0 .. Slots - 1, NEW r \in 0 .. Slots - 1,
             NEW i \in FreeOn(popped, s), NEW j \in FreeOn(popped, r),
             popped[s].free[i] = popped[r].free[j]
      PROVE  s = r
  BY <1>6, <1>9 DEF IsFreed
<1>10. IsFreed(header, used, popped)
  BY <1>7, <1>8, <1>9 DEF IsFreed
<1>11. Head(free) \in DOMAIN header /\ header[Head(free)] = lists[slot].key - 1
  BY <1>2, <1>5 DEF IsFreed
<1> QED
  BY <1>3, <1>10, <1>11

(* A freed address goes onto the list of its size.                           *)
LEMMA PushedList ==
  ASSUME NEW header, NEW live, NEW lists \in FreeLists, IsFreed(header, live, lists),
         \A a \in DOMAIN header : header[a] \in Nat, DOMAIN live \subseteq DOMAIN header,
         NEW slot \in 0 .. Slots - 1, NEW address \in DOMAIN live, address \in Nat,
         lists[slot].key \in {0, header[address] + 1},
         NEW left, DOMAIN left = DOMAIN live \ {address}
  PROVE  LET pushed == [lists EXCEPT ![slot] = [key |-> header[address] + 1,
                                                free |-> <<address>> \o @.free]]
         IN pushed \in FreeLists /\ IsFreed(header, left, pushed)
<1> DEFINE free == lists[slot].free
           more == <<address>> \o free
           pushed == [lists EXCEPT ![slot] = [key |-> header[address] + 1,
                                              free |-> <<address>> \o @.free]]
<1>1. free \in Seq(Nat) /\ Len(free) \in Nat
  BY DEF FreeLists
<1>2. /\ more \in Seq(Nat) /\ Len(more) = Len(free) + 1 /\ more[1] = address
      /\ \A i \in 1 .. Len(free) + 1 : i # 1 => more[i] = free[i - 1]
  <2> HIDE DEF free
  <2>1. <<address>> \in Seq(Nat) /\ Len(<<address>>) = 1 /\ <<address>>[1] = address
    OBVIOUS
  <2>2. /\ more \in Seq(Nat) /\ Len(more) = 1 + Len(free)
        /\ \A i \in 1 .. 1 + Len(free) : more[i] = IF i <= 1 THEN <<address>>[i] ELSE free[i - 1]
    BY <1>1, <2>1, ConcatProperties
  <2> HIDE DEF more
  <2>3. Len(free) + 1 = 1 + Len(free) /\ 1 \in 1 .. 1 + Len(free) /\ 1 <= 1
    BY <1>1
  <2>4. more[1] = address
    BY <2>1, <2>2, <2>3
  <2>5. ASSUME NEW i \in 1 .. 1 + Len(free), i # 1
        PROVE  more[i] = free[i - 1]
    <3>1. ~ (i <= 1)
      BY <1>1, <2>5
    <3> QED
      BY <2>2, <3>1
  <2> QED
    BY <2>2, <2>3, <2>4, <2>5, Zenon
<1> HIDE DEF more
<1>3. /\ pushed \in FreeLists /\ pushed[slot].free = more /\ pushed[slot].key = header[address] + 1
      /\ \A s \in 0 .. Slots - 1 : s # slot => pushed[s] = lists[s]
  <2>1. header[address] + 1 \in Nat
    OBVIOUS
  <2>2. pushed = [lists EXCEPT ![slot] = [key |-> header[address] + 1, free |-> more]]
    BY DEF more, free
  <2> HIDE DEF pushed
  <2> QED
    BY <1>2, <2>1, <2>2 DEF FreeLists
<1> HIDE DEF pushed
<1>4. ASSUME NEW i \in FreeOn(lists, slot)
      PROVE  lists[slot].key = header[address] + 1
  <2>1. header[lists[slot].free[i]] \in Nat /\ header[lists[slot].free[i]] = lists[slot].key - 1
    BY DEF IsFreed
  <2> QED
    BY <2>1
(* Each address on a list is the freed one, or was on the list before.       *)
<1>5. ASSUME NEW s \in 0 .. Slots - 1, NEW i \in FreeOn(pushed, s)
      PROVE  \/ s = slot /\ i = 1 /\ pushed[s].free[i] = address
             \/ \E j \in FreeOn(lists, s) :
                  /\ pushed[s].free[i] = lists[s].free[j] /\ lists[s].free[j] # address
                  /\ pushed[s].key = lists[s].key
                  /\ (s = slot => j = i - 1 /\ i \in Nat) /\ (s # slot => j = i)
  <2>1. CASE s = slot /\ i = 1
    BY <1>2, <1>3, <2>1
  <2>2. CASE s = slot /\ i # 1
    <3>1. i \in 1 .. Len(free) + 1
      BY <1>2, <1>3, <2>2 DEF FreeOn
    <3>2. i - 1 \in 1 .. Len(free) /\ i \in Nat
      <4> HIDE DEF free
      <4> QED
        BY <1>1, <2>2, <3>1
    <3>3. i - 1 \in FreeOn(lists, slot) /\ pushed[s].free[i] = free[i - 1]
      BY <1>2, <1>3, <2>2, <3>1, <3>2 DEF FreeOn
    <3>4. free[i - 1] # address /\ pushed[s].key = lists[s].key
      BY <1>3, <1>4, <2>2, <3>3 DEF IsFreed
    <3> QED
      BY <2>2, <3>2, <3>3, <3>4
  <2>3. CASE s # slot
    <3>1. pushed[s] = lists[s] /\ i \in FreeOn(lists, s)
      BY <1>3, <2>3 DEF FreeOn
    <3>2. lists[s].free[i] # address
      BY <3>1 DEF IsFreed
    <3> QED
      BY <2>3, <3>1, <3>2
  <2> QED
    BY <2>1, <2>2, <2>3
<1>6. ASSUME NEW s \in 0 .. Slots - 1, NEW i \in FreeOn(pushed, s)
      PROVE  /\ pushed[s].free[i] \in DOMAIN header /\ pushed[s].free[i] \notin DOMAIN left
             /\ header[pushed[s].free[i]] = pushed[s].key - 1
  <2>1. CASE s = slot /\ i = 1 /\ pushed[s].free[i] = address
    <3>1. header[address] \in Nat /\ header[address] = header[address] + 1 - 1
      OBVIOUS
    <3> QED
      BY <1>3, <2>1, <3>1
  <2>2. CASE \E j \in FreeOn(lists, s) :
               pushed[s].free[i] = lists[s].free[j] /\ pushed[s].key = lists[s].key
    BY <2>2 DEF IsFreed
  <2> QED
    BY <1>5, <2>1, <2>2
<1>7. ASSUME NEW s \in 0 .. Slots - 1, NEW i \in FreeOn(pushed, s), NEW j \in FreeOn(pushed, s),
             pushed[s].free[i] = pushed[s].free[j]
      PROVE  i = j
  <2>1. CASE i = 1 /\ s = slot
    <3>1. pushed[s].free[i] = address
      BY <1>2, <1>3, <2>1
    <3>2. \/ s = slot /\ j = 1
          \/ pushed[s].free[j] # address
      BY <1>5
    <3> QED
      BY <1>7, <2>1, <3>1, <3>2
  <2>2. CASE j = 1 /\ s = slot
    <3>1. pushed[s].free[j] = address
      BY <1>2, <1>3, <2>2
    <3>2. \/ s = slot /\ i = 1
          \/ pushed[s].free[i] # address
      BY <1>5
    <3> QED
      BY <1>7, <2>2, <3>1, <3>2
  <2>3. CASE ~ (i = 1 /\ s = slot) /\ ~ (j = 1 /\ s = slot)
    <3>1. PICK a \in FreeOn(lists, s) : /\ pushed[s].free[i] = lists[s].free[a]
                                        /\ (s = slot => a = i - 1 /\ i \in Nat) /\ (s # slot => a = i)
      BY <1>5, <2>3
    <3>2. PICK b \in FreeOn(lists, s) : /\ pushed[s].free[j] = lists[s].free[b]
                                        /\ (s = slot => b = j - 1 /\ j \in Nat) /\ (s # slot => b = j)
      BY <1>5, <2>3
    <3>3. a = b
      BY <1>7, <3>1, <3>2 DEF IsFreed
    <3> QED
      BY <3>1, <3>2, <3>3
  <2> QED
    BY <2>1, <2>2, <2>3
<1>8. ASSUME NEW s \in 0 .. Slots - 1, NEW r \in 0 .. Slots - 1,
             NEW i \in FreeOn(pushed, s), NEW j \in FreeOn(pushed, r),
             pushed[s].free[i] = pushed[r].free[j]
      PROVE  s = r
  BY <1>5, <1>8 DEF IsFreed
<1>9. IsFreed(header, left, pushed)
  BY <1>6, <1>7, <1>8 DEF IsFreed
<1> QED
  BY <1>3, <1>9 DEF pushed

-----------------------------------------------------------------------------
(* The calls of the allocator keep a memory sound.                           *)
(* A new address is on no list.                                              *)
LEMMA FreedStay ==
  ASSUME NEW header, NEW live, NEW lists, IsFreed(header, live, lists), NEW more, NEW given,
         \A b \in DOMAIN header : b \in DOMAIN more /\ more[b] = header[b],
         \A b \in DOMAIN header : b \in DOMAIN given => b \in DOMAIN live
  PROVE  IsFreed(more, given, lists)
<1>1. ASSUME NEW s \in 0 .. Slots - 1, NEW i \in FreeOn(lists, s)
      PROVE  /\ lists[s].free[i] \in DOMAIN more /\ lists[s].free[i] \notin DOMAIN given
             /\ more[lists[s].free[i]] = lists[s].key - 1
  <2>1. /\ lists[s].free[i] \in DOMAIN header /\ lists[s].free[i] \notin DOMAIN live
        /\ header[lists[s].free[i]] = lists[s].key - 1
    BY DEF IsFreed
  <2> QED
    BY <2>1
<1> QED
  BY <1>1 DEF IsFreed

(* An allocation that finds nothing free takes the next address.             *)
LEMMA NewAddressIsSound ==
  ASSUME NEW m, IsMemory(m), NEW size \in Nat, NEW taken,
         DOMAIN taken = DOMAIN m, taken.next = m.next + 1,
         taken.live = [a \in DOMAIN m.live \cup {m.next} |-> IF a = m.next THEN size ELSE m.live[a]],
         taken.header = Append(m.header, size),
         taken.lists \in FreeLists, IsFreed(m.header, m.live, taken.lists)
  PROVE  IsMemory(taken)
<1>1. /\ m.next \in Nat \ {0} /\ DOMAIN m.header = 1 .. m.next - 1
      /\ \A a \in DOMAIN m.header : m.header[a] \in Nat
      /\ Holds(m.header, m.live)
  BY AddressesAreNumbered DEF IsMemory
<1>2. m.next \notin DOMAIN m.header
  BY <1>1
<1>3. /\ DOMAIN taken.live = DOMAIN m.live \cup {m.next} /\ taken.live[m.next] = size
      /\ \A b \in DOMAIN m.live : b # m.next => taken.live[b] = m.live[b]
  OBVIOUS
<1>4. /\ DOMAIN taken.header = DOMAIN m.header \cup {m.next} /\ taken.header[m.next] = size
      /\ \A b \in DOMAIN m.header : taken.header[b] = m.header[b]
  <2>1. /\ m.header \in Seq(Nat) /\ m.next = Len(m.header) + 1
        /\ taken.header = Append(m.header, size)
    BY DEF IsMemory
  <2>2. /\ taken.header \in Seq(Nat) /\ Len(taken.header) = Len(m.header) + 1
        /\ \A i \in 1 .. Len(m.header) : taken.header[i] = m.header[i]
        /\ taken.header[Len(m.header) + 1] = size
    BY <2>1, AppendProperties
  <2> QED
    BY <2>1, <2>2
<1>5. Holds(taken.header, taken.live)
  <2>1. /\ m.next \in DOMAIN taken.header /\ size <= taken.header[m.next]
        /\ \A b \in DOMAIN m.header : b \in DOMAIN taken.header /\ taken.header[b] = m.header[b]
    BY <1>4
  <2>2. Holds(m.header, m.live)
    BY <1>1
  <2> QED
    BY <1>3, <2>1, <2>2 DEF Holds
<1>6. IsFreed(taken.header, taken.live, taken.lists)
  <2>1. \A b \in DOMAIN m.header : b \in DOMAIN taken.header /\ taken.header[b] = m.header[b]
    BY <1>4
  <2>2. \A b \in DOMAIN m.header : b \in DOMAIN taken.live => b \in DOMAIN m.live
    BY <1>2, <1>3
  <2> QED
    <3> DEFINE more == taken.header
               given == taken.live
               lists == taken.lists
    <3>1. IsFreed(m.header, m.live, lists)
      OBVIOUS
    <3> HIDE DEF more, given, lists
    <3>2. IsFreed(more, given, lists)
      BY <2>1, <2>2, <3>1, FreedStay DEF more, given
    <3> QED
      BY <3>2 DEF more, given, lists
<1>7. /\ taken.next \in Nat \ {0} /\ (1 .. m.next - 1) \cup {m.next} = 1 .. taken.next - 1
  BY <1>1
<1>8. DOMAIN taken.header = 1 .. taken.next - 1 /\ \A a \in DOMAIN taken.header : taken.header[a] \in Nat
  BY <1>1, <1>4, <1>7
<1>9. taken.header \in Seq(Nat) /\ taken.next = Len(taken.header) + 1
  <2>1. m.header \in Seq(Nat) /\ m.next = Len(m.header) + 1
    BY DEF IsMemory
  <2> QED
    BY <2>1, AppendProperties
<1>10. DOMAIN taken = {"len", "next", "live", "header", "lists"}
  BY DEF IsMemory
<1> QED
  BY <1>9, <1>10, <1>5, <1>6, <1>7, <1>8 DEF IsMemory

LEMMA TakeIsSound ==
  ASSUME NEW m, IsMemory(m), NEW size \in Nat
  PROVE  /\ IsMemory(Take(m, size))
         /\ DOMAIN m.live \subseteq DOMAIN Take(m, size).live
<1> DEFINE slot == FreeListSlot(m, size)
           address == TakenAddress(m, size)
           lists == [m.lists EXCEPT ![slot].key = size + 1]
           live == [a \in DOMAIN m.live \cup {address} |-> IF a = address THEN size ELSE m.live[a]]
           header == Append(m.header, size)
           taken == Take(m, size)
<1>1. /\ m.next \in Nat \ {0} /\ DOMAIN m.header = 1 .. m.next - 1
      /\ \A a \in DOMAIN m.header : m.header[a] \in Nat
      /\ Holds(m.header, m.live) /\ m.lists \in FreeLists /\ IsFreed(m.header, m.live, m.lists)
      /\ DOMAIN m = {"len", "next", "live", "header", "lists"}
      /\ m.header \in Seq(Nat) /\ m.next = Len(m.header) + 1
  BY AddressesAreNumbered DEF IsMemory
<1>2. \/ slot = -1
      \/ slot \in 0 .. Slots - 1 /\ m.lists[slot].key \in {0, size + 1}
  BY SlotIsRight
<1>3. address = IF slot >= 0 /\ m.lists[slot].free # <<>> THEN Head(m.lists[slot].free) ELSE m.next
  BY DEF TakenAddress
<1>4. taken = LET claimed == IF slot < 0 THEN m ELSE [m EXCEPT !.lists[slot].key = size + 1]
                  given   == [claimed EXCEPT !.live =
                                [a \in DOMAIN @ \cup {address} |-> IF a = address THEN size ELSE @[a]]]
              IN  IF address # m.next THEN [given EXCEPT !.lists[slot].free = Tail(@)]
                  ELSE [given EXCEPT !.next = @ + 1, !.len = @ + HeaderLen + size,
                                     !.header = Append(@, size)]
  BY DEF Take
<1>5. /\ DOMAIN live = DOMAIN m.live \cup {address} /\ live[address] = size
      /\ \A b \in DOMAIN m.live : b # address => live[b] = m.live[b]
  OBVIOUS
<1> HIDE DEF slot, address, live, header, taken, lists
<1>6. CASE slot = -1
  <2>1. address = m.next /\ slot < 0
    BY <1>3, <1>6
  <2>2. /\ DOMAIN taken = DOMAIN m /\ taken.next = m.next + 1 /\ taken.live = live
        /\ taken.header = header /\ taken.lists = m.lists
    BY <1>1, <1>4, <2>1 DEF live, header
  <2>3. IsMemory(taken)
    BY <1>1, <2>1, <2>2, NewAddressIsSound DEF live, header
  <2> QED
    BY <1>5, <2>2, <2>3 DEF taken
<1>7. CASE slot \in 0 .. Slots - 1 /\ m.lists[slot].key \in {0, size + 1}
  <2>1. slot >= 0 /\ ~ (slot < 0)
    BY <1>7, HighlightAssumption
  <2>2. /\ lists \in FreeLists /\ IsFreed(m.header, m.live, lists)
        /\ lists[slot].free = m.lists[slot].free /\ lists[slot].key = size + 1
    <3>1. /\ slot \in 0 .. Slots - 1 /\ m.lists[slot].key \in {0, size + 1}
          /\ m.lists \in FreeLists /\ IsFreed(m.header, m.live, m.lists)
          /\ \A a \in DOMAIN m.header : m.header[a] \in Nat
      BY <1>1, <1>7
    <3>2. Changes(m.lists, slot, size + 1, m.lists[slot].free, lists)
      <4>1. size + 1 \in Nat
        OBVIOUS
      <4> QED
        BY <3>1, <4>1, ChangedKey, Zenon DEF lists
    <3>3. /\ lists \in FreeLists /\ lists[slot].free = m.lists[slot].free
          /\ lists[slot].key = size + 1
      BY <3>2 DEF Changes
    <3> QED
      BY <3>1, <3>2, <3>3, ClaimedList, Zenon
  <2>3. CASE m.lists[slot].free # <<>>
    <3> DEFINE popped == [lists EXCEPT ![slot].free = Tail(@)]
    <3>1. address = Head(lists[slot].free)
      BY <1>3, <2>1, <2>2, <2>3
    <3>2. /\ popped \in FreeLists /\ IsFreed(m.header, live, popped)
          /\ address \in DOMAIN m.header /\ m.header[address] = size + 1 - 1
      <4>1. lists[slot].free # <<>> /\ DOMAIN live = DOMAIN m.live \cup {Head(lists[slot].free)}
        BY <1>5, <2>2, <2>3, <3>1
      <4>2. /\ popped \in FreeLists /\ IsFreed(m.header, live, popped)
            /\ Head(lists[slot].free) \in DOMAIN m.header
            /\ m.header[Head(lists[slot].free)] = lists[slot].key - 1
        <5>1. slot \in 0 .. Slots - 1
          BY <1>7
        <5>2. Changes(lists, slot, lists[slot].key, Tail(lists[slot].free), popped)
          <6>1. lists[slot].free \in Seq(Nat) /\ lists[slot].free # <<>>
            BY <2>2, <4>1, <5>1 DEF FreeLists
          <6>2. Tail(lists[slot].free) \in Seq(Nat)
            BY <6>1, HeadTailProperties
          <6> QED
            BY <2>2, <5>1, <6>2, ChangedFree, Zenon
        <5> HIDE DEF popped
        <5> QED
          <6>1. IsFreed(m.header, m.live, lists) /\ lists \in FreeLists
            BY <2>2, Zenon
          <6>2. IsFreed(m.header, live, popped)
            BY <5>1, <5>2, <4>1, <6>1, PoppedList, Zenon
          <6>3. popped \in FreeLists
            BY <5>2 DEF Changes
          <6>4. Head(lists[slot].free) \in DOMAIN m.header
            BY <5>1, <5>2, <4>1, <6>1, PoppedList, Zenon
          <6>5. m.header[Head(lists[slot].free)] = lists[slot].key - 1
            <7>1. lists[slot].free \in Seq(Nat) /\ lists[slot].free # <<>>
              BY <4>1, <5>1, <6>1 DEF FreeLists
            <7>2. 1 \in 1 .. Len(lists[slot].free) /\ Head(lists[slot].free) = lists[slot].free[1]
              BY <7>1
            <7> QED
              BY <5>1, <6>1, <7>2 DEF IsFreed, FreeOn
          <6> QED
            BY <6>2, <6>3, <6>4, <6>5
      <4> QED
        BY <2>2, <3>1, <4>2
    <3>3. address # m.next /\ size <= m.header[address]
      <4>1. m.header[address] = size /\ size <= size
        BY <3>2
      <4>2. m.next \notin DOMAIN m.header
        BY <1>1
      <4>3. address # m.next
        BY <3>2, <4>2, Zenon
      <4>4. size <= m.header[address]
        BY <4>1, Zenon
      <4> QED
        BY <4>3, <4>4
    <3>4. /\ DOMAIN taken = DOMAIN m /\ taken.next = m.next /\ taken.live = live
          /\ taken.header = m.header /\ taken.lists = popped
      BY <1>1, <1>4, <2>1, <3>3 DEF live, lists
    <3> HIDE DEF popped
    <3>5. Holds(m.header, live)
      <4>1. address \in DOMAIN m.header /\ Holds(m.header, m.live)
        BY <1>1, <3>2
      <4> QED
        BY <1>5, <3>3, <4>1 DEF Holds
    <3>6. IsMemory(taken)
      BY <1>1, <3>2, <3>4, <3>5 DEF IsMemory
    <3> QED
      BY <1>5, <3>4, <3>6 DEF taken
  <2>4. CASE m.lists[slot].free = <<>>
    <3>1. address = m.next
      BY <1>3, <2>4
    <3>2. /\ DOMAIN taken = DOMAIN m /\ taken.next = m.next + 1 /\ taken.live = live
          /\ taken.header = header /\ taken.lists = lists
      BY <1>1, <1>4, <2>1, <3>1 DEF live, header, lists
    <3>3. IsMemory(taken)
      BY <2>2, <3>1, <3>2, NewAddressIsSound, Zenon DEF live, header
    <3> QED
      BY <1>5, <3>2, <3>3 DEF taken
  <2> QED
    BY <2>3, <2>4
<1> QED
  BY <1>2, <1>6, <1>7

LEMMA GiveIsSound ==
  ASSUME NEW m, IsMemory(m), NEW address \in DOMAIN m.live
  PROVE  IsMemory(Give(m, address))
<1> DEFINE size == m.header[address]
           slot == FreeListSlot(m, size)
           left == Restrict(m.live, DOMAIN m.live \ {address})
           pushed == [m.lists EXCEPT ![slot] = [key |-> size + 1, free |-> <<address>> \o @.free]]
           given == Give(m, address)
<1>1. /\ m.next \in Nat \ {0} /\ DOMAIN m.header = 1 .. m.next - 1
      /\ \A a \in DOMAIN m.header : m.header[a] \in Nat
      /\ Holds(m.header, m.live) /\ m.lists \in FreeLists /\ IsFreed(m.header, m.live, m.lists)
      /\ DOMAIN m = {"len", "next", "live", "header", "lists"}
      /\ m.header \in Seq(Nat) /\ m.next = Len(m.header) + 1
  BY AddressesAreNumbered DEF IsMemory
<1>2. address \in DOMAIN m.header /\ size \in Nat /\ address \in Nat /\ DOMAIN m.live \subseteq DOMAIN m.header
  BY <1>1 DEF Holds
<1>3. \/ slot = -1
      \/ slot \in 0 .. Slots - 1 /\ m.lists[slot].key \in {0, size + 1}
  BY <1>2, SlotIsRight
<1>4. given = LET gone == [m EXCEPT !.live = Restrict(@, DOMAIN @ \ {address})]
              IN  IF slot < 0 THEN gone
                  ELSE [gone EXCEPT !.lists[slot] = [key |-> size + 1, free |-> <<address>> \o @.free]]
  BY DEF Give
<1>5. /\ DOMAIN left = DOMAIN m.live \ {address}
      /\ \A b \in DOMAIN left : left[b] = m.live[b]
  BY DEF Restrict
<1>6. Holds(m.header, left)
  <2> HIDE DEF left
  <2> QED
    BY <1>1, <1>5 DEF Holds
<1> HIDE DEF left, given, slot
<1>7. CASE slot = -1
  <2>1. slot < 0
    BY <1>7
  <2>2. /\ DOMAIN given = DOMAIN m /\ given.next = m.next /\ given.live = left
        /\ given.header = m.header /\ given.lists = m.lists
    BY <1>1, <1>4, <2>1 DEF left
  <2>3. IsFreed(m.header, left, m.lists)
    BY <1>1, <1>5, FreedStay
  <2> QED
    BY <1>1, <1>6, <2>2, <2>3 DEF IsMemory, given
<1>8. CASE slot \in 0 .. Slots - 1 /\ m.lists[slot].key \in {0, size + 1}
  <2>1. ~ (slot < 0)
    BY <1>8, HighlightAssumption
  <2>2. pushed \in FreeLists /\ IsFreed(m.header, left, pushed)
    BY <1>1, <1>2, <1>5, <1>8, PushedList, Zenon
  <2>3. /\ DOMAIN given = DOMAIN m /\ given.next = m.next /\ given.live = left
        /\ given.header = m.header /\ given.lists = pushed
    BY <1>1, <1>4, <2>1 DEF left
  <2> HIDE DEF pushed
  <2> QED
    BY <1>1, <1>6, <2>2, <2>3 DEF IsMemory, given
<1> QED
  BY <1>3, <1>7, <1>8

LEMMA ResizeIsSound ==
  ASSUME NEW m, IsMemory(m), NEW address \in DOMAIN m.live, NEW size \in Nat
  PROVE  IsMemory(Resize(m, address, size))
<1> DEFINE resized == [m EXCEPT !.live[address] = size]
<1>1. CASE size <= m.header[address]
  <2>1. /\ DOMAIN resized = DOMAIN m /\ resized.next = m.next
        /\ resized.live = [m.live EXCEPT ![address] = size]
        /\ resized.header = m.header /\ resized.lists = m.lists
    BY DEF IsMemory
  <2>2. Resize(m, address, size) = resized
    BY <1>1 DEF Resize
  <2> HIDE DEF resized
  <2>3. /\ DOMAIN resized.live = DOMAIN m.live /\ resized.live[address] = size
        /\ \A b \in DOMAIN m.live : b # address => resized.live[b] = m.live[b]
    BY <2>1
  <2>4. Holds(m.header, resized.live)
    BY <1>1, <2>3 DEF IsMemory, Holds
  <2>5. IsFreed(m.header, resized.live, m.lists)
    BY <2>3 DEF IsMemory, IsFreed
  <2> QED
    BY <2>1, <2>2, <2>4, <2>5 DEF IsMemory
<1>2. CASE ~ (size <= m.header[address])
  <2>1. Resize(m, address, size) = Give(Take(m, size), address)
    BY <1>2 DEF Resize
  <2>2. IsMemory(Take(m, size)) /\ address \in DOMAIN Take(m, size).live
    BY TakeIsSound
  <2> QED
    BY <2>1, <2>2, GiveIsSound, Zenon
<1> QED
  BY <1>1, <1>2

LEMMA MemoryCallIsSound ==
  ASSUME NEW m, IsMemory(m), NEW called \in MemoryCalls(m)
  PROVE  IsMemory(called)
<1>1. Sizes \subseteq Nat
  BY HighlightAssumption
<1>2. CASE \E size \in Sizes : called = Take(m, size)
  BY <1>1, <1>2, TakeIsSound
<1>3. CASE \E address \in DOMAIN m.live : called = Give(m, address)
  BY <1>3, GiveIsSound
<1>4. CASE \E address \in DOMAIN m.live, size \in Sizes : called = Resize(m, address, size)
  BY <1>1, <1>4, ResizeIsSound
<1> QED
  BY <1>2, <1>3, <1>4 DEF MemoryCalls

(* A list without repetitions has as many addresses as entries.              *)
LEMMA EachIsListedOnce ==
  ASSUME NEW free \in Seq(Nat), \A i, j \in 1 .. Len(free) : free[i] = free[j] => i = j
  PROVE  Cardinality(ToSet(free)) = Len(free)
<1>1. Len(free) \in Nat /\ DOMAIN free = 1 .. Len(free)
  OBVIOUS
<1>2. free \in [1 .. Len(free) -> ToSet(free)]
  BY <1>1 DEF ToSet
<1>3. free \in Bijection(1 .. Len(free), ToSet(free))
  BY <1>1, <1>2 DEF Bijection, Injection, Surjection, IsInjective, ToSet
<1>4. ExistsBijection(1 .. Len(free), ToSet(free))
  BY <1>3 DEF ExistsBijection
<1> QED
  BY <1>1, <1>4, FS_CountingElements

LEMMA MemoryIsWhatItHolds ==
  ASSUME NEW m, IsMemory(m)
  PROVE  /\ \A a \in DOMAIN m.live : m.live[a] <= m.header[a]
         /\ \A s \in DOMAIN m.lists : \A a \in ToSet(m.lists[s].free) :
              a \notin DOMAIN m.live /\ m.header[a] = m.lists[s].key - 1
         /\ \A s \in DOMAIN m.lists : Cardinality(ToSet(m.lists[s].free)) = Len(m.lists[s].free)
         /\ \A s, r \in DOMAIN m.lists :
              s # r => ToSet(m.lists[s].free) \cap ToSet(m.lists[r].free) = {}
<1> DEFINE lists == m.lists
<1>1. /\ Holds(m.header, m.live) /\ lists \in FreeLists /\ IsFreed(m.header, m.live, lists)
  BY DEF IsMemory
<1> HIDE DEF lists
<1>2. /\ DOMAIN lists = 0 .. Slots - 1
      /\ \A s \in DOMAIN lists : lists[s].free \in Seq(Nat) /\ DOMAIN lists[s].free = FreeOn(lists, s)
  BY <1>1 DEF FreeLists, FreeOn
<1>3. ASSUME NEW s \in DOMAIN lists, NEW a \in ToSet(lists[s].free)
      PROVE  \E i \in FreeOn(lists, s) : a = lists[s].free[i]
  BY <1>2 DEF ToSet
<1>4. \A a \in DOMAIN m.live : m.live[a] <= m.header[a]
  BY <1>1 DEF Holds
<1>5. ASSUME NEW s \in DOMAIN lists, NEW a \in ToSet(lists[s].free)
      PROVE  a \notin DOMAIN m.live /\ m.header[a] = lists[s].key - 1
  <2>1. PICK i \in FreeOn(lists, s) : a = lists[s].free[i]
    BY <1>3
  <2> QED
    BY <1>1, <1>2, <2>1 DEF IsFreed
<1>6. ASSUME NEW s \in DOMAIN lists
      PROVE  Cardinality(ToSet(lists[s].free)) = Len(lists[s].free)
  <2>1. \A i, j \in 1 .. Len(lists[s].free) : lists[s].free[i] = lists[s].free[j] => i = j
    BY <1>1, <1>2 DEF IsFreed, FreeOn
  <2>2. lists[s].free \in Seq(Nat)
    BY <1>2
  <2> QED
    BY <2>1, <2>2, EachIsListedOnce, Zenon
<1>7. ASSUME NEW s \in DOMAIN lists, NEW r \in DOMAIN lists, s # r
      PROVE  ToSet(lists[s].free) \cap ToSet(lists[r].free) = {}
  <2> SUFFICES ASSUME NEW a \in ToSet(lists[s].free), a \in ToSet(lists[r].free) PROVE FALSE
    OBVIOUS
  <2>1. PICK i \in FreeOn(lists, s) : a = lists[s].free[i]
    BY <1>3
  <2>2. PICK j \in FreeOn(lists, r) : a = lists[r].free[j]
    BY <1>3
  <2> QED
    BY <1>1, <1>2, <1>7, <2>1, <2>2 DEF IsFreed
<1> QED
  BY <1>4, <1>5, <1>6, <1>7 DEF lists

-----------------------------------------------------------------------------
(* Where the allocator may serve a block: from the parser's first allocation *)
(* until the block's memory is let go.                                       *)
Served == Parsed \cup {"finish", "clear"}

MemoryInv ==
  /\ DOMAIN memory = Threads
  /\ \A t \in Threads : IsMemory(memory[t])
  /\ \A t \in Threads : DOMAIN memory[t].live # {} => t \in treeMemory
  /\ \A t \in Threads : t \in treeMemory => step[t] \in Served
  /\ \A t \in Threads : step[t] \in Parsed => t \in treeMemory

LEMMA InitMemory == Init => MemoryInv
<1> SUFFICES ASSUME Init PROVE MemoryInv
  OBVIOUS
<1>1. /\ memory = [t \in Threads |-> NewMemory(Slots)] /\ treeMemory = {}
      /\ \A t \in Threads : step[t] = "find"
  BY DEF Init
<1>2. \A t \in Threads : memory[t] = NewMemory(Slots)
  BY <1>1
<1>3. DOMAIN NewMemory(Slots).live = {}
  BY DEF NewMemory
<1>4. \A t \in Threads : IsMemory(memory[t]) /\ DOMAIN memory[t].live = {}
  BY <1>2, <1>3, NewMemoryIsSound, Zenon
<1> QED
  BY <1>1, <1>4 DEF MemoryInv, Parsed

(* One thread's step, by what it does to its memory and where it leads.      *)
LEMMA MemoryStep ==
  ASSUME MemoryInv, NEW t \in Threads, NEW m, IsMemory(m), NEW to, DOMAIN memory' = Threads,
         memory'[t] = m, step'[t] = to,
         \A u \in Threads \ {t} : memory'[u] = memory[u] /\ step'[u] = step[u],
         \A u \in Threads \ {t} : u \in treeMemory' <=> u \in treeMemory,
         DOMAIN m.live # {} => t \in treeMemory',
         t \in treeMemory' => to \in Served, to \in Parsed => t \in treeMemory'
  PROVE  MemoryInv'
<1>1. ASSUME NEW u \in Threads
      PROVE  /\ IsMemory(memory'[u])
             /\ DOMAIN memory'[u].live # {} => u \in treeMemory'
             /\ u \in treeMemory' => step'[u] \in Served
             /\ step'[u] \in Parsed => u \in treeMemory'
  <2>1. CASE u = t
    BY <2>1
  <2>2. CASE u # t
    BY <2>2, Zenon DEF MemoryInv
  <2> QED
    BY <2>1, <2>2
<1> QED
  BY <1>1, Zenon DEF MemoryInv

(* A step that leaves the memory and the allocator alone.                    *)
LEMMA MemoryStays ==
  ASSUME IInv, MemoryInv, NEW t \in Threads, UNCHANGED <<memory, treeMemory>>, NEW to,
         step' = [step EXCEPT ![t] = to],
         \/ step[t] \notin Served /\ to \notin Parsed
         \/ step[t] \in Parsed /\ to \in Served
         \/ to = step[t]
  PROVE  MemoryInv'
<1>1. DOMAIN step = Threads
  BY DEF IInv, QueriesAreCompiledOnce, TypeOK
<1>2. step'[t] = to /\ \A u \in Threads \ {t} : memory'[u] = memory[u] /\ step'[u] = step[u]
  BY <1>1
<1>3. /\ IsMemory(memory[t]) /\ DOMAIN memory' = Threads /\ memory'[t] = memory[t]
      /\ DOMAIN memory[t].live # {} => t \in treeMemory'
  BY DEF MemoryInv
<1>4. /\ t \in treeMemory' => to \in Served
      /\ to \in Parsed => t \in treeMemory'
  BY DEF MemoryInv, Served
<1>5. \A u \in Threads \ {t} : u \in treeMemory' <=> u \in treeMemory
  OBVIOUS
<1> QED
  BY <1>2, <1>3, <1>4, <1>5, MemoryStep

LEMMA OpenMemory ==
  ASSUME IInv, MemoryInv, NEW t \in Threads, Open(t)
  PROVE  MemoryInv'
<1> DEFINE size == CHOOSE size \in Sizes : TRUE
           m == Take(memory[t], size)
<1>1. size \in Nat
  BY HighlightAssumption
<1>2. IsMemory(memory[t]) /\ DOMAIN memory = Threads
  BY DEF MemoryInv
<1> HIDE DEF size
<1>3. IsMemory(m)
  BY <1>1, <1>2, TakeIsSound, Zenon
<1> HIDE DEF m
<1>4. /\ memory' = [memory EXCEPT ![t] = m] /\ treeMemory' = treeMemory \cup {t}
      /\ step' = [step EXCEPT ![t] = "parse"] /\ DOMAIN step = Threads
  BY DEF Open, GoTo, m, size, IInv, QueriesAreCompiledOnce, TypeOK
<1>5. /\ DOMAIN memory' = Threads /\ memory'[t] = m /\ step'[t] = "parse"
      /\ \A u \in Threads \ {t} : memory'[u] = memory[u] /\ step'[u] = step[u]
      /\ \A u \in Threads \ {t} : u \in treeMemory' <=> u \in treeMemory
      /\ t \in treeMemory' /\ "parse" \in Served
  BY <1>2, <1>4 DEF Served, Parsed
<1> QED
  BY <1>3, <1>5, MemoryStep

LEMMA AllocateMemory ==
  ASSUME IInv, MemoryInv, NEW t \in Threads, Allocate(t)
  PROVE  MemoryInv'
<1>1. PICK m \in MemoryCalls(memory[t]) : memory' = [memory EXCEPT ![t] = m]
  BY Zenon DEF Allocate
<1>2. IsMemory(memory[t]) /\ DOMAIN memory = Threads
  BY DEF MemoryInv
<1>3. IsMemory(m)
  BY <1>1, <1>2, MemoryCallIsSound, Zenon
<1>4. /\ step' = step /\ treeMemory' = treeMemory /\ step[t] \in Parsed /\ t \in treeMemory
  BY DEF Allocate, MemoryInv, Parsed
<1>5. /\ DOMAIN memory' = Threads /\ memory'[t] = m /\ step'[t] = step[t]
      /\ \A u \in Threads \ {t} : memory'[u] = memory[u] /\ step'[u] = step[u]
      /\ \A u \in Threads \ {t} : u \in treeMemory' <=> u \in treeMemory
      /\ t \in treeMemory' /\ step[t] \in Served
  BY <1>1, <1>2, <1>4 DEF Served
<1> QED
  BY <1>3, <1>5, MemoryStep

(* A memory without live allocations is as sound as it was.                  *)
LEMMA LetGo ==
  ASSUME NEW m, IsMemory(m)
  PROVE  LET gone == [m EXCEPT !.live = <<>>]
         IN IsMemory(gone) /\ DOMAIN gone.live = {}
<1> DEFINE gone == [m EXCEPT !.live = <<>>]
<1>1. /\ DOMAIN gone = DOMAIN m /\ gone.next = m.next /\ DOMAIN gone.live = {}
      /\ gone.header = m.header /\ gone.lists = m.lists
  BY DEF IsMemory
<1> HIDE DEF gone
<1>2. Holds(m.header, gone.live)
  BY <1>1 DEF Holds
<1>3. IsFreed(m.header, gone.live, m.lists)
  BY <1>1 DEF IsMemory, IsFreed
<1> QED
  BY <1>1, <1>2, <1>3 DEF IsMemory, gone

LEMMA FinishMemory ==
  ASSUME IInv, MemoryInv, NEW t \in Threads, Finish(t)
  PROVE  MemoryInv'
<1> DEFINE m == [memory[t] EXCEPT !.live = <<>>]
<1>1. IsMemory(memory[t]) /\ DOMAIN memory = Threads
  BY DEF MemoryInv
<1>2. IsMemory(m) /\ DOMAIN m.live = {}
  BY <1>1, LetGo, Zenon
<1>3. /\ memory' = [memory EXCEPT ![t] = m] /\ treeMemory' = treeMemory
      /\ step' = [step EXCEPT ![t] = "clear"] /\ DOMAIN step = Threads
  BY DEF Finish, GoTo, IInv, QueriesAreCompiledOnce, TypeOK
<1> HIDE DEF m
<1>4. /\ DOMAIN memory' = Threads /\ memory'[t] = m /\ step'[t] = "clear"
      /\ \A u \in Threads \ {t} : memory'[u] = memory[u] /\ step'[u] = step[u]
      /\ \A u \in Threads \ {t} : u \in treeMemory' <=> u \in treeMemory
      /\ "clear" \in Served /\ "clear" \notin Parsed
  BY <1>1, <1>3 DEF Served, Parsed
<1> QED
  BY <1>2, <1>4, MemoryStep

LEMMA ClearMemory ==
  ASSUME IInv, MemoryInv, NEW t \in Threads, Clear(t)
  PROVE  MemoryInv'
<1> DEFINE m == NewMemory(Slots)
<1>1. IsMemory(m) /\ DOMAIN memory = Threads
  BY NewMemoryIsSound DEF MemoryInv
<1>2. DOMAIN m.live = {}
  BY DEF NewMemory
<1> HIDE DEF m
<1>3. /\ memory' = [memory EXCEPT ![t] = m] /\ treeMemory' = treeMemory \ {t}
      /\ step' = [step EXCEPT ![t] = "find"] /\ DOMAIN step = Threads
  BY DEF Clear, Fresh, GoTo, m, IInv, QueriesAreCompiledOnce, TypeOK
<1>4. /\ DOMAIN memory' = Threads /\ memory'[t] = m /\ step'[t] = "find"
      /\ \A u \in Threads \ {t} : memory'[u] = memory[u] /\ step'[u] = step[u]
      /\ \A u \in Threads \ {t} : u \in treeMemory' <=> u \in treeMemory
      /\ t \notin treeMemory' /\ "find" \notin Parsed
  BY <1>1, <1>3 DEF Parsed
<1> QED
  BY <1>1, <1>2, <1>4, MemoryStep

(* Every other step leaves the memories and the allocator alone.             *)
LEMMA OtherMemory ==
  ASSUME IInv, MemoryInv, NEW t \in Threads,
         \/ Find(t) \/ Lock(t) \/ Install(t) \/ Load(t) \/ Unlock(t) \/ EndParse(t)
         \/ CancelParse(t) \/ Report(t) \/ NextCapture(t) \/ EndQuery(t)
  PROVE  MemoryInv'
<1>1. UNCHANGED <<memory, treeMemory>>
  BY DEF Find, Lock, Install, Load, Unlock, EndParse, CancelParse, Report, NextCapture, EndQuery, block
<1>2. CASE Find(t) \/ Lock(t) \/ Install(t) \/ Load(t) \/ Unlock(t)
  <2>1. step[t] \in {"find"} \cup {"lock"} \cup Locked
    BY <1>2 DEF Find, Lock, Install, Load, Unlock, Locked
  <2>2. PICK to \in {"lock", "finish", "install", "load", "unlock", "open"} :
          step' = [step EXCEPT ![t] = to]
    BY <1>2 DEF Find, Lock, Install, Load, Unlock, GoTo
  <2>3. step[t] \notin Served /\ to \notin Parsed
    BY <2>1 DEF Served, Parsed, Locked
  <2> QED
    BY <1>1, <2>2, <2>3, MemoryStays
<1>3. CASE EndParse(t) \/ CancelParse(t) \/ Report(t) \/ EndQuery(t)
  <2>1. step[t] \in Parsed
    BY <1>3 DEF EndParse, CancelParse, Report, EndQuery, Parsed
  <2>2. PICK to \in {"query", "finish"} : step' = [step EXCEPT ![t] = to]
    BY <1>3 DEF EndParse, CancelParse, Report, EndQuery, GoTo
  <2>3. to \in Served
    BY DEF Served, Parsed
  <2> QED
    BY <1>1, <2>1, <2>2, <2>3, MemoryStays
<1>4. CASE NextCapture(t)
  <2>1. step' = step
    BY <1>4 DEF NextCapture
  <2> QED
    BY <1>1, <2>1 DEF MemoryInv
<1> QED
  BY <1>2, <1>3, <1>4

LEMMA StepMemory == IInv /\ MemoryInv /\ [Next]_vars => MemoryInv'
<1> SUFFICES ASSUME IInv, MemoryInv, [Next]_vars PROVE MemoryInv'
  OBVIOUS
<1>1. ASSUME NEW t \in Threads, Progress(t) \/ Allocate(t) \/ NextCapture(t) \/ EndQuery(t)
      PROVE  MemoryInv'
  BY <1>1, OpenMemory, AllocateMemory, FinishMemory, ClearMemory, OtherMemory DEF Progress
<1>2. CASE UNCHANGED vars
  <2>1. UNCHANGED <<memory, treeMemory, step>>
    BY <1>2 DEF vars, block
  <2> QED
    BY <2>1 DEF MemoryInv
<1> QED
  BY <1>1, <1>2 DEF Next

(* No allocation of tree-sitter is handed out twice, each holds what it was  *)
(* asked for, and a block's arena is only used while the allocator serves    *)
(* that block.                                                               *)
THEOREM MemorySound == Spec => []MemoryIsSound
<1>1. Spec => [](IInv /\ MemoryInv)
  <2>1. Init => IInv /\ MemoryInv
    BY InitInv, InitMemory
  <2>2. (IInv /\ MemoryInv) /\ [Next]_vars => (IInv /\ MemoryInv)'
    BY StepInv, StepMemory
  <2> QED
    BY <2>1, <2>2, PTL DEF Spec
<1>2. IInv /\ MemoryInv => MemoryIsSound
  <2> SUFFICES ASSUME MemoryInv, NEW t \in Threads
               PROVE  LET m     == memory[t]
                          slots == DOMAIN m.lists
                          On(s) == ToSet(m.lists[s].free)
                      IN  /\ \A a \in DOMAIN m.live : m.live[a] <= m.header[a]
                          /\ \A s \in slots : \A a \in On(s) :
                               a \notin DOMAIN m.live /\ m.header[a] = m.lists[s].key - 1
                          /\ \A s \in slots : Cardinality(On(s)) = Len(m.lists[s].free)
                          /\ \A s1, s2 \in slots : s1 # s2 => On(s1) \cap On(s2) = {}
                          /\ DOMAIN m.live # {} => t \in treeMemory
                          /\ step[t] = "load" => t \notin treeMemory
    BY DEF MemoryIsSound
  <2>1. IsMemory(memory[t]) /\ (DOMAIN memory[t].live # {} => t \in treeMemory)
    BY DEF MemoryInv
  <2>2. step[t] = "load" => t \notin treeMemory
    BY DEF MemoryInv, Served, Parsed
  <2> QED
    BY <2>1, <2>2, MemoryIsWhatItHolds, Zenon
<1> QED
  BY <1>1, <1>2, PTL
=============================================================================
