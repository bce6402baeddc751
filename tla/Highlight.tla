------------------------------ MODULE Highlight ------------------------------
(***************************************************************************)
(* Highlighting the code blocks of bodies (src/formats/highlight.c) from    *)
(* the worker threads of the convert phase. A grammar's query is compiled   *)
(* at its first lookup, under grammar_lock, and then read by every thread   *)
(* without it. Tree-sitter's allocator is replaced once; while a thread     *)
(* writes a block the allocator serves it from the block's arena, and       *)
(* otherwise from malloc. The parse and the query are cancelled past their  *)
(* limits, which leaves the block, or the rest of it, plain.                *)
(*                                                                         *)
(* Tree-sitter itself is external: what it allocates and when, whether a    *)
(* query compiles, and in which order its cursor yields captures are        *)
(* choices of the next-state relation.                                      *)
(***************************************************************************)
EXTENDS Integers, Sequences, FiniteSets, Functions, SequencesExt, FiniteSetsExt, TLC, HighlightWriter, TreeMemory

CONSTANTS
  Threads,      \* worker threads
  Grammars,     \* grammars the program links
  Broken,       \* those whose query does not compile, or is not supported
  NoGrammar,    \* what a lookup of an unknown language finds
  Code,         \* thread |-> the code of its block
  Matches,      \* match |-> [captures, predicates] the query's cursor may yield
  Sizes,        \* sizes tree-sitter asks its allocator for
  Slots,        \* TREE_MEMORY_FREE_LIST_COUNT
  LenMax,       \* HIGHLIGHT_MEMORY_LEN_MAX
  ReportMax,    \* cursor_report_count_max
  MaxBlocks,    \* bound: thread |-> blocks it writes
  MaxCalls,     \* bound: thread |-> allocator calls of a block
  MaxCaptures   \* bound: thread |-> captures of a block

Nobody == "nobody"

ASSUME HighlightAssumption ==
  /\ Nobody \notin Threads
  /\ NoGrammar \notin Grammars
  /\ IsFiniteSet(Grammars)
  /\ Broken \subseteq Grammars
  /\ Sizes \subseteq Nat /\ Sizes # {}
  /\ Slots \in Nat \ {0}

VARIABLES
  grammarLock,          \* thread that holds grammar_lock, or Nobody
  isAllocatorInstalled,
  grammars,             \* grammar |-> [isLoaded, query]: query is 0, or the compile it came from
  compiles,             \* number of queries compiled so far
  treeMemory,           \* threads whose tree_memory is set
  blocks,               \* thread |-> blocks it has written
  step,                 \* thread |-> where it is in its block
  grammar,              \* thread |-> grammar of its block
  memory,               \* thread |-> its block's memory
  calls,                \* thread |-> allocator calls so far
  reports,              \* thread |-> progress reports of the query cursor
  arrived,              \* thread |-> captures its block's writer was given, in order
  pending               \* thread |-> <<match, index>> the cursor has still to yield

loading == <<grammarLock, isAllocatorInstalled, grammars, compiles>>
block   == <<blocks, treeMemory, memory, calls, reports, arrived, pending>>
vars    == <<loading, block, step, grammar>>

AllCaptures == {p \in (DOMAIN Matches) \X (1..3) : p[2] \in DOMAIN Matches[p[1]].captures}

Init ==
  /\ grammarLock = Nobody
  /\ isAllocatorInstalled = FALSE
  /\ grammars = [g \in Grammars |-> [isLoaded |-> FALSE, query |-> 0]]
  /\ compiles = 0
  /\ treeMemory = {}
  /\ blocks = [t \in Threads |-> 0]
  /\ step = [t \in Threads |-> "find"]
  /\ grammar = [t \in Threads |-> NoGrammar]
  /\ memory = [t \in Threads |-> NewMemory(Slots)]
  /\ calls = [t \in Threads |-> 0]
  /\ reports = [t \in Threads |-> 0]
  /\ arrived = [t \in Threads |-> <<>>]
  /\ pending = [t \in Threads |-> AllCaptures]

GoTo(t, to) == step' = [step EXCEPT ![t] = to]

-----------------------------------------------------------------------------
(* Lookup of the block's grammar. *)

\* highlight_grammar_find: the language names a grammar, or none and the block is
\* written plain.
Find(t) ==
  /\ step[t] = "find"
  /\ blocks[t] < MaxBlocks[t]
  /\ \/ \E g \in Grammars : grammar' = [grammar EXCEPT ![t] = g] /\ GoTo(t, "lock")
     \/ GoTo(t, "finish") /\ UNCHANGED grammar
  /\ UNCHANGED <<loading, block>>

(* Mutant: the lookup does not wait for the lock. *)
LockAnyway(t) ==
  /\ step[t] = "lock"
  /\ grammarLock' = t
  /\ GoTo(t, "install")
  /\ UNCHANGED <<isAllocatorInstalled, grammars, compiles, grammar, block>>

Lock(t) ==
  /\ step[t] = "lock"
  /\ grammarLock = Nobody
  /\ grammarLock' = t
  /\ GoTo(t, "install")
  /\ UNCHANGED <<isAllocatorInstalled, grammars, compiles, grammar, block>>

Install(t) ==
  /\ step[t] = "install"
  /\ isAllocatorInstalled' = TRUE
  /\ GoTo(t, "load")
  /\ UNCHANGED <<grammarLock, grammars, compiles, grammar, block>>

\* ts_query_new and is_query_supported: a query that does not load leaves NULL.
LoadedGrammar(g, number) ==
  [isLoaded |-> TRUE, query |-> IF g \in Broken THEN 0 ELSE number]

(* Mutant: each lookup compiles the query anew. *)
LoadAgain(t) ==
  /\ step[t] = "load"
  /\ compiles' = compiles + 1
  /\ grammars' = [grammars EXCEPT ![grammar[t]] = LoadedGrammar(grammar[t], compiles')]
  /\ GoTo(t, "unlock")
  /\ UNCHANGED <<grammarLock, isAllocatorInstalled, grammar, block>>

Load(t) ==
  /\ step[t] = "load"
  /\ LET g == grammar[t]
     IN  IF grammars[g].isLoaded THEN UNCHANGED <<grammars, compiles>>
         ELSE /\ compiles' = compiles + 1
              /\ grammars' = [grammars EXCEPT ![g] = LoadedGrammar(g, compiles')]
  /\ GoTo(t, "unlock")
  /\ UNCHANGED <<grammarLock, isAllocatorInstalled, grammar, block>>

(* Mutant: the return for a query that did not load keeps the lock. *)
UnlockLoaded(t) ==
  /\ step[t] = "unlock"
  /\ IF grammars[grammar[t]].query # 0
     THEN grammarLock' = Nobody /\ GoTo(t, "open") /\ UNCHANGED grammar
     ELSE GoTo(t, "finish") /\ grammar' = [grammar EXCEPT ![t] = NoGrammar] /\ UNCHANGED grammarLock
  /\ UNCHANGED <<isAllocatorInstalled, grammars, compiles, block>>

Unlock(t) ==
  /\ step[t] = "unlock"
  /\ grammarLock' = Nobody
  /\ IF grammars[grammar[t]].query # 0
     THEN GoTo(t, "open") /\ UNCHANGED grammar
     ELSE GoTo(t, "finish") /\ grammar' = [grammar EXCEPT ![t] = NoGrammar]
  /\ UNCHANGED <<isAllocatorInstalled, grammars, compiles, block>>

-----------------------------------------------------------------------------
(* Parsing and querying the block. *)

\* tree_memory is set before the parser is made, so the parser too is the arena's.
Open(t) ==
  /\ step[t] = "open"
  /\ treeMemory' = treeMemory \cup {t}
  /\ memory' = [memory EXCEPT ![t] = Take(@, CHOOSE size \in Sizes : TRUE)]
  /\ GoTo(t, "parse")
  /\ UNCHANGED <<loading, blocks, grammar, calls, reports, arrived, pending>>

\* What a parse or a query may do to its memory in one call of the allocator.
MemoryCalls(m) ==
  {Take(m, size) : size \in Sizes} \cup
  {Give(m, address) : address \in DOMAIN m.live} \cup
  {Resize(m, address, size) : address \in DOMAIN m.live, size \in Sizes}

Allocate(t) ==
  /\ step[t] \in {"parse", "query"}
  /\ calls[t] < MaxCalls[t]
  /\ calls' = [calls EXCEPT ![t] = @ + 1]
  /\ \E m \in MemoryCalls(memory[t]) : memory' = [memory EXCEPT ![t] = m]
  /\ UNCHANGED <<loading, blocks, treeMemory, step, grammar, reports, arrived, pending>>

\* The parse ends with a tree, which has too wide an error node or not.
EndParse(t) ==
  /\ step[t] = "parse"
  /\ GoTo(t, "query") \/ GoTo(t, "finish")
  /\ UNCHANGED <<loading, grammar, block>>

\* The parse reports its progress past the limit, and is cancelled without a tree.
CancelParse(t) ==
  /\ step[t] = "parse"
  /\ memory[t].len > LenMax
  /\ GoTo(t, "finish")
  /\ UNCHANGED <<loading, grammar, block>>

\* The cursor reports its progress, and is cancelled past a limit.
Report(t) ==
  /\ step[t] = "query"
  /\ reports' = [reports EXCEPT ![t] = @ + 1]
  /\ GoTo(t, IF memory[t].len > LenMax \/ reports'[t] > ReportMax THEN "finish" ELSE "query")
  /\ UNCHANGED <<loading, blocks, treeMemory, grammar, memory, calls, arrived, pending>>

\* A text predicate, of texts its positive form holds for, and a match's verdict:
\* every node taken under the predicate's capture must pass; is-not? local holds.
IsTextPassing(predicate, text) == (text \in predicate.texts) # predicate.isNegated
IsPredicateHolding(predicate, captures) ==
  \A i \in DOMAIN captures :
    captures[i].name = predicate.of => IsTextPassing(predicate, captures[i].text)
IsMatchAccepted(match) ==
  \A predicate \in match.predicates :
    predicate.isLocal \/ IsPredicateHolding(predicate, match.captures)

WithoutMatch(captures, m) == {p \in captures : p[1] # m}

\* Of a run of captures of one node the last counts, and each before it drops
\* what is left of its own match.
NextCapture(t) ==
  /\ step[t] = "query"
  /\ Len(arrived[t]) < MaxCaptures[t]
  /\ \E p \in pending[t] :
       LET match   == Matches[p[1]]
           capture == match.captures[p[2]]
           last    == IF arrived[t] = <<>> THEN [of |-> 0, node |-> 0] ELSE Last(arrived[t])
           isAfterSameNode == last.node = capture.node
           rest    == pending[t] \ {p}
       IN IF ~IsMatchAccepted(match)
          THEN /\ pending' = [pending EXCEPT ![t] = WithoutMatch(rest, p[1])]
               /\ UNCHANGED arrived
          ELSE /\ pending' = [pending EXCEPT ![t] =
                     IF isAfterSameNode THEN WithoutMatch(rest, last.of) ELSE rest]
               /\ arrived' = [arrived EXCEPT ![t] = Append(@, capture @@ [of |-> p[1]])]
  /\ UNCHANGED <<loading, blocks, treeMemory, step, grammar, memory, calls, reports>>

EndQuery(t) ==
  /\ step[t] = "query"
  /\ GoTo(t, "finish")
  /\ UNCHANGED <<loading, grammar, block>>

-----------------------------------------------------------------------------
(* Writing the rest and releasing what tree-sitter holds. *)

\* What the block's writer has written: it takes the captures as they arrive,
\* each with whether the one before it was of the same node, and then the rest.
WrittenBlock(t) ==
  LET Given(w, i) ==
        WriterTake(w, arrived[t][i], i > 1 /\ arrived[t][i - 1].node = arrived[t][i].node)
  IN  WriterFinish(FoldLeft(Given, NewWriter(Code[t], NoLines(Code[t])),
                            [i \in DOMAIN arrived[t] |-> i])).out

\* The writer finishes, and the tree and the parser are deleted while the
\* allocator still serves the block; only then is tree_memory cleared.
Finish(t) ==
  /\ step[t] = "finish"
  /\ memory' = [memory EXCEPT ![t].live = <<>>]
  /\ GoTo(t, "clear")
  /\ UNCHANGED <<loading, blocks, treeMemory, grammar, calls, reports, arrived, pending>>

\* A block starts with a scratch arena and a writer of its own.
Fresh(t) ==
  /\ memory' = [memory EXCEPT ![t] = NewMemory(Slots)]
  /\ calls' = [calls EXCEPT ![t] = 0]
  /\ reports' = [reports EXCEPT ![t] = 0]
  /\ arrived' = [arrived EXCEPT ![t] = <<>>]
  /\ pending' = [pending EXCEPT ![t] = AllCaptures]
  /\ grammar' = [grammar EXCEPT ![t] = NoGrammar]

Clear(t) ==
  /\ step[t] = "clear"
  /\ treeMemory' = treeMemory \ {t}
  /\ blocks' = [blocks EXCEPT ![t] = @ + 1]
  /\ Fresh(t)
  /\ GoTo(t, "find")
  /\ UNCHANGED loading

\* What a thread does by itself; a query that goes on reports its progress.
Progress(t) ==
  \/ Find(t) \/ Lock(t) \/ Install(t) \/ Load(t) \/ Unlock(t)
  \/ Open(t) \/ EndParse(t) \/ CancelParse(t) \/ Report(t) \/ Finish(t) \/ Clear(t)

Next == \E t \in Threads : Progress(t) \/ Allocate(t) \/ NextCapture(t) \/ EndQuery(t)

\* A worker thread keeps running, and so does tree-sitter in it: its parse ends,
\* or its query reports. A lookup that waits takes the lock once the threads that
\* hold it leave it: each holds it once for a block.
Fairness == \A t \in Threads : WF_vars(Progress(t))

Spec == Init /\ [][Next]_vars /\ Fairness

-----------------------------------------------------------------------------
(* Properties *)

Locked == {"install", "load", "unlock"}
Parsed == {"parse", "query"}

TypeOK ==
  /\ grammarLock \in Threads \cup {Nobody}
  /\ isAllocatorInstalled \in BOOLEAN
  /\ grammars \in [Grammars -> [isLoaded : BOOLEAN, query : Nat]]
  /\ compiles \in Nat
  /\ treeMemory \subseteq Threads
  /\ step \in [Threads -> Locked \cup Parsed \cup
                  {"find", "lock", "open", "finish", "clear"}]
  /\ grammar \in [Threads -> Grammars \cup {NoGrammar}]

\* One thread at a time loads grammars, each is compiled at most once in the
\* process, by an allocator already in place, and a block is only parsed with a
\* grammar whose query was compiled (highlight.c:651-678, grammar_lock).
QueriesAreCompiledOnce ==
  /\ TypeOK
  /\ \A t \in Threads : step[t] \in Locked => grammarLock = t
  /\ compiles = Cardinality({g \in Grammars : grammars[g].isLoaded})
  /\ \A g \in Grammars : grammars[g].isLoaded => isAllocatorInstalled
  /\ \A t \in Threads :
       step[t] \in Parsed \cup {"open"} => grammars[grammar[t]].query # 0

\* A compiled query never changes or goes away, so threads may read it without
\* the lock (highlight.c:172-178).
QueriesStay ==
  [][\A g \in Grammars : grammars[g].isLoaded => grammars'[g] = grammars[g]]_vars

\* No allocation is handed out twice, each holds what it was asked for, and an
\* allocation from a block's arena is only freed while the allocator serves that
\* block; a query, which outlives every block, is never compiled from an arena
\* (highlight.c:621-631, 775-842).
MemoryIsSound ==
  \A t \in Threads :
    LET m     == memory[t]
        slots == DOMAIN m.lists
        On(s) == ToSet(m.lists[s].free)
    IN  /\ \A a \in DOMAIN m.live : m.live[a] <= m.header[a]
        /\ \A s \in slots : \A a \in On(s) :
             a \notin DOMAIN m.live /\ m.header[a] = m.lists[s].key - 1
        /\ \A s \in slots : Cardinality(On(s)) = Len(m.lists[s].free)
        /\ \A s1, s2 \in slots : s1 # s2 => On(s1) \cap On(s2) = {}
        /\ DOMAIN m.live # {} => t \in treeMemory
        /\ step[t] = "load" => t \notin treeMemory

\* The last token of some kinds before the k-th.
LastBefore(out, k, kinds) ==
  LET at == {j \in 1..(k - 1) : out[j][1] \in kinds}
  IN  IF at = {} THEN <<"nothing", CaptureNone>> ELSE out[Max(at)]

\* Spans stay inside one line, and lines are each opened and closed once, in order.
IsWellLined(out) ==
  \A k \in DOMAIN out :
    LET line  == LastBefore(out, k, {"line", "endline"})
        span  == LastBefore(out, k, {"span", "endspan"})
        ended == Cardinality({j \in 1..(k - 1) : out[j][1] = "endline"})
    IN  CASE out[k][1] = "line"    -> line[1] # "line" /\ out[k][2] = ended
          [] out[k][1] = "endline" -> line = <<"line", out[k][2]>> /\ span[1] # "span"
          [] out[k][1] = "span"    -> line[1] = "line" /\ span[1] # "span"
          [] out[k][1] = "endspan" -> line[1] = "line" /\ span = <<"span", out[k][2]>>
          [] out[k][1] = "text"    -> line[1] = "line"
          [] out[k][1] = "nl"      -> line[1] = "endline"

\* The class of a byte, read off the captures in the order they arrived: the
\* last that covers it, of those that start no earlier than any before them, of
\* a run on one node the last, and none when that one is private.
ClassOf(captures, byte) ==
  LET Wide(k)   == captures[k].start < captures[k].end
      Counts(k) ==
        /\ Wide(k)
        /\ \A j \in 1..(k - 1) : Wide(j) => captures[j].start <= captures[k].start
        /\ k < Len(captures) => captures[k + 1].node # captures[k].node
        /\ ~captures[k].isPrivate
        /\ captures[k].start <= byte /\ byte < captures[k].end
      counting == {k \in DOMAIN captures : Counts(k)}
  IN  IF counting = {} THEN CaptureNone ELSE captures[Max(counting)].name

\* A block that is written has every byte of its code once and in order, each in
\* the span its captures give it, and every span closes before its line ends
\* (highlight.h:99-117, highlight.c:445-460).
SpansFollowCaptures ==
  \A t \in Threads : step[t] = "clear" =>
    LET out    == WrittenBlock(t)
        bytes  == {k \in DOMAIN out : out[k][1] \in {"text", "nl"}}
        Byte(k) == Cardinality({j \in bytes : j < k})
        span(k) == LastBefore(out, k, {"span", "endspan"})
    IN  /\ IsWellLined(out)
        /\ out # <<>> => Last(out)[1] \in {"endline", "nl"}
        /\ Cardinality(bytes) = Len(Code[t])
        /\ \A k \in bytes :
             /\ out[k][2] = Byte(k)
             /\ (out[k][1] = "nl") = (Code[t][Byte(k) + 1] = "nl")
             /\ out[k][1] = "text" =>
                  ClassOf(arrived[t], Byte(k)) =
                    (IF span(k)[1] = "span" THEN span(k)[2] ELSE CaptureNone)

\* Every block gets written: the loading lock deadlocks nobody and the limits end
\* every parse and query.
EveryBlockIsWritten == \A t \in Threads : <>(blocks[t] = MaxBlocks[t])
=============================================================================
