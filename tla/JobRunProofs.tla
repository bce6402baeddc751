---------------------------- MODULE JobRunProofs ----------------------------
(***************************************************************************)
(* For every number of jobs and workers and every outcome: no index is      *)
(* handed out twice, the logs are complete when they are merged, the        *)
(* threads implement JobPhase, and what the phase reports and prints does   *)
(* not depend on the schedule.                                              *)
(***************************************************************************)
EXTENDS JobRun, FiniteSetTheorems, WellFoundedInduction, TLAPS

(* The jobs that ran and were counted: no worker is between the two steps.  *)
Counted == {i \in Jobs : /\ runs[i] = 1
                         /\ \A w \in Workers : worker[w] \in {"lock", "count"} => held[w] # i}

(* The jobs whose result the pool has seen. *)
Recorded == {i \in Jobs : /\ runs[i] = 1
                          /\ \A w \in Workers : worker[w] \in Busy => held[w] # i}

(* A started worker is one that pthread_create started, in order. *)
StartedInv == \A w \in Workers : worker[w] = "unborn" <=> w >= started

(* The counter separates the jobs handed out from those that were not, and  *)
(* a busy worker holds a job of its own.                                    *)
HeldInv ==
  /\ \A w \in Workers : worker[w] \in Busy => held[w] \in Jobs /\ held[w] < indexNext
  /\ \A v, w \in Workers :
       v # w /\ worker[v] \in Busy /\ worker[w] \in Busy => held[v] # held[w]

ExitInv ==
  /\ \A w \in Workers : worker[w] = "exited" => indexNext >= JobCount
  /\ started = 0 => indexNext = 0

(* A job handed out has run, unless the worker that holds it is about to. *)
RunInv ==
  /\ \A i \in Jobs : runs[i] \in {0, 1}
  /\ \A i \in Jobs : i >= indexNext => runs[i] = 0
  /\ \A i \in Jobs : i < indexNext /\ runs[i] = 0 =>
       \E w \in Workers : worker[w] = "run" /\ held[w] = i
  /\ \A w \in Workers : worker[w] = "run" => runs[held[w]] = 0
  /\ \A i \in Jobs : runs[i] = 1 => logs[i] = outcome[i]

CountInv == completed = Cardinality(Counted)

FailInv ==
  /\ \A i \in Recorded : outcome[i].rc # 0 => hasFailed
  /\ hasFailed => \E i \in Recorded : outcome[i].rc # 0

MainInv ==
  /\ main \in {"merge", "returned"} => \A w \in Workers : worker[w] \in {"unborn", "exited"}
  /\ main # "returned" => report = NoReport

IInv == TypeOK /\ StartedInv /\ HeldInv /\ ExitInv /\ RunInv /\ CountInv /\ FailInv /\ MainInv

-----------------------------------------------------------------------------
LEMMA PoolSizeType == PoolSize \in Nat /\ (PoolSize = 0 <=> JobCount = 0)
BY JobReportAssumption, JobRunAssumption DEF PoolSize

LEMMA InitIInv == Init => IInv
<1> SUFFICES ASSUME Init PROVE IInv
  OBVIOUS
<1>1. TypeOK
  <2>1. /\ started \in 0 .. PoolSize
        /\ worker \in [Workers -> WorkerStates]
        /\ line \in [Workers -> Nat]
        /\ runs \in [Jobs -> Nat]
    BY PoolSizeType DEF Init, WorkerStates
  <2>2. held \in [Workers -> Jobs \cup {NoJob}] /\ logs \in [Jobs -> Outcomes \cup {NoLog}]
    BY DEF Init
  <2>3. printed \in Seq(Piece)
    BY DEF Init
  <2> QED
    BY <2>1, <2>2, <2>3 DEF Init, TypeOK
<1>2. StartedInv /\ HeldInv /\ ExitInv /\ RunInv /\ MainInv
  BY PoolSizeType DEF Init, StartedInv, HeldInv, ExitInv, RunInv, MainInv, Busy, WorkerStates, Workers, Jobs
<1>3. Counted = {} /\ Recorded = {}
  BY DEF Init, Counted, Recorded
<1>4. CountInv /\ FailInv
  BY <1>3, FS_EmptySet DEF Init, CountInv, FailInv
<1> QED
  BY <1>1, <1>2, <1>4 DEF IInv

(* Every action keeps the types. *)
LEMMA TypeStep == TypeOK /\ [Next]_vars => TypeOK'
<1> SUFFICES ASSUME TypeOK, [Next]_vars PROVE TypeOK'
  OBVIOUS
<1> USE PoolSizeType, JobReportAssumption DEF TypeOK, WorkerStates, Workers, Jobs
<1>1. CASE StartWorker
  BY <1>1 DEF StartWorker
<1>2. CASE EndCreate
  BY <1>2 DEF EndCreate
<1>3. CASE JoinWorkers
  BY <1>3 DEF JoinWorkers
<1>4. CASE MergeLogs
  <2>1. [count |-> 0, part |-> "newline"] \in Piece
    BY DEF Piece
  <2>2. printed' \in Seq(Piece)
    BY <1>4, <2>1 DEF MergeLogs
  <2>3. UNCHANGED << outcome, started, indexNext, worker, held, logs, runs, hasFailed,
                     completed, lock, line >> /\ main' = "returned"
    BY <1>4 DEF MergeLogs
  <2> QED
    BY <2>2, <2>3
<1>5. ASSUME NEW w \in Workers, ClaimJob(w) PROVE TypeOK'
  <2>1. CASE indexNext < JobCount
    <3>1. indexNext \in Jobs
      BY <2>1
    <3>2. held' = [held EXCEPT ![w] = indexNext] /\ worker' = [worker EXCEPT ![w] = "run"]
      BY <1>5, <2>1 DEF ClaimJob
    <3>3. worker' \in [Workers -> WorkerStates] /\ held' \in [Workers -> Jobs \cup {NoJob}]
      BY <3>1, <3>2
    <3> QED
      BY <1>5, <3>3 DEF ClaimJob, shared
  <2>2. CASE ~ (indexNext < JobCount)
    <3>1. worker' \in [Workers -> WorkerStates] /\ held' = held
      BY <1>5, <2>2 DEF ClaimJob
    <3> QED
      BY <1>5, <3>1 DEF ClaimJob, shared
  <2> QED
    BY <2>1, <2>2
<1>6. ASSUME NEW w \in Workers, RunJob(w) PROVE TypeOK'
  <2>1. logs' = [i \in Jobs |-> IF i = held[w] THEN outcome[i] ELSE logs[i]]
    <3>1. logs' = [logs EXCEPT ![held[w]] = outcome[held[w]]]
      BY <1>6 DEF RunJob
    <3>2. logs = [i \in Jobs |-> logs[i]]
      OBVIOUS
    <3> QED
      BY <3>1, <3>2
  <2>2. logs' \in [Jobs -> Outcomes \cup {NoLog}]
    BY <2>1
  <2>3. runs' \in [Jobs -> Nat]
    <3>1. runs' = [i \in Jobs |-> IF i = held[w] THEN runs[i] + 1 ELSE runs[i]]
      BY <1>6 DEF RunJob
    <3> QED
      BY <3>1
  <2>4. worker' \in [Workers -> WorkerStates]
    BY <1>6 DEF RunJob
  <2> QED
    BY <1>6, <2>2, <2>3, <2>4 DEF RunJob
<1>7. ASSUME NEW w \in Workers, LockProgress(w) PROVE TypeOK'
  BY <1>7 DEF LockProgress, shared
<1>8. ASSUME NEW w \in Workers, CountJob(w) PROVE TypeOK'
  BY <1>8 DEF CountJob, shared
<1>9. ASSUME NEW w \in Workers, PrintLine(w) PROVE TypeOK'
  <2>1. PICK part \in {"whole", "head", "lost"} :
          /\ printed' = Append(printed, [count |-> line[w], part |-> part])
          /\ worker' = [worker EXCEPT ![w] = IF part = "head" THEN "retry" ELSE "unlock"]
    BY <1>9 DEF PrintLine
  <2>2. [count |-> line[w], part |-> part] \in Piece
    BY DEF Piece
  <2>3. printed' \in Seq(Piece)
    BY <2>1, <2>2
  <2> QED
    BY <1>9, <2>1, <2>3 DEF PrintLine, shared
<1>10. ASSUME NEW w \in Workers, PrintRest(w) PROVE TypeOK'
  <2>1. [count |-> line[w], part |-> "rest"] \in Piece
    BY DEF Piece
  <2>2. printed' \in Seq(Piece)
    BY <1>10, <2>1 DEF PrintRest
  <2> QED
    BY <1>10, <2>2 DEF PrintRest, shared
<1>11. ASSUME NEW w \in Workers, UnlockProgress(w) PROVE TypeOK'
  BY <1>11 DEF UnlockProgress, shared
<1>12. ASSUME NEW w \in Workers, RecordResult(w) PROVE TypeOK'
  BY <1>12 DEF RecordResult, shared
<1>13. CASE UNCHANGED vars
  BY <1>13 DEF vars
<1> QED
  BY <1>1, <1>2, <1>3, <1>4, <1>5, <1>6, <1>7, <1>8, <1>9, <1>10, <1>11, <1>12, <1>13
     DEF Next, MainStep, WorkerStep, Returned

(* Every variable keeps its type, for every size of the phase. *)
THEOREM TypeCorrect == Spec => []TypeOK
<1>1. Init => TypeOK
  BY InitIInv DEF IInv
<1> QED
  BY <1>1, TypeStep, PTL DEF Spec

-----------------------------------------------------------------------------
(* The inductive step, one lemma for each action. *)
LEMMA StartWorkerStep == IInv /\ TypeOK' /\ StartWorker => IInv'
<1> SUFFICES ASSUME IInv, TypeOK', StartWorker PROVE IInv'
  OBVIOUS
<1>0. TypeOK /\ StartedInv /\ HeldInv /\ ExitInv /\ RunInv /\ CountInv /\ FailInv /\ MainInv
  BY DEF IInv
<1>1. /\ started \in Workers /\ started' = started + 1 /\ worker[started] = "unborn"
      /\ \A w \in Workers : worker'[w] = IF w = started THEN "claim" ELSE worker[w]
  BY <1>0, PoolSizeType DEF StartWorker, StartedInv, Workers, TypeOK
<1>2. UNCHANGED << outcome, main, indexNext, held, logs, runs, hasFailed, completed, report >>
  BY DEF StartWorker
<1>3. StartedInv'
  BY <1>0, <1>1, <1>2, PoolSizeType DEF StartedInv, Workers
<1>4. \A w \in Workers : worker'[w] \in Busy <=> worker[w] \in Busy
  BY <1>1 DEF Busy
<1>5. HeldInv'
  BY <1>0, <1>2, <1>4 DEF HeldInv
<1>6. ExitInv'
  BY <1>0, <1>1, <1>2, PoolSizeType DEF ExitInv, Workers
<1>7. RunInv'
  <2>1. \A w \in Workers : worker'[w] = "run" <=> worker[w] = "run"
    BY <1>1
  <2> QED
    BY <1>0, <1>2, <2>1 DEF RunInv
<1>8. Counted' = Counted
  BY <1>1, <1>2 DEF Counted
<1>9. Recorded' = Recorded
  BY <1>2, <1>4 DEF Recorded
<1>10. CountInv' /\ FailInv'
  BY <1>0, <1>2, <1>8, <1>9 DEF CountInv, FailInv
<1>11. MainInv'
  BY <1>0, <1>1, <1>2 DEF MainInv, StartWorker
<1> QED
  BY <1>3, <1>5, <1>6, <1>7, <1>10, <1>11 DEF IInv

(* The main thread's other steps leave the workers alone. *)
LEMMA MainStepStep ==
  IInv /\ TypeOK' /\ (EndCreate \/ JoinWorkers \/ MergeLogs \/ UNCHANGED vars) => IInv'
<1> SUFFICES ASSUME IInv, TypeOK', EndCreate \/ JoinWorkers \/ MergeLogs \/ UNCHANGED vars
             PROVE  IInv'
  OBVIOUS
<1> USE PoolSizeType DEF IInv, TypeOK
<1>1. UNCHANGED << outcome, started, indexNext, worker, held, logs, runs, hasFailed, completed >>
  BY DEF EndCreate, JoinWorkers, MergeLogs, vars
<1>2. StartedInv' /\ HeldInv' /\ ExitInv' /\ RunInv'
  BY <1>1 DEF StartedInv, HeldInv, ExitInv, RunInv
<1>3. Counted' = Counted /\ Recorded' = Recorded
  BY <1>1 DEF Counted, Recorded
<1>4. CountInv' /\ FailInv'
  BY <1>1, <1>3 DEF CountInv, FailInv
<1>5. MainInv'
  <2>1. CASE JoinWorkers
    BY <2>1 DEF JoinWorkers, MainInv, StartedInv, Workers
  <2>2. CASE MergeLogs
    BY <2>2 DEF MergeLogs, MainInv
  <2>3. CASE EndCreate
    BY <2>3 DEF EndCreate, MainInv
  <2>4. CASE UNCHANGED vars
    BY <2>4 DEF vars, MainInv
  <2> QED
    BY <2>1, <2>2, <2>3, <2>4
<1> QED
  BY <1>2, <1>4, <1>5

(* A worker that takes a step keeps the main thread from merging. *)
LEMMA WorkerAlive ==
  ASSUME IInv, NEW w \in Workers, worker[w] \notin {"unborn", "exited"}
  PROVE  main \notin {"merge", "returned"} /\ started # 0 /\ report = NoReport
BY PoolSizeType DEF IInv, TypeOK, MainInv, StartedInv, Workers

LEMMA ClaimJobStep ==
  ASSUME IInv, TypeOK', NEW w \in Workers, ClaimJob(w)
  PROVE  IInv'
<1>0. TypeOK /\ StartedInv /\ HeldInv /\ ExitInv /\ RunInv /\ CountInv /\ FailInv /\ MainInv
  BY DEF IInv
<1>1. worker[w] = "claim" /\ indexNext' = indexNext + 1 /\ indexNext \in Nat
  BY <1>0 DEF ClaimJob, TypeOK
<1>2. UNCHANGED << outcome, started, logs, runs, report, main, hasFailed, completed >>
  BY DEF ClaimJob, shared
<1>3. main \notin {"merge", "returned"} /\ started # 0
  BY <1>1, WorkerAlive
<1>4. MainInv'
  BY <1>2, <1>3, <1>0 DEF MainInv
<1>5. CASE indexNext < JobCount
  <2>1. indexNext \in Jobs /\ runs[indexNext] = 0
    BY <1>0, <1>1, <1>5, JobReportAssumption DEF Jobs, RunInv
  <2>2. \A v \in Workers : /\ worker'[v] = IF v = w THEN "run" ELSE worker[v]
                           /\ held'[v] = IF v = w THEN indexNext ELSE held[v]
    BY <1>0, <1>5 DEF ClaimJob, TypeOK
  <2>3. StartedInv'
    BY <1>0, <1>1, <1>2, <2>2 DEF StartedInv
  <2>4. HeldInv'
    <3>1. \A v \in Workers : worker[v] \in Busy => held[v] \in Jobs /\ held[v] < indexNext
      BY <1>0 DEF HeldInv
    <3>2. \A v \in Workers : worker'[v] \in Busy => held'[v] \in Jobs /\ held'[v] < indexNext'
      BY <1>1, <2>1, <2>2, <3>1 DEF Jobs
    <3>3. \A v \in Workers \ {w} : worker[v] \in Busy => held[v] # indexNext
      BY <1>1, <2>1, <3>1 DEF Jobs
    <3>4. \A u, v \in Workers :
            u # v /\ worker'[u] \in Busy /\ worker'[v] \in Busy => held'[u] # held'[v]
      BY <1>0, <2>2, <3>3 DEF HeldInv
    <3> QED
      BY <3>2, <3>4 DEF HeldInv
  <2>5. ExitInv'
    BY <1>0, <1>1, <1>2, <1>3, <2>2, JobReportAssumption DEF ExitInv
  <2>6. RunInv'
    <3>1. \A i \in Jobs : i < indexNext' /\ runs[i] = 0 =>
            \E v \in Workers : worker'[v] = "run" /\ held'[v] = i
      <4> SUFFICES ASSUME NEW i \in Jobs, i < indexNext', runs[i] = 0
                   PROVE  \E v \in Workers : worker'[v] = "run" /\ held'[v] = i
        OBVIOUS
      <4>1. CASE i = indexNext
        BY <2>2, <4>1
      <4>2. CASE i # indexNext
        <5>1. i < indexNext
          BY <1>1, <4>2 DEF Jobs
        <5>2. PICK v \in Workers : worker[v] = "run" /\ held[v] = i
          BY <1>0, <5>1 DEF RunInv
        <5> QED
          BY <1>1, <2>2, <5>2
      <4> QED
        BY <4>1, <4>2
    <3>2. \A v \in Workers : worker'[v] = "run" => runs[held'[v]] = 0
      BY <1>0, <2>1, <2>2 DEF RunInv
    <3>3. \A i \in Jobs : i >= indexNext' => runs[i] = 0
      BY <1>0, <1>1 DEF RunInv, Jobs
    <3> QED
      BY <1>0, <1>2, <3>1, <3>2, <3>3 DEF RunInv
  <2>7. Counted' = Counted
    BY <1>1, <1>2, <2>2 DEF Counted
  <2>8. Recorded' = Recorded
    <3>1. "run" \in Busy /\ "claim" \notin Busy
      BY DEF Busy, WorkerStates
    <3> QED
      BY <1>1, <1>2, <2>1, <2>2, <3>1 DEF Recorded
  <2>9. CountInv' /\ FailInv'
    BY <1>0, <1>2, <2>7, <2>8 DEF CountInv, FailInv
  <2> QED
    BY <1>4, <2>3, <2>4, <2>5, <2>6, <2>9 DEF IInv
<1>6. CASE ~ (indexNext < JobCount)
  <2>1. /\ \A v \in Workers : worker'[v] = IF v = w THEN "exited" ELSE worker[v]
        /\ held' = held
    BY <1>0, <1>6 DEF ClaimJob, TypeOK
  <2>2. "exited" \notin Busy /\ "claim" \notin Busy
    BY DEF Busy
  <2>3. StartedInv'
    BY <1>0, <1>1, <1>2, <2>1 DEF StartedInv
  <2>4. HeldInv'
    <3>1. \A v \in Workers : worker[v] \in Busy => held[v] \in Jobs /\ held[v] < indexNext'
      BY <1>0, <1>1 DEF HeldInv, Jobs
    <3> QED
      BY <1>0, <2>1, <2>2, <3>1 DEF HeldInv
  <2>5. ExitInv'
    BY <1>0, <1>1, <1>2, <1>3, <1>6, <2>1, JobReportAssumption DEF ExitInv
  <2>6. RunInv'
    <3>1. \A i \in Jobs : i < indexNext
      BY <1>1, <1>6, JobReportAssumption DEF Jobs
    <3>2. \A i \in Jobs : runs[i] = 0 =>
            \E v \in Workers : worker'[v] = "run" /\ held'[v] = i
      BY <1>0, <1>1, <2>1, <3>1 DEF RunInv
    <3>3. \A i \in Jobs : i >= indexNext' => runs[i] = 0
      BY <1>1, <3>1 DEF Jobs
    <3> QED
      BY <1>0, <1>1, <1>2, <2>1, <3>2, <3>3 DEF RunInv
  <2>7. Counted' = Counted
    BY <1>1, <1>2, <2>1 DEF Counted
  <2>8. Recorded' = Recorded
    BY <1>1, <1>2, <2>1, <2>2 DEF Recorded
  <2>9. CountInv' /\ FailInv'
    BY <1>0, <1>2, <2>7, <2>8 DEF CountInv, FailInv
  <2> QED
    BY <1>4, <2>3, <2>4, <2>5, <2>6, <2>9 DEF IInv
<1> QED
  BY <1>5, <1>6

(* The steps around the progress line keep a worker between its count and   *)
(* its record, or between its run and its count.                            *)
LEMMA PrintStep ==
  ASSUME IInv, TypeOK', NEW w \in Workers,
         LockProgress(w) \/ PrintLine(w) \/ PrintRest(w) \/ UnlockProgress(w)
  PROVE  IInv'
<1>0. TypeOK /\ StartedInv /\ HeldInv /\ ExitInv /\ RunInv /\ CountInv /\ FailInv /\ MainInv
  BY DEF IInv
<1>1. UNCHANGED << outcome, started, logs, runs, report, main, indexNext, held, hasFailed,
                   completed >>
  BY DEF LockProgress, PrintLine, PrintRest, UnlockProgress, shared
<1>2. PICK t \in {"count", "retry", "unlock", "record"} :
        /\ worker' = [worker EXCEPT ![w] = t]
        /\ IF t = "count" THEN worker[w] = "lock" ELSE worker[w] \in {"print", "retry", "unlock"}
  BY DEF LockProgress, PrintLine, PrintRest, UnlockProgress
<1>3. \A v \in Workers : worker'[v] = IF v = w THEN t ELSE worker[v]
  BY <1>0, <1>2 DEF TypeOK
<1>4. t \in Busy /\ worker[w] \in Busy
  BY <1>2 DEF Busy, WorkerStates
<1>5. StartedInv'
  BY <1>0, <1>1, <1>2, <1>3 DEF StartedInv
<1>6. HeldInv'
  BY <1>0, <1>1, <1>3, <1>4 DEF HeldInv
<1>7. ExitInv'
  BY <1>0, <1>1, <1>3 DEF ExitInv
<1>8. RunInv'
  <2>1. \A v \in Workers : worker'[v] = "run" <=> worker[v] = "run"
    BY <1>2, <1>3
  <2> QED
    BY <1>0, <1>1, <2>1 DEF RunInv
<1>9. Counted' = Counted
  <2>1. \A v \in Workers : worker'[v] \in {"lock", "count"} <=> worker[v] \in {"lock", "count"}
    BY <1>2, <1>3
  <2> QED
    BY <1>1, <2>1 DEF Counted
<1>10. Recorded' = Recorded
  <2>1. \A v \in Workers : worker'[v] \in Busy <=> worker[v] \in Busy
    BY <1>3, <1>4
  <2> QED
    BY <1>1, <2>1 DEF Recorded
<1>11. CountInv' /\ FailInv'
  BY <1>0, <1>1, <1>9, <1>10 DEF CountInv, FailInv
<1>12. MainInv'
  <2>1. main \notin {"merge", "returned"}
    BY <1>4, WorkerAlive DEF Busy
  <2> QED
    BY <1>0, <1>1, <2>1 DEF MainInv
<1> QED
  BY <1>5, <1>6, <1>7, <1>8, <1>11, <1>12 DEF IInv

LEMMA RunJobStep ==
  ASSUME IInv, TypeOK', NEW w \in Workers, RunJob(w)
  PROVE  IInv'
<1>0. TypeOK /\ StartedInv /\ HeldInv /\ ExitInv /\ RunInv /\ CountInv /\ FailInv /\ MainInv
  BY DEF IInv
<1>1. UNCHANGED << outcome, started, report, main, indexNext, held, hasFailed, completed >>
  BY DEF RunJob
<1>2. PICK t \in {"lock", "count"} : worker' = [worker EXCEPT ![w] = t]
  BY DEF RunJob
<1>3. \A v \in Workers : worker'[v] = IF v = w THEN t ELSE worker[v]
  BY <1>0, <1>2 DEF TypeOK
<1>4. worker[w] = "run" /\ t \in Busy /\ worker[w] \in Busy
  BY <1>2 DEF Busy, WorkerStates, RunJob
<1>5. /\ held[w] \in Jobs /\ held[w] < indexNext /\ runs[held[w]] = 0
      /\ \A v \in Workers : v # w /\ worker[v] \in Busy => held[v] # held[w]
  BY <1>0, <1>4 DEF HeldInv, RunInv
<1>6. /\ \A i \in Jobs : runs'[i] = IF i = held[w] THEN 1 ELSE runs[i]
      /\ \A i \in Jobs : logs'[i] = IF i = held[w] THEN outcome[i] ELSE logs[i]
  BY <1>0, <1>5 DEF RunJob, TypeOK
<1>7. StartedInv'
  BY <1>0, <1>1, <1>2, <1>3, <1>4 DEF StartedInv
<1>8. HeldInv'
  BY <1>0, <1>1, <1>3, <1>4 DEF HeldInv
<1>9. ExitInv'
  BY <1>0, <1>1, <1>2, <1>3 DEF ExitInv
<1>10. RunInv'
  <2>1. \A v \in Workers : worker'[v] = "run" => v # w /\ worker[v] = "run" /\ worker[v] \in Busy
    BY <1>2, <1>3 DEF Busy, WorkerStates
  <2>2. \A v \in Workers : worker'[v] = "run" => runs'[held'[v]] = 0
    BY <1>0, <1>1, <1>5, <1>6, <2>1 DEF RunInv, HeldInv
  <2>3. \A i \in Jobs : i < indexNext /\ runs'[i] = 0 =>
          \E v \in Workers : worker'[v] = "run" /\ held'[v] = i
    <3> SUFFICES ASSUME NEW i \in Jobs, i < indexNext, runs'[i] = 0
                 PROVE  \E v \in Workers : worker'[v] = "run" /\ held'[v] = i
      OBVIOUS
    <3>1. i # held[w] /\ runs[i] = 0
      BY <1>6
    <3>2. PICK v \in Workers : worker[v] = "run" /\ held[v] = i
      BY <1>0, <3>1 DEF RunInv
    <3> QED
      BY <1>1, <1>3, <3>1, <3>2
  <2>4. \A i \in Jobs : i >= indexNext => runs'[i] = 0
    BY <1>0, <1>5, <1>6 DEF RunInv, TypeOK, Jobs
  <2>5. \A i \in Jobs : runs'[i] = 1 => logs'[i] = outcome[i]
    BY <1>0, <1>6 DEF RunInv
  <2>6. \A i \in Jobs : runs'[i] \in {0, 1}
    BY <1>0, <1>6 DEF RunInv
  <2> QED
    BY <1>1, <2>2, <2>3, <2>4, <2>5, <2>6 DEF RunInv
<1>11. Counted' = Counted
  BY <1>1, <1>3, <1>4, <1>5, <1>6 DEF Counted
<1>12. Recorded' = Recorded
  BY <1>1, <1>3, <1>4, <1>5, <1>6 DEF Recorded
<1>13. CountInv' /\ FailInv'
  BY <1>0, <1>1, <1>11, <1>12 DEF CountInv, FailInv
<1>14. MainInv'
  <2>1. main \notin {"merge", "returned"}
    BY <1>4, WorkerAlive
  <2> QED
    BY <1>0, <1>1, <2>1 DEF MainInv
<1> QED
  BY <1>7, <1>8, <1>9, <1>10, <1>13, <1>14 DEF IInv

LEMMA CountedFinite == IsFiniteSet(Jobs) /\ IsFiniteSet(Counted) /\ Cardinality(Jobs) = JobCount
<1>1. IsFiniteSet(Jobs) /\ Cardinality(Jobs) = JobCount
  BY FS_Interval, JobReportAssumption DEF Jobs
<1>2. Counted \subseteq Jobs
  BY DEF Counted
<1> QED
  BY <1>1, <1>2, FS_Subset

LEMMA CountJobStep ==
  ASSUME IInv, TypeOK', NEW w \in Workers, CountJob(w)
  PROVE  IInv'
<1>0. TypeOK /\ StartedInv /\ HeldInv /\ ExitInv /\ RunInv /\ CountInv /\ FailInv /\ MainInv
  BY DEF IInv
<1>1. UNCHANGED << outcome, started, logs, runs, report, main, indexNext, held, hasFailed >>
  BY DEF CountJob, shared
<1>2. PICK t \in {"print", "record"} : worker' = [worker EXCEPT ![w] = t]
  BY DEF CountJob
<1>3. \A v \in Workers : worker'[v] = IF v = w THEN t ELSE worker[v]
  BY <1>0, <1>2 DEF TypeOK
<1>4. worker[w] = "count" /\ t \in Busy /\ worker[w] \in Busy
  BY <1>2 DEF Busy, WorkerStates, CountJob
<1>5. StartedInv'
  BY <1>0, <1>1, <1>2, <1>3, <1>4 DEF StartedInv
<1>6. HeldInv'
  BY <1>0, <1>1, <1>3, <1>4 DEF HeldInv
<1>7. ExitInv'
  BY <1>0, <1>1, <1>2, <1>3 DEF ExitInv
<1>8. RunInv'
  <2>1. \A v \in Workers : worker'[v] = "run" <=> worker[v] = "run"
    BY <1>2, <1>3, <1>4
  <2> QED
    BY <1>0, <1>1, <2>1 DEF RunInv
<1>9. CountInv'
  <2>1. held[w] \in Jobs /\ held[w] < indexNext
    BY <1>0, <1>4 DEF HeldInv
  <2>2. runs[held[w]] = 1
    <3>1. \A v \in Workers : worker[v] = "run" => held[v] # held[w]
      BY <1>0, <1>4 DEF HeldInv, Busy, WorkerStates
    <3> QED
      BY <1>0, <2>1, <3>1 DEF RunInv
  <2>3. held[w] \notin Counted
    BY <1>4 DEF Counted
  <2>4. \A v \in Workers : v # w /\ worker[v] \in {"lock", "count"} => held[v] # held[w]
    BY <1>0, <1>4 DEF HeldInv, Busy, WorkerStates
  <2>5. Counted' = Counted \cup {held[w]}
    <3>1. \A i \in Jobs : i \in Counted' <=>
            runs[i] = 1 /\ \A v \in Workers \ {w} : worker[v] \in {"lock", "count"} => held[v] # i
      BY <1>1, <1>2, <1>3 DEF Counted
    <3>2. \A i \in Jobs : i \in Counted <=>
            /\ runs[i] = 1 /\ held[w] # i
            /\ \A v \in Workers \ {w} : worker[v] \in {"lock", "count"} => held[v] # i
      BY <1>4 DEF Counted
    <3>3. Counted' \subseteq Jobs /\ Counted \subseteq Jobs
      BY DEF Counted
    <3> QED
      BY <2>1, <2>2, <2>4, <3>1, <3>2, <3>3
  <2>6. Cardinality(Counted') = Cardinality(Counted) + 1
    BY <2>3, <2>5, CountedFinite, FS_AddElement
  <2> QED
    BY <1>0, <2>6 DEF CountInv, CountJob
<1>10. Recorded' = Recorded
  <2>1. \A v \in Workers : worker'[v] \in Busy <=> worker[v] \in Busy
    BY <1>3, <1>4
  <2> QED
    BY <1>1, <2>1 DEF Recorded
<1>11. FailInv'
  BY <1>0, <1>1, <1>10 DEF FailInv
<1>12. MainInv'
  <2>1. main \notin {"merge", "returned"}
    BY <1>4, WorkerAlive
  <2> QED
    BY <1>0, <1>1, <2>1 DEF MainInv
<1> QED
  BY <1>5, <1>6, <1>7, <1>8, <1>9, <1>11, <1>12 DEF IInv

LEMMA RecordResultStep ==
  ASSUME IInv, TypeOK', NEW w \in Workers, RecordResult(w)
  PROVE  IInv'
<1>0. TypeOK /\ StartedInv /\ HeldInv /\ ExitInv /\ RunInv /\ CountInv /\ FailInv /\ MainInv
  BY DEF IInv
<1>1. UNCHANGED << outcome, started, logs, runs, report, main, indexNext, held, completed >>
  BY DEF RecordResult, shared
<1>2. \A v \in Workers : worker'[v] = IF v = w THEN "claim" ELSE worker[v]
  BY <1>0 DEF TypeOK, RecordResult
<1>3. worker[w] = "record" /\ worker[w] \in Busy /\ "claim" \notin Busy
  BY DEF Busy, WorkerStates, RecordResult
<1>4. StartedInv'
  BY <1>0, <1>1, <1>2, <1>3 DEF StartedInv
<1>5. HeldInv'
  BY <1>0, <1>1, <1>2, <1>3 DEF HeldInv
<1>6. ExitInv'
  BY <1>0, <1>1, <1>2 DEF ExitInv
<1>7. RunInv'
  <2>1. \A v \in Workers : worker'[v] = "run" <=> worker[v] = "run"
    BY <1>2, <1>3
  <2> QED
    BY <1>0, <1>1, <2>1 DEF RunInv
<1>8. Counted' = Counted
  <2>1. \A v \in Workers : worker'[v] \in {"lock", "count"} <=> worker[v] \in {"lock", "count"}
    BY <1>2, <1>3
  <2> QED
    BY <1>1, <2>1 DEF Counted
<1>9. FailInv'
  <2>1. held[w] \in Jobs /\ held[w] < indexNext
    BY <1>0, <1>3 DEF HeldInv
  <2>2. runs[held[w]] = 1
    <3>1. \A v \in Workers : worker[v] = "run" => held[v] # held[w]
      BY <1>0, <1>3 DEF HeldInv, Busy, WorkerStates
    <3> QED
      BY <1>0, <2>1, <3>1 DEF RunInv
  <2>3. \A v \in Workers : v # w /\ worker[v] \in Busy => held[v] # held[w]
    BY <1>0, <1>3 DEF HeldInv
  <2>4. Recorded' = Recorded \cup {held[w]}
    <3>1. \A i \in Jobs : i \in Recorded' <=>
            runs[i] = 1 /\ \A v \in Workers \ {w} : worker[v] \in Busy => held[v] # i
      BY <1>1, <1>2, <1>3 DEF Recorded
    <3>2. \A i \in Jobs : i \in Recorded <=>
            /\ runs[i] = 1 /\ held[w] # i
            /\ \A v \in Workers \ {w} : worker[v] \in Busy => held[v] # i
      BY <1>3 DEF Recorded
    <3>3. Recorded' \subseteq Jobs /\ Recorded \subseteq Jobs
      BY DEF Recorded
    <3> QED
      BY <2>1, <2>2, <2>3, <3>1, <3>2, <3>3
  <2>5. hasFailed' <=> hasFailed \/ outcome[held[w]].rc # 0
    BY DEF RecordResult
  <2> QED
    BY <1>0, <1>1, <2>4, <2>5 DEF FailInv
<1>10. CountInv'
  BY <1>0, <1>1, <1>8 DEF CountInv
<1>11. MainInv'
  <2>1. main \notin {"merge", "returned"}
    BY <1>3, WorkerAlive
  <2> QED
    BY <1>0, <1>1, <2>1 DEF MainInv
<1> QED
  BY <1>4, <1>5, <1>6, <1>7, <1>9, <1>10, <1>11 DEF IInv

LEMMA StepIInv == IInv /\ [Next]_vars => IInv'
<1> SUFFICES ASSUME IInv, [Next]_vars PROVE IInv'
  OBVIOUS
<1>1. TypeOK'
  BY TypeStep DEF IInv
<1>2. ASSUME NEW w \in Workers, WorkerStep(w) PROVE IInv'
  BY <1>1, <1>2, ClaimJobStep, RunJobStep, PrintStep, CountJobStep, RecordResultStep DEF WorkerStep
<1>3. CASE MainStep \/ UNCHANGED vars
  BY <1>1, <1>3, StartWorkerStep, MainStepStep DEF MainStep
<1> QED
  BY <1>2, <1>3 DEF Next, Returned

THEOREM Inductive == Spec => []IInv
BY InitIInv, StepIInv, PTL DEF Spec

(* No index is handed out twice, for every number of jobs and of workers. *)
THEOREM RunsOnce == Spec => []JobsRunOnce
<1>1. IInv => JobsRunOnce
  BY DEF IInv, RunInv, HeldInv, JobsRunOnce
<1> QED
  BY <1>1, Inductive, PTL

(* The merge reads logs that no worker can still write, each one complete.  *)
THEOREM MergesAfterJoin == Spec => []MergeAfterJoin
<1>1. ASSUME IInv PROVE MergeAfterJoin
  <2> SUFFICES ASSUME main \in {"merge", "returned"}
               PROVE  /\ \A w \in Workers : worker[w] \in {"unborn", "exited"}
                      /\ started > 0 => \A i \in Jobs : runs[i] = 1 /\ logs[i] = outcome[i]
                      /\ completed = (IF started > 0 THEN JobCount ELSE 0)
    BY DEF MergeAfterJoin
  <2>1. \A w \in Workers : worker[w] \in {"unborn", "exited"}
    BY <1>1 DEF IInv, MainInv
  <2>2. CASE started > 0
    <3>1. 0 \in Workers /\ worker[0] = "exited"
      BY <1>1, <2>1, <2>2, PoolSizeType DEF IInv, TypeOK, StartedInv, Workers
    <3>2. \A i \in Jobs : i < indexNext
      BY <1>1, <3>1, JobReportAssumption DEF IInv, TypeOK, ExitInv, Jobs
    <3>3. \A i \in Jobs : runs[i] = 1 /\ logs[i] = outcome[i]
      BY <1>1, <2>1, <3>2 DEF IInv, RunInv
    <3>4. Counted = Jobs
      BY <2>1, <3>3 DEF Counted
    <3>5. completed = JobCount
      BY <1>1, <3>4, CountedFinite DEF IInv, CountInv
    <3> QED
      BY <2>1, <2>2, <3>3, <3>5
  <2>3. CASE ~ (started > 0)
    <3>1. started = 0
      BY <1>1, <2>3, PoolSizeType DEF IInv, TypeOK
    <3>2. Counted = {}
      BY <1>1, <3>1 DEF IInv, ExitInv, RunInv, Counted, Jobs
    <3>3. completed = 0
      BY <1>1, <3>2, FS_EmptySet DEF IInv, CountInv
    <3> QED
      BY <2>1, <2>3, <3>3
  <2> QED
    BY <2>2, <2>3
<1> QED
  BY <1>1, Inductive, PTL

-----------------------------------------------------------------------------
(* The threads implement the abstract phase.  A worker's run of a job is    *)
(* the abstract job, the merge is the abstract report, and every other step *)
(* stutters.                                                                *)
Ran == {i \in Jobs : runs[i] > 0}

LEMMA SameReport == \A ls, rc : Phase!ReportErrors(ls, rc) = ReportErrors(ls, rc)
BY DEF Phase!ReportErrors, ReportErrors, Phase!ScanLogs, ScanLogs

LEMMA PhaseInit == Init => Phase!Init
<1>1. Init => Ran = {}
  BY DEF Init, Ran
<1> QED
  BY <1>1 DEF Init, Phase!Init, Ran, Phase!Jobs, Jobs, NoReport, Phase!NoReport

LEMMA PhaseRunJob ==
  ASSUME IInv, NEW w \in Workers, RunJob(w)
  PROVE  \E i \in Phase!Jobs : Phase!FinishJob(i)
<1>1. worker[w] = "run" /\ worker[w] \in Busy
  BY DEF RunJob, Busy, WorkerStates
<1>2. held[w] \in Jobs /\ runs[held[w]] = 0 /\ report = NoReport
  BY <1>1, WorkerAlive DEF IInv, HeldInv, RunInv
<1>3. \A i \in Jobs : runs'[i] = IF i = held[w] THEN 1 ELSE runs[i]
  BY <1>2 DEF RunJob, IInv, TypeOK
<1>4. Ran' = Ran \cup {held[w]} /\ held[w] \notin Ran
  BY <1>2, <1>3 DEF Ran
<1>5. PICK i \in Jobs : i = held[w]
  BY <1>2
<1>6. Phase!FinishJob(i)
  BY <1>2, <1>4, <1>5 DEF RunJob, Phase!FinishJob, Ran, NoReport, Phase!NoReport
<1> QED
  BY <1>6 DEF Jobs, Phase!Jobs

(* What the merge reports: that no thread started, or the serial report.     *)
SerialReport == ReportErrors(outcome, IF \E i \in Jobs : outcome[i].rc # 0 THEN -1 ELSE 0)

LEMMA MergedReport ==
  ASSUME IInv, MergeAfterJoin, MergeLogs
  PROVE  IF JobCount > 0 /\ started = 0
         THEN report' = ReportCannotStart /\ Ran = {}
         ELSE report' = SerialReport /\ Ran = Jobs
<1>1. started \in Nat /\ completed = (IF started > 0 THEN JobCount ELSE 0)
  BY PoolSizeType DEF MergeAfterJoin, MergeLogs, IInv, TypeOK
<1>2. CASE JobCount > 0 /\ started = 0
  <2>1. Ran = {}
    BY <1>2 DEF IInv, ExitInv, RunInv, Ran, Jobs
  <2>2. report' = ReportCannotStart
    BY <1>1, <1>2 DEF MergeLogs, PoolResult
  <2> QED
    BY <1>2, <2>1, <2>2
<1>3. CASE ~ (JobCount > 0 /\ started = 0)
  <2>1. \A i \in Jobs : runs[i] = 1 /\ logs[i] = outcome[i]
    BY <1>1, <1>3, JobReportAssumption DEF MergeAfterJoin, MergeLogs, Jobs
  <2>2. logs = outcome
    BY <2>1 DEF IInv, TypeOK
  <2>3. Ran = Jobs
    BY <2>1 DEF Ran
  <2>4. Recorded = Jobs
    BY <2>1 DEF Recorded, Busy, MergeAfterJoin, MergeLogs
  <2>5. PoolResult = IF \E i \in Jobs : outcome[i].rc # 0 THEN -1 ELSE 0
    <3>1. hasFailed <=> \E i \in Jobs : outcome[i].rc # 0
      BY <2>4 DEF IInv, FailInv
    <3> QED
      BY <1>1, <1>3, <3>1, JobReportAssumption DEF PoolResult, Jobs
  <2>6. ~ (PoolResult # 0 /\ completed = 0)
    BY <1>1, <1>3, JobReportAssumption DEF PoolResult
  <2>7. report' = SerialReport
    BY <2>2, <2>5, <2>6 DEF MergeLogs, SerialReport
  <2> QED
    BY <1>3, <2>3, <2>7
<1> QED
  BY <1>2, <1>3

LEMMA PhaseMergeLogs ==
  ASSUME IInv, MergeAfterJoin, MergeLogs
  PROVE  Phase!Report \/ Phase!CannotStart
<1>1. report = NoReport /\ UNCHANGED << outcome, runs >>
  BY DEF IInv, MainInv, MergeLogs
<1>2. Ran' = Ran
  BY <1>1 DEF Ran
<1>3. CASE JobCount > 0 /\ started = 0
  <2>1. report' = ReportCannotStart /\ Ran = {}
    BY <1>3, MergedReport
  <2> QED
    BY <1>1, <1>2, <1>3, <2>1
       DEF Phase!CannotStart, Ran, NoReport, Phase!NoReport, ReportCannotStart, Phase!ReportCannotStart
<1>4. CASE ~ (JobCount > 0 /\ started = 0)
  <2>1. report' = SerialReport /\ Ran = Jobs
    BY <1>4, MergedReport
  <2>2. report' = Phase!SerialReport
    BY <2>1, SameReport DEF Phase!SerialReport, Phase!Jobs, Jobs, SerialReport
  <2> QED
    BY <1>1, <1>2, <2>1, <2>2 DEF Phase!Report, Ran, NoReport, Phase!NoReport, Jobs, Phase!Jobs
<1> QED
  BY <1>3, <1>4

LEMMA PhaseStep ==
  IInv /\ MergeAfterJoin /\ [Next]_vars => [Phase!Next]_(Phase!vars)
<1> SUFFICES ASSUME IInv, MergeAfterJoin, [Next]_vars
             PROVE  [Phase!Next]_(Phase!vars)
  OBVIOUS
<1>1. ASSUME UNCHANGED << outcome, runs, report >> PROVE UNCHANGED Phase!vars
  BY <1>1 DEF Phase!vars
<1>2. CASE StartWorker \/ EndCreate \/ JoinWorkers \/ UNCHANGED vars
  BY <1>1, <1>2 DEF StartWorker, EndCreate, JoinWorkers, vars
<1>3. CASE MergeLogs
  BY <1>3, PhaseMergeLogs DEF Phase!Next
<1>4. ASSUME NEW w \in Workers, WorkerStep(w) PROVE [Phase!Next]_(Phase!vars)
  <2>1. CASE RunJob(w)
    BY <2>1, PhaseRunJob DEF Phase!Next
  <2>2. CASE ~ RunJob(w)
    BY <1>1, <1>4, <2>2 DEF WorkerStep, ClaimJob, LockProgress, CountJob, PrintLine, PrintRest,
                             UnlockProgress, RecordResult, shared
  <2> QED
    BY <2>1, <2>2
<1> QED
  BY <1>2, <1>3, <1>4 DEF Next, MainStep, Returned

(* Every run of the threads is a run of the abstract phase. *)
THEOREM Implements == Spec => ImplementsPhase
<1>1. Spec => []IInv /\ []MergeAfterJoin
  BY Inductive, MergesAfterJoin
<1> QED
  BY <1>1, PhaseInit, PhaseStep, PTL DEF Spec, ImplementsPhase, Phase!Spec

-----------------------------------------------------------------------------
(* Progress lines.  A line starts with its first piece, and a short write    *)
(* leaves a head whose rest comes next.                                      *)
Starting == {"whole", "head", "lost"}
Starts(s) == {n \in 1 .. Len(s) : s[n].part \in Starting}

IsOrdered(s) ==
  /\ \A n \in Starts(s) : s[n].count = Cardinality({m \in Starts(s) : m <= n})
  /\ \A n \in 1 .. Len(s) : s[n].part = "rest" =>
       n > 1 /\ s[n - 1] = [count |-> s[n].count, part |-> "head"]

LEMMA StartsAreFinite ==
  ASSUME NEW s \in Seq(Piece)
  PROVE  /\ Len(s) \in Nat /\ IsFiniteSet(Starts(s)) /\ Cardinality(Starts(s)) \in Nat
         /\ \A n : {m \in Starts(s) : m <= n} \subseteq Starts(s)
<1>1. Len(s) \in Nat /\ IsFiniteSet(1 .. Len(s))
  <2>1. Len(s) \in Nat
    OBVIOUS
  <2>2. 1 \in Int /\ Len(s) \in Int
    BY <2>1
  <2> QED
    BY <2>1, <2>2, FS_Interval
<1>2. Starts(s) \in SUBSET (1 .. Len(s))
  BY DEF Starts
<1>3. IsFiniteSet(Starts(s))
  BY <1>1, <1>2, FS_Subset
<1> QED
  BY <1>1, <1>3, FS_CardinalityType

LEMMA OneMorePiece ==
  ASSUME NEW s \in Seq(Piece), NEW p \in Piece
  PROVE  /\ Append(s, p) \in Seq(Piece) /\ Len(Append(s, p)) = Len(s) + 1
         /\ Append(s, p)[Len(s) + 1] = p /\ \A n \in 1 .. Len(s) : Append(s, p)[n] = s[n]
         /\ p.part \in Starting => Starts(Append(s, p)) = Starts(s) \cup {Len(s) + 1}
         /\ p.part \notin Starting => Starts(Append(s, p)) = Starts(s)
<1>1. /\ Append(s, p) \in Seq(Piece) /\ Len(Append(s, p)) = Len(s) + 1 /\ Len(s) \in Nat
      /\ Append(s, p)[Len(s) + 1] = p /\ \A n \in 1 .. Len(s) : Append(s, p)[n] = s[n]
  OBVIOUS
<1>2. \A n : n \in 1 .. (Len(s) + 1) <=> n \in 1 .. Len(s) \/ n = Len(s) + 1
  BY <1>1
<1>3. \A n : n \in Starts(Append(s, p)) <=>
               n \in Starts(s) \/ (n = Len(s) + 1 /\ p.part \in Starting)
  BY <1>1, <1>2 DEF Starts
<1> QED
  BY <1>1, <1>3

(* A line that starts counts one more than those before it.                  *)
LEMMA NewLineIsCounted ==
  ASSUME NEW s \in Seq(Piece), NEW p \in Piece, p.part \in Starting
  PROVE  /\ Cardinality(Starts(Append(s, p))) = Cardinality(Starts(s)) + 1
         /\ IsOrdered(s) /\ p.count = Cardinality(Starts(s)) + 1 => IsOrdered(Append(s, p))
<1> DEFINE t == Append(s, p)
           k == Len(s) + 1
<1>1. /\ Len(t) = k /\ t[k] = p /\ (\A n \in 1 .. Len(s) : t[n] = s[n])
      /\ Starts(t) = Starts(s) \cup {k} /\ Len(s) \in Nat
      /\ IsFiniteSet(Starts(s)) /\ Cardinality(Starts(s)) \in Nat
  BY OneMorePiece, StartsAreFinite
<1>2. \A n \in Starts(s) : n \in 1 .. Len(s)
  BY DEF Starts
<1>3. k \notin Starts(s)
  BY <1>1, <1>2
<1> HIDE DEF t
<1>4. Cardinality(Starts(t)) = Cardinality(Starts(s)) + 1
  <2> HIDE DEF k
  <2>1. Cardinality(Starts(s) \cup {k}) = Cardinality(Starts(s)) + 1
    BY <1>1, <1>3, FS_AddElement
  <2> QED
    BY <1>1, <2>1
<1>5. ASSUME IsOrdered(s), p.count = Cardinality(Starts(s)) + 1
      PROVE  IsOrdered(t)
  <2>1. ASSUME NEW n \in Starts(t)
        PROVE  t[n].count = Cardinality({m \in Starts(t) : m <= n})
    <3>1. CASE n = k
      <4>1. \A m \in Starts(t) : m <= n
        BY <1>1, <1>2, <3>1
      <4>2. {m \in Starts(t) : m <= n} = Starts(t)
        BY <4>1
      <4> QED
        BY <1>1, <1>4, <1>5, <3>1, <4>2
    <3>2. CASE n # k
      <4>1. n \in Starts(s) /\ n \in 1 .. Len(s)
        BY <1>1, <1>2, <3>2
      <4>2. {m \in Starts(t) : m <= n} = {m \in Starts(s) : m <= n}
        BY <1>1, <4>1
      <4> QED
        BY <1>1, <1>5, <4>1, <4>2 DEF IsOrdered
    <3> QED
      BY <3>1, <3>2
  <2>2. ASSUME NEW n \in 1 .. Len(t), t[n].part = "rest"
        PROVE  n > 1 /\ t[n - 1] = [count |-> t[n].count, part |-> "head"]
    <3>1. n # k
      BY <1>1, <2>2 DEF Starting
    <3>2. n \in 1 .. Len(s)
      BY <1>1, <3>1
    <3>3. n > 1 /\ s[n - 1] = [count |-> s[n].count, part |-> "head"]
      BY <1>1, <1>5, <2>2, <3>2 DEF IsOrdered
    <3>4. n - 1 \in 1 .. Len(s)
      BY <1>1, <3>2, <3>3
    <3> QED
      BY <1>1, <3>2, <3>3, <3>4
  <2> QED
    BY <2>1, <2>2 DEF IsOrdered
<1> QED
  BY <1>4, <1>5 DEF t

(* The rest of a line follows its head; a last newline starts no line.       *)
LEMMA LineGoesOn ==
  ASSUME NEW s \in Seq(Piece), NEW p \in Piece, IsOrdered(s),
         \/ p.part = "newline"
         \/ p.part = "rest" /\ s # <<>> /\ s[Len(s)] = [count |-> p.count, part |-> "head"]
  PROVE  IsOrdered(Append(s, p)) /\ Starts(Append(s, p)) = Starts(s)
<1> DEFINE t == Append(s, p)
           k == Len(s) + 1
<1>1. /\ Len(t) = k /\ t[k] = p /\ (\A n \in 1 .. Len(s) : t[n] = s[n]) /\ Len(s) \in Nat
      /\ Starts(t) = Starts(s)
  BY OneMorePiece DEF Starting
<1>2. \A n \in Starts(s) : n \in 1 .. Len(s)
  BY DEF Starts
<1> HIDE DEF t
<1>3. ASSUME NEW n \in 1 .. Len(t), t[n].part = "rest"
      PROVE  n > 1 /\ t[n - 1] = [count |-> t[n].count, part |-> "head"]
  <2>1. CASE n = k
    <3>1. p.part = "rest" /\ s # <<>> /\ s[Len(s)] = [count |-> p.count, part |-> "head"]
      BY <1>1, <1>3, <2>1
    <3>2. Len(s) > 0 /\ Len(s) \in 1 .. Len(s) /\ k - 1 = Len(s)
      BY <1>1, <3>1
    <3> QED
      BY <1>1, <2>1, <3>1, <3>2
  <2>2. CASE n # k
    <3>1. n \in 1 .. Len(s)
      BY <1>1, <2>2
    <3>2. n > 1 /\ s[n - 1] = [count |-> s[n].count, part |-> "head"]
      BY <1>1, <1>3, <3>1 DEF IsOrdered
    <3>3. n - 1 \in 1 .. Len(s)
      BY <1>1, <3>1, <3>2
    <3> QED
      BY <1>1, <3>1, <3>2, <3>3
  <2> QED
    BY <2>1, <2>2
<1>4. \A n \in Starts(t) : t[n].count = Cardinality({m \in Starts(t) : m <= n})
  BY <1>1, <1>2 DEF IsOrdered
<1> QED
  BY <1>1, <1>3, <1>4 DEF t, IsOrdered

(* The worker that holds the lock is the one that counts and prints, so the  *)
(* lines count what is completed, but for one that is still to be printed.   *)
Printing == {"count", "print", "retry", "unlock"}

ProgressInv ==
  /\ IsOrdered(printed)
  /\ ~Verbose => \A w \in Workers : worker[w] \notin {"lock", "print", "retry", "unlock"}
  /\ Verbose => \A w \in Workers : worker[w] \in Printing <=> lock = w
  /\ Verbose => completed = Cardinality(Starts(printed))
                            + (IF \E w \in Workers : worker[w] = "print" THEN 1 ELSE 0)
  /\ \A w \in Workers : worker[w] = "print" => line[w] = completed
  /\ \A w \in Workers : worker[w] = "retry" =>
       printed # <<>> /\ printed[Len(printed)] = [count |-> line[w], part |-> "head"]

(* The other variables of a step that prints nothing and counts nothing.     *)
LEMMA QuietStep ==
  ASSUME TypeOK, ProgressInv, NEW w \in Workers, NEW from, NEW to,
         worker[w] = from, worker' = [worker EXCEPT ![w] = to],
         from \notin Printing \ (IF Verbose THEN {} ELSE {"count"}),
         to \notin Printing \ (IF Verbose THEN {} ELSE {"count"}), to = "lock" => Verbose,
         UNCHANGED <<completed, lock, line, printed>>
  PROVE  ProgressInv'
<1>1. \A v \in Workers : worker'[v] = IF v = w THEN to ELSE worker[v]
  BY DEF TypeOK
<1>2. {"print", "retry", "unlock"} \cap {from, to} = {}
  BY DEF Printing
<1>3. IsOrdered(printed)' /\ (\E v \in Workers : worker'[v] = "print") =
                             (\E v \in Workers : worker[v] = "print")
  BY <1>1, <1>2 DEF ProgressInv
<1>4. ~Verbose => \A v \in Workers : worker'[v] \notin {"lock", "print", "retry", "unlock"}
  BY <1>1, <1>2 DEF ProgressInv
<1>5. Verbose => \A v \in Workers : worker'[v] \in Printing <=> lock' = v
  BY <1>1 DEF ProgressInv
<1>6. Verbose => completed' = Cardinality(Starts(printed'))
                              + (IF \E v \in Workers : worker'[v] = "print" THEN 1 ELSE 0)
  BY <1>3 DEF ProgressInv
<1>7. \A v \in Workers : /\ worker'[v] = "print" => worker[v] = "print"
                         /\ worker'[v] = "retry" => worker[v] = "retry"
  BY <1>1, <1>2
<1> QED
  BY <1>3, <1>4, <1>5, <1>6, <1>7 DEF ProgressInv

LEMMA LockProgressOrdered ==
  ASSUME TypeOK, ProgressInv, NEW w \in Workers, LockProgress(w)
  PROVE  ProgressInv'
<1>1. /\ worker[w] = "lock" /\ lock = NoJob /\ lock' = w /\ Verbose
      /\ \A v \in Workers : worker'[v] = IF v = w THEN "count" ELSE worker[v]
      /\ completed' = completed /\ line' = line /\ printed' = printed
  BY DEF LockProgress, TypeOK, shared, ProgressInv
<1>2. \A v \in Workers : v # NoJob
  BY PoolSizeType DEF Workers, NoJob
<1>3. \A v \in Workers : worker[v] \notin Printing
  BY <1>1, <1>2 DEF ProgressInv
<1>4. \A v \in Workers : worker'[v] \in Printing <=> lock' = v
  BY <1>1, <1>3 DEF Printing
<1>5. \A v \in Workers : worker'[v] \notin {"print", "retry"} /\ worker[v] # "print"
  BY <1>1, <1>3 DEF Printing
<1>6. completed' = Cardinality(Starts(printed')) + 0 /\ IsOrdered(printed')
  BY <1>1, <1>5 DEF ProgressInv, TypeOK
<1> QED
  BY <1>1, <1>4, <1>5, <1>6 DEF ProgressInv

LEMMA CountJobOrdered ==
  ASSUME TypeOK, ProgressInv, NEW w \in Workers, CountJob(w)
  PROVE  ProgressInv'
<1>1. /\ worker[w] = "count" /\ completed' = completed + 1 /\ completed \in Nat
      /\ \A v \in Workers : worker'[v] = IF v = w THEN (IF Verbose THEN "print" ELSE "record")
                                         ELSE worker[v]
      /\ \A v \in Workers : line'[v] = IF v = w THEN completed + 1 ELSE line[v]
      /\ lock' = lock /\ printed' = printed
  BY DEF CountJob, TypeOK, shared
<1>2. IsOrdered(printed')
  BY <1>1 DEF ProgressInv
<1>3. CASE Verbose
  <2>1. \A v \in Workers \ {w} : worker[v] \notin Printing
    BY <1>1, <1>3 DEF ProgressInv, Printing
  <2>2. \A v \in Workers : worker'[v] \in Printing <=> lock' = v
    BY <1>1, <1>3 DEF ProgressInv, Printing
  <2>3. \A v \in Workers : /\ worker'[v] = "print" => v = w
                           /\ worker'[v] # "retry" /\ worker[v] # "print"
    BY <1>1, <1>3, <2>1 DEF Printing
  <2>4. worker'[w] = "print"
    BY <1>1, <1>3
  <2>5. completed = Cardinality(Starts(printed)) + 0
    BY <1>3, <2>3 DEF ProgressInv
  <2>6. completed' = Cardinality(Starts(printed'))
                     + (IF \E v \in Workers : worker'[v] = "print" THEN 1 ELSE 0)
    BY <1>1, <2>4, <2>5, StartsAreFinite DEF TypeOK
  <2>7. \A v \in Workers : worker'[v] = "print" => line'[v] = completed'
    BY <1>1, <2>3
  <2> QED
    BY <1>2, <1>3, <2>2, <2>3, <2>6, <2>7 DEF ProgressInv
<1>4. CASE ~Verbose
  <2>1. \A v \in Workers : worker'[v] \notin {"lock", "print", "retry", "unlock"}
    BY <1>1, <1>4 DEF ProgressInv
  <2> QED
    BY <1>2, <1>4, <2>1 DEF ProgressInv
<1> QED
  BY <1>3, <1>4

(* The worker at its line holds the lock, so no other one prints.            *)
LEMMA AloneWithTheLock ==
  ASSUME TypeOK, ProgressInv, NEW w \in Workers, worker[w] \in {"print", "retry", "unlock"}
  PROVE  Verbose /\ lock = w /\ \A v \in Workers \ {w} : worker[v] \notin Printing
BY DEF ProgressInv, Printing

LEMMA PrintLineOrdered ==
  ASSUME TypeOK, ProgressInv, NEW w \in Workers, PrintLine(w)
  PROVE  ProgressInv'
<1>1. worker[w] = "print" /\ completed' = completed /\ lock' = lock /\ line' = line
  BY DEF PrintLine, shared
<1>2. Verbose /\ lock = w /\ \A v \in Workers \ {w} : worker[v] \notin Printing
  BY <1>1, AloneWithTheLock
<1>3. PICK part \in {"whole", "head", "lost"} :
        /\ printed' = Append(printed, [count |-> line[w], part |-> part])
        /\ worker' = [worker EXCEPT ![w] = IF part = "head" THEN "retry" ELSE "unlock"]
  BY DEF PrintLine
<1> DEFINE piece == [count |-> line[w], part |-> part]
<1>4. piece \in Piece /\ piece.part \in Starting /\ piece.count = line[w] /\ printed \in Seq(Piece)
  BY DEF TypeOK, Piece, Starting
<1>5. line[w] = completed /\ completed = Cardinality(Starts(printed)) + 1
  BY <1>1, <1>2 DEF ProgressInv
<1> HIDE DEF piece
<1>6. /\ Cardinality(Starts(printed')) = completed /\ IsOrdered(printed')
  BY <1>3, <1>4, <1>5, NewLineIsCounted DEF ProgressInv, piece
<1>7. \A v \in Workers : worker'[v] = IF v = w THEN (IF part = "head" THEN "retry" ELSE "unlock")
                                      ELSE worker[v]
  BY <1>3 DEF TypeOK
<1>8. \A v \in Workers : /\ worker'[v] # "print" /\ (worker'[v] \in Printing <=> lock' = v)
                         /\ worker'[v] = "retry" => v = w /\ part = "head"
  BY <1>1, <1>2, <1>7 DEF Printing
<1>9. printed' # <<>> /\ printed'[Len(printed')] = piece
  <2>1. /\ Len(printed') = Len(printed) + 1 /\ printed'[Len(printed) + 1] = piece
        /\ printed' \in Seq(Piece) /\ Len(printed) \in Nat
    BY <1>3, <1>4, OneMorePiece, StartsAreFinite DEF piece
  <2> QED
    BY <2>1
<1>10. \A v \in Workers : worker'[v] = "retry" =>
         printed' # <<>> /\ printed'[Len(printed')] = [count |-> line'[v], part |-> "head"]
  BY <1>1, <1>8, <1>9 DEF piece
<1>11. completed' = Cardinality(Starts(printed')) + 0
  BY <1>1, <1>6, StartsAreFinite DEF TypeOK
<1> QED
  BY <1>1, <1>2, <1>6, <1>8, <1>10, <1>11 DEF ProgressInv

LEMMA PrintRestOrdered ==
  ASSUME TypeOK, ProgressInv, NEW w \in Workers, PrintRest(w)
  PROVE  ProgressInv'
<1> DEFINE piece == [count |-> line[w], part |-> "rest"]
<1>1. /\ worker[w] = "retry" /\ completed' = completed /\ lock' = lock /\ line' = line
      /\ printed' = Append(printed, piece)
      /\ \A v \in Workers : worker'[v] = IF v = w THEN "unlock" ELSE worker[v]
  BY DEF PrintRest, shared, TypeOK
<1>2. Verbose /\ lock = w /\ \A v \in Workers \ {w} : worker[v] \notin Printing
  BY <1>1, AloneWithTheLock
<1>3. piece \in Piece /\ piece.part = "rest" /\ piece.count = line[w] /\ printed \in Seq(Piece)
  BY DEF TypeOK, Piece
<1>4. printed # <<>> /\ printed[Len(printed)] = [count |-> piece.count, part |-> "head"]
  BY <1>1, <1>3 DEF ProgressInv
<1> HIDE DEF piece
<1>5. IsOrdered(printed') /\ Starts(printed') = Starts(printed)
  BY <1>1, <1>3, <1>4, LineGoesOn DEF ProgressInv
<1>6. \A v \in Workers : /\ worker'[v] \notin {"print", "retry"} /\ worker[v] # "print"
                         /\ worker'[v] \in Printing <=> lock' = v
  BY <1>1, <1>2 DEF Printing
<1>7. completed' = Cardinality(Starts(printed')) + 0
  BY <1>1, <1>2, <1>5, <1>6 DEF ProgressInv
<1> QED
  BY <1>1, <1>2, <1>5, <1>6, <1>7 DEF ProgressInv

LEMMA UnlockOrdered ==
  ASSUME TypeOK, ProgressInv, NEW w \in Workers, UnlockProgress(w)
  PROVE  ProgressInv'
<1>1. /\ worker[w] = "unlock" /\ lock' = NoJob /\ completed' = completed /\ line' = line
      /\ printed' = printed
      /\ \A v \in Workers : worker'[v] = IF v = w THEN "record" ELSE worker[v]
  BY DEF UnlockProgress, shared, TypeOK
<1>2. Verbose /\ lock = w /\ \A v \in Workers \ {w} : worker[v] \notin Printing
  BY <1>1, AloneWithTheLock
<1>3. \A v \in Workers : v # NoJob
  BY PoolSizeType DEF Workers, NoJob
<1>4. \A v \in Workers : worker'[v] \notin Printing /\ worker[v] # "print"
  BY <1>1, <1>2 DEF Printing
<1>5. completed' = Cardinality(Starts(printed')) + 0 /\ IsOrdered(printed')
  BY <1>1, <1>2, <1>4 DEF ProgressInv
<1>6. \A v \in Workers : worker'[v] \notin {"print", "retry"}
  BY <1>4 DEF Printing
<1>7. \A v \in Workers : worker'[v] \in Printing <=> lock' = v
  BY <1>1, <1>3, <1>4
<1> QED
  BY <1>2, <1>5, <1>6, <1>7 DEF ProgressInv

(* The newline that ends the progress is printed when no worker is left.     *)
LEMMA MergeLogsOrdered ==
  ASSUME IInv, ProgressInv, MergeLogs
  PROVE  ProgressInv'
<1>1. /\ TypeOK /\ worker' = worker /\ lock' = lock /\ completed' = completed /\ line' = line
      /\ \A w \in Workers : worker[w] \in {"unborn", "exited"}
  BY DEF IInv, MainInv, MergeLogs
<1>2. IsOrdered(printed') /\ Starts(printed') = Starts(printed)
  <2> DEFINE piece == [count |-> 0, part |-> "newline"]
  <2>1. printed' = Append(printed, piece) \/ printed' = printed
    BY DEF MergeLogs
  <2>2. piece \in Piece /\ piece.part = "newline" /\ printed \in Seq(Piece)
    BY <1>1 DEF Piece, TypeOK
  <2> HIDE DEF piece
  <2>3. IsOrdered(Append(printed, piece)) /\ Starts(Append(printed, piece)) = Starts(printed)
    BY <2>2, LineGoesOn DEF ProgressInv
  <2> QED
    BY <2>1, <2>3 DEF ProgressInv
<1>3. \A w \in Workers : worker'[w] \notin {"lock", "print", "retry", "unlock", "count"}
  BY <1>1
<1>4. Verbose => /\ \A w \in Workers : worker'[w] \in Printing <=> lock' = w
                 /\ completed' = Cardinality(Starts(printed'))
                                 + (IF \E w \in Workers : worker'[w] = "print" THEN 1 ELSE 0)
  BY <1>1, <1>2 DEF ProgressInv
<1> QED
  BY <1>2, <1>3, <1>4 DEF ProgressInv

LEMMA InitProgress == Init => ProgressInv
<1> SUFFICES ASSUME Init
             PROVE  ProgressInv
  OBVIOUS
<1>1. /\ printed = <<>> /\ completed = 0 /\ lock = NoJob /\ Len(<<>>) = 0
      /\ \A w \in Workers : worker[w] = "unborn" /\ w # NoJob
  BY PoolSizeType DEF Init, Workers, NoJob
<1>2. Starts(printed) = {} /\ IsOrdered(printed)
  BY <1>1 DEF Starts, IsOrdered
<1>3. completed = Cardinality(Starts(printed)) + 0
  BY <1>1, <1>2, FS_EmptySet
<1>4. \A w \in Workers : worker[w] \notin Printing \cup {"lock"} /\ lock # w
  BY <1>1 DEF Printing
<1> QED
  BY <1>2, <1>3, <1>4 DEF ProgressInv, Printing

LEMMA StepProgress == IInv /\ ProgressInv /\ [Next]_vars => ProgressInv'
<1> SUFFICES ASSUME IInv, ProgressInv, [Next]_vars
             PROVE  ProgressInv'
  OBVIOUS
<1>0. TypeOK
  BY DEF IInv
<1>1. CASE StartWorker
  <2>1. /\ started \in Workers /\ worker[started] = "unborn"
        /\ worker' = [worker EXCEPT ![started] = "claim"]
        /\ UNCHANGED <<completed, lock, line, printed>>
    BY <1>0, <1>1 DEF StartWorker, IInv, StartedInv, TypeOK, Workers
  <2>2. {"unborn", "claim"} \cap Printing = {}
    BY DEF Printing
  <2> QED
    BY <1>0, <2>1, <2>2, QuietStep
<1>2. ASSUME NEW w \in Workers, ClaimJob(w)
      PROVE  ProgressInv'
  <2>1. worker[w] = "claim" /\ UNCHANGED <<completed, lock, line, printed>>
    BY <1>2 DEF ClaimJob
  <2>2. PICK to \in {"run", "exited"} : worker' = [worker EXCEPT ![w] = to]
    BY <1>2 DEF ClaimJob
  <2>3. {"claim", "run", "exited"} \cap Printing = {} /\ to # "lock"
    BY DEF Printing
  <2> QED
    BY <1>0, <2>1, <2>2, <2>3, QuietStep
<1>3. ASSUME NEW w \in Workers, RunJob(w)
      PROVE  ProgressInv'
  <2> DEFINE to == IF Verbose THEN "lock" ELSE "count"
  <2>1. /\ worker[w] = "run" /\ worker' = [worker EXCEPT ![w] = to]
        /\ UNCHANGED <<completed, lock, line, printed>>
    BY <1>3 DEF RunJob
  <2>2. /\ "run" \notin Printing /\ to \notin Printing \ (IF Verbose THEN {} ELSE {"count"})
        /\ to = "lock" => Verbose
    BY DEF Printing
  <2> HIDE DEF to
  <2> QED
    BY <1>0, <2>1, <2>2, QuietStep
<1>4. ASSUME NEW w \in Workers, RecordResult(w)
      PROVE  ProgressInv'
  <2>1. /\ worker[w] = "record" /\ worker' = [worker EXCEPT ![w] = "claim"]
        /\ UNCHANGED <<completed, lock, line, printed>>
    BY <1>4 DEF RecordResult
  <2>2. {"record", "claim"} \cap Printing = {}
    BY DEF Printing
  <2> QED
    BY <1>0, <2>1, <2>2, QuietStep
<1>5. CASE EndCreate \/ JoinWorkers \/ UNCHANGED vars
  <2>1. UNCHANGED <<worker, completed, lock, line, printed>>
    BY <1>5 DEF EndCreate, JoinWorkers, vars
  <2> QED
    BY <2>1 DEF ProgressInv
<1> QED
  BY <1>0, <1>1, <1>2, <1>3, <1>4, <1>5, LockProgressOrdered, CountJobOrdered, PrintLineOrdered,
     PrintRestOrdered, UnlockOrdered, MergeLogsOrdered
     DEF Next, MainStep, WorkerStep, Returned

-----------------------------------------------------------------------------
(* Induction over the naturals and what it gives: a function that is         *)
(* defined by recursion up to N exists.                                      *)
LEMMA SetInduction ==
  ASSUME NEW S \in SUBSET Nat, 0 \in S, \A n \in S : n + 1 \in S
  PROVE  S = Nat
<1> SUFFICES ASSUME Nat \ S # {}
             PROVE  FALSE
  OBVIOUS
<1> DEFINE R == {ss \in Nat \X Nat : ss[1] < ss[2]}
<1>0. IsWellFoundedOn(R, Nat)
  BY NatLessThanWellFounded, Zenon DEF OpToRel
<1>1. PICK n \in Nat \ S : \A m \in Nat \ S : ~ (<<m, n>> \in R)
  <2> HIDE DEF R
  <2>1. Nat \ S \subseteq Nat
    OBVIOUS
  <2> QED
    BY <1>0, <2>1, WFMin, Zenon
<1>2. n # 0 /\ n - 1 \in Nat
  OBVIOUS
<1>3. n - 1 \in S
  <2>1. <<n - 1, n>> \in R
    BY <1>2
  <2> QED
    BY <1>1, <1>2, <2>1
<1>4. n - 1 + 1 = n
  OBVIOUS
<1> QED
  BY <1>3, <1>4

Recurs(f, N, a, step) ==
  \A k \in 0 .. N : f[k] = IF k = 0 THEN a ELSE step[<<k - 1, f[k - 1]>>]

LEMMA Recursion ==
  ASSUME NEW N \in Nat, NEW V, NEW a \in V, NEW step \in [Nat \X V -> V]
  PROVE  \E f \in [0 .. N -> V] : Recurs(f, N, a, step)
<1> DEFINE Good(f, n) == \A k \in 0 .. n : f[k] = IF k = 0 THEN a ELSE step[<<k - 1, f[k - 1]>>]
           S == {n \in Nat : \E f \in [0 .. n -> V] : Good(f, n)}
<1>1. 0 \in S
  <2>1. [k \in 0 .. 0 |-> a] \in [0 .. 0 -> V] /\ Good([k \in 0 .. 0 |-> a], 0)
    OBVIOUS
  <2> QED
    BY <2>1
<1>2. ASSUME NEW n \in S
      PROVE  n + 1 \in S
  <2>1. PICK f \in [0 .. n -> V] : Good(f, n)
    OBVIOUS
  <2>2. n \in Nat /\ f[n] \in V /\ step[<<n, f[n]>>] \in V
    OBVIOUS
  <2> DEFINE g == [k \in 0 .. n + 1 |-> IF k = n + 1 THEN step[<<n, f[n]>>] ELSE f[k]]
  <2>3. \A k \in 0 .. n + 1 : k # n + 1 => k \in 0 .. n
    BY <2>2
  <2>4. g \in [0 .. n + 1 -> V]
    BY <2>2, <2>3
  <2>5. ASSUME NEW k \in 0 .. n + 1
        PROVE  g[k] = IF k = 0 THEN a ELSE step[<<k - 1, g[k - 1]>>]
    <3>1. CASE k = n + 1
      <4>1. k # 0 /\ k - 1 = n /\ n \in 0 .. n + 1 /\ n # n + 1
        BY <2>2, <3>1
      <4> QED
        BY <3>1, <4>1
    <3>2. CASE k # n + 1
      <4>1. k \in 0 .. n /\ (k # 0 => k - 1 \in 0 .. n /\ k - 1 # n + 1 /\ k - 1 \in 0 .. n + 1)
        BY <2>2, <3>2
      <4>2. g[k] = f[k] /\ (k # 0 => g[k - 1] = f[k - 1])
        BY <3>2, <4>1
      <4> QED
        BY <2>1, <4>1, <4>2
    <3> QED
      BY <3>1, <3>2
  <2> HIDE DEF g
  <2>6. Good(g, n + 1)
    BY <2>5
  <2>7. \E h \in [0 .. n + 1 -> V] : Good(h, n + 1)
    <3> HIDE DEF Good
    <3> QED
      BY <2>4, <2>6
  <2>8. n + 1 \in Nat
    BY <2>2
  <2> QED
    BY <2>7, <2>8
<1> HIDE DEF S
<1>3. S = Nat
  <2>1. S \in SUBSET Nat
    BY DEF S
  <2> QED
    BY <1>1, <1>2, <2>1, SetInduction
<1>4. N \in S
  BY <1>3
<1> QED
  BY <1>4 DEF S, Recurs

-----------------------------------------------------------------------------
(* The report.  A pass over the logs has, before each job, what it has shown *)
(* of the jobs so far: one of each cause, in order, and no more than fit.    *)
IsFirst(ls, i) ==
  /\ ls[i].errors > 0
  /\ \A j \in Jobs : j < i /\ ls[j].errors > 0 => ls[j].cause # ls[i].cause

Fails(ls, k) == {i \in Jobs : i < k /\ ls[i].errors > 0}
Firsts(ls, k) == {i \in Jobs : i < k /\ IsFirst(ls, i)}
Shown(ls, k) == {i \in Jobs : i < k /\ IsFirst(ls, i) /\ Cardinality(Firsts(ls, i)) < ReportMax}

LEMMA JobSets ==
  ASSUME NEW ls, NEW k \in Nat
  PROVE  /\ IsFiniteSet(Fails(ls, k)) /\ IsFiniteSet(Firsts(ls, k)) /\ IsFiniteSet(Shown(ls, k))
         /\ Cardinality(Firsts(ls, k)) \in Nat /\ Shown(ls, k) \subseteq Firsts(ls, k)
         /\ Cardinality(Shown(ls, k)) <= Cardinality(Firsts(ls, k))
         /\ Cardinality(Shown(ls, k)) \in Nat
<1>1. IsFiniteSet(Jobs)
  BY FS_Interval, JobReportAssumption DEF Jobs
<1>2. /\ Fails(ls, k) \subseteq Jobs /\ Firsts(ls, k) \subseteq Jobs /\ Shown(ls, k) \subseteq Jobs
      /\ Shown(ls, k) \subseteq Firsts(ls, k)
  BY DEF Fails, Firsts, Shown
<1>3. IsFiniteSet(Fails(ls, k)) /\ IsFiniteSet(Firsts(ls, k)) /\ IsFiniteSet(Shown(ls, k))
  BY <1>1, <1>2, FS_Subset
<1> QED
  BY <1>2, <1>3, FS_CardinalityType, FS_Subset

(* Before the first job the sets are empty, and each job adds itself or not. *)
LEMMA NoJobsYet ==
  ASSUME NEW ls
  PROVE  Fails(ls, 0) = {} /\ Firsts(ls, 0) = {} /\ Shown(ls, 0) = {}
BY JobReportAssumption DEF Fails, Firsts, Shown, Jobs

LEMMA OneMoreJob ==
  ASSUME NEW ls, NEW k \in Jobs
  PROVE  /\ k \in Nat /\ \A i \in Jobs : i < k + 1 <=> i < k \/ i = k
         /\ Fails(ls, k + 1) = IF ls[k].errors > 0 THEN Fails(ls, k) \cup {k} ELSE Fails(ls, k)
         /\ Firsts(ls, k + 1) = IF IsFirst(ls, k) THEN Firsts(ls, k) \cup {k} ELSE Firsts(ls, k)
         /\ Shown(ls, k + 1) = IF IsFirst(ls, k) /\ Cardinality(Firsts(ls, k)) < ReportMax
                               THEN Shown(ls, k) \cup {k} ELSE Shown(ls, k)
         /\ k \notin Fails(ls, k) /\ k \notin Shown(ls, k)
<1>1. k \in Nat /\ \A i \in Jobs : (i < k + 1 <=> i < k \/ i = k) /\ i \in Nat
  BY JobReportAssumption DEF Jobs
<1>2. \A i \in Jobs : i \in Fails(ls, k + 1) <=> i \in Fails(ls, k) \/ (i = k /\ ls[k].errors > 0)
  BY <1>1 DEF Fails
<1>3. \A i \in Jobs : i \in Firsts(ls, k + 1) <=> i \in Firsts(ls, k) \/ (i = k /\ IsFirst(ls, k))
  BY <1>1 DEF Firsts
<1>4. \A i \in Jobs : i \in Shown(ls, k + 1) <=>
        i \in Shown(ls, k) \/ (i = k /\ IsFirst(ls, k) /\ Cardinality(Firsts(ls, k)) < ReportMax)
  BY <1>1 DEF Shown
<1>5. \A n : Fails(ls, n) \subseteq Jobs /\ Firsts(ls, n) \subseteq Jobs /\ Shown(ls, n) \subseteq Jobs
  BY DEF Fails, Firsts, Shown
<1>6. k \notin Fails(ls, k) /\ k \notin Shown(ls, k)
  BY <1>1 DEF Fails, Shown
<1>7. Fails(ls, k + 1) = IF ls[k].errors > 0 THEN Fails(ls, k) \cup {k} ELSE Fails(ls, k)
  BY <1>2, <1>5
<1>8. Firsts(ls, k + 1) = IF IsFirst(ls, k) THEN Firsts(ls, k) \cup {k} ELSE Firsts(ls, k)
  BY <1>3, <1>5
<1>9. Shown(ls, k + 1) = IF IsFirst(ls, k) /\ Cardinality(Firsts(ls, k)) < ReportMax
                         THEN Shown(ls, k) \cup {k} ELSE Shown(ls, k)
  BY <1>4, <1>5
<1> QED
  BY <1>1, <1>6, <1>7, <1>8, <1>9

(* What the pass knows before job k. *)
ScanSoFar(ls, k, s) ==
  /\ \A n \in 1 .. Len(s.shown) : s.shown[n] \in Shown(ls, k)
  /\ \A i \in Shown(ls, k) : \E n \in 1 .. Len(s.shown) : s.shown[n] = i
  /\ \A m, n \in 1 .. Len(s.shown) : m < n => s.shown[m] < s.shown[n]
  /\ Len(s.shown) = Cardinality(Shown(ls, k))
  /\ Len(s.shown) <= ReportMax
  /\ Len(s.shown) < ReportMax => Shown(ls, k) = Firsts(ls, k)
  /\ \A j \in Fails(ls, k) : \E i \in Firsts(ls, k) : ls[i].cause = ls[j].cause
  /\ s.failures = Cardinality(Fails(ls, k))

Scans == [shown : Seq(Jobs), failures : Nat, errors : Nat]

(* The pass over one job. *)
ScanJob(ls, k, s) ==
  LET l == ls[k]
      isReported == \E n \in 1 .. Len(s.shown) : ls[s.shown[n]].cause = l.cause
      isShown == Len(s.shown) # ReportMax /\ ~ isReported
  IN IF l.errors = 0 THEN s
     ELSE [shown    |-> IF isShown THEN Append(s.shown, k) ELSE s.shown,
           failures |-> s.failures + 1,
           errors   |-> s.errors + l.errors]

LEMMA ScanJobType ==
  ASSUME NEW ls \in [Jobs -> Outcomes], NEW k \in Jobs, NEW s \in Scans
  PROVE  /\ ScanJob(ls, k, s) \in Scans /\ ls[k].errors \in Nat
         /\ ScanJob(ls, k, s).errors = s.errors + ls[k].errors
         /\ ls[k].errors # 0 => ls[k].errors > 0
<1>1. ls[k].errors \in Nat
  <2>1. ls[k] \in Outcomes
    OBVIOUS
  <2> QED
    BY <2>1, JobReportAssumption
<1>2. \A n \in Nat : n # 0 => n > 0
  OBVIOUS
<1>3. ls[k].errors # 0 => ls[k].errors > 0
  BY <1>1, <1>2, Zenon
<1> QED
  BY <1>1, <1>3 DEF ScanJob, Scans

(* A log without errors changes nothing.                                     *)
LEMMA SkipJob ==
  ASSUME NEW ls \in [Jobs -> Outcomes], NEW k \in Jobs, NEW s \in Scans,
         ScanSoFar(ls, k, s), ls[k].errors = 0
  PROVE  ScanSoFar(ls, k + 1, ScanJob(ls, k, s))
<1>1. ScanJob(ls, k, s) = s
  BY DEF ScanJob
<1>2. ~ IsFirst(ls, k) /\ ~ (ls[k].errors > 0)
  BY DEF IsFirst
<1>3. /\ Fails(ls, k + 1) = Fails(ls, k) /\ Firsts(ls, k + 1) = Firsts(ls, k)
      /\ Shown(ls, k + 1) = Shown(ls, k)
  BY <1>2, OneMoreJob
<1> QED
  BY <1>1, <1>3 DEF ScanSoFar

(* A log whose cause was shown, or that comes after ReportMax shown ones, is *)
(* counted; a log of a cause that no earlier log has is shown.               *)
LEMMA NewCause ==
  ASSUME NEW ls \in [Jobs -> Outcomes], NEW k \in Jobs, NEW s \in Scans,
         ScanSoFar(ls, k, s), ls[k].errors # 0
  PROVE  LET isReported == \E n \in 1 .. Len(s.shown) : ls[s.shown[n]].cause = ls[k].cause
         IN /\ isReported => ~ IsFirst(ls, k)
            /\ ~isReported /\ Len(s.shown) # ReportMax => IsFirst(ls, k)
<1> DEFINE isReported == \E n \in 1 .. Len(s.shown) : ls[s.shown[n]].cause = ls[k].cause
<1>1. ls[k].errors > 0 /\ Len(s.shown) \in Nat
  <2>1. ls[k].errors > 0
    BY ScanJobType, Zenon
  <2> QED
    BY <2>1 DEF Scans
<1>2. ASSUME isReported, IsFirst(ls, k)
      PROVE  FALSE
  <2>1. PICK n \in 1 .. Len(s.shown) : ls[s.shown[n]].cause = ls[k].cause
    BY <1>2
  <2>2. s.shown[n] \in Shown(ls, k)
    BY <2>1 DEF ScanSoFar
  <2>3. s.shown[n] \in Jobs /\ s.shown[n] < k /\ ls[s.shown[n]].errors > 0
    BY <2>2 DEF Shown, IsFirst
  <2> QED
    BY <1>2, <2>1, <2>3 DEF IsFirst
<1>3. ASSUME ~isReported, Len(s.shown) # ReportMax, ~ IsFirst(ls, k)
      PROVE  FALSE
  <2>1. PICK j \in Jobs : j < k /\ ls[j].errors > 0 /\ ls[j].cause = ls[k].cause
    BY <1>1, <1>3 DEF IsFirst
  <2>2. j \in Fails(ls, k)
    BY <2>1 DEF Fails
  <2>3. PICK i \in Firsts(ls, k) : ls[i].cause = ls[k].cause
    BY <2>1, <2>2 DEF ScanSoFar
  <2>4. Len(s.shown) < ReportMax
    BY <1>1, <1>3, JobReportAssumption DEF ScanSoFar
  <2>5. i \in Shown(ls, k)
    BY <2>3, <2>4 DEF ScanSoFar
  <2>6. PICK n \in 1 .. Len(s.shown) : s.shown[n] = i
    BY <2>5 DEF ScanSoFar
  <2> QED
    BY <1>3, <2>3, <2>6
<1> QED
  BY <1>2, <1>3

(* A job that is counted and not shown.                                      *)
LEMMA CountFailure ==
  ASSUME NEW ls \in [Jobs -> Outcomes], NEW k \in Jobs, NEW s \in Scans,
         ScanSoFar(ls, k, s), ls[k].errors # 0,
         \/ Len(s.shown) = ReportMax
         \/ \E n \in 1 .. Len(s.shown) : ls[s.shown[n]].cause = ls[k].cause
  PROVE  ScanSoFar(ls, k + 1, ScanJob(ls, k, s))
<1> DEFINE t == ScanJob(ls, k, s)
<1>1. t.shown = s.shown /\ t.failures = s.failures + 1
  BY DEF ScanJob
<1>2. /\ ls[k].errors > 0 /\ Len(s.shown) \in Nat /\ k \in Nat
      /\ Fails(ls, k + 1) = Fails(ls, k) \cup {k} /\ k \notin Fails(ls, k)
  <2>1. ls[k].errors > 0
    BY ScanJobType, Zenon
  <2>2. Len(s.shown) \in Nat
    BY DEF Scans
  <2> QED
    BY <2>1, <2>2, OneMoreJob
<1>3. IsFirst(ls, k) => Len(s.shown) = ReportMax
  BY NewCause
<1>4. Shown(ls, k + 1) = Shown(ls, k)
  <2>1. Len(s.shown) = ReportMax => ~ (Cardinality(Firsts(ls, k)) < ReportMax)
    <3>1. /\ Len(s.shown) = Cardinality(Shown(ls, k)) /\ Cardinality(Firsts(ls, k)) \in Nat
          /\ Cardinality(Shown(ls, k)) <= Cardinality(Firsts(ls, k))
      BY <1>2, JobSets DEF ScanSoFar
    <3> QED
      BY <3>1, JobReportAssumption
  <2> QED
    BY <1>3, <2>1, OneMoreJob
<1>5. Len(s.shown) < ReportMax => Firsts(ls, k + 1) = Firsts(ls, k)
  <2>1. Len(s.shown) < ReportMax => ~ IsFirst(ls, k)
    BY <1>2, <1>3, JobReportAssumption
  <2> QED
    BY <2>1, OneMoreJob
<1>6. Firsts(ls, k) \subseteq Firsts(ls, k + 1)
  BY OneMoreJob
<1>7. \A j \in Fails(ls, k + 1) : \E i \in Firsts(ls, k + 1) : ls[i].cause = ls[j].cause
  <2>1. CASE IsFirst(ls, k)
    <3>1. k \in Firsts(ls, k + 1)
      BY <2>1, OneMoreJob
    <3> QED
      BY <1>2, <1>6, <3>1 DEF ScanSoFar
  <2>2. CASE ~ IsFirst(ls, k)
    <3>1. PICK j \in Jobs : j < k /\ ls[j].errors > 0 /\ ls[j].cause = ls[k].cause
      BY <1>2, <2>2 DEF IsFirst
    <3>2. j \in Fails(ls, k)
      BY <3>1 DEF Fails
    <3> QED
      BY <1>2, <1>6, <3>1, <3>2 DEF ScanSoFar
  <2> QED
    BY <2>1, <2>2
<1>8. t.failures = Cardinality(Fails(ls, k + 1))
  <2>1. IsFiniteSet(Fails(ls, k)) /\ s.failures = Cardinality(Fails(ls, k))
    BY <1>2, JobSets DEF ScanSoFar
  <2>2. Cardinality(Fails(ls, k) \cup {k}) = Cardinality(Fails(ls, k)) + 1
    BY <1>2, <2>1, FS_AddElement, Zenon
  <2> QED
    BY <1>1, <1>2, <2>1, <2>2, Zenon
<1> HIDE DEF t
<1>9. Len(t.shown) < ReportMax => Shown(ls, k + 1) = Firsts(ls, k + 1)
  BY <1>1, <1>4, <1>5 DEF ScanSoFar
<1>10. ScanSoFar(ls, k + 1, t)
  BY <1>1, <1>4, <1>7, <1>8, <1>9 DEF ScanSoFar
<1> QED
  BY <1>10 DEF t

(* A job that is shown.                                                      *)
LEMMA ShowFailure ==
  ASSUME NEW ls \in [Jobs -> Outcomes], NEW k \in Jobs, NEW s \in Scans,
         ScanSoFar(ls, k, s), ls[k].errors # 0, Len(s.shown) # ReportMax,
         ~ \E n \in 1 .. Len(s.shown) : ls[s.shown[n]].cause = ls[k].cause
  PROVE  ScanSoFar(ls, k + 1, ScanJob(ls, k, s))
<1> DEFINE t == ScanJob(ls, k, s)
<1>1. t.shown = Append(s.shown, k) /\ t.failures = s.failures + 1
  BY DEF ScanJob
<1>2. /\ ls[k].errors > 0 /\ Len(s.shown) \in Nat /\ k \in Nat
      /\ Fails(ls, k + 1) = Fails(ls, k) \cup {k} /\ k \notin Fails(ls, k)
  <2>1. ls[k].errors > 0
    BY ScanJobType, Zenon
  <2>2. Len(s.shown) \in Nat
    BY DEF Scans
  <2> QED
    BY <2>1, <2>2, OneMoreJob
<1>3. IsFirst(ls, k)
  BY NewCause
<1>4. Len(s.shown) < ReportMax /\ Shown(ls, k) = Firsts(ls, k)
      /\ Len(s.shown) = Cardinality(Shown(ls, k))
  BY <1>2, JobReportAssumption DEF ScanSoFar
<1>5. /\ Firsts(ls, k + 1) = Firsts(ls, k) \cup {k} /\ Shown(ls, k + 1) = Shown(ls, k) \cup {k}
      /\ k \notin Shown(ls, k)
  <2>1. Cardinality(Firsts(ls, k)) < ReportMax
    BY <1>4
  <2> QED
    BY <1>3, <2>1, OneMoreJob
<1>6. /\ Len(t.shown) = Len(s.shown) + 1 /\ t.shown[Len(s.shown) + 1] = k
      /\ \A n \in 1 .. Len(s.shown) : t.shown[n] = s.shown[n]
      /\ \A n \in 1 .. Len(s.shown) + 1 : n \in 1 .. Len(s.shown) \/ n = Len(s.shown) + 1
  <2>1. s.shown \in Seq(Jobs)
    BY DEF Scans
  <2> QED
    BY <1>1, <1>2, <2>1
<1>7. Len(t.shown) = Cardinality(Shown(ls, k + 1))
  <2>1. IsFiniteSet(Shown(ls, k))
    BY <1>2, JobSets
  <2>2. Cardinality(Shown(ls, k) \cup {k}) = Cardinality(Shown(ls, k)) + 1
    BY <1>5, <2>1, FS_AddElement, Zenon
  <2> QED
    BY <1>4, <1>5, <1>6, <2>2, Zenon
<1>8. t.failures = Cardinality(Fails(ls, k + 1))
  <2>1. IsFiniteSet(Fails(ls, k)) /\ s.failures = Cardinality(Fails(ls, k))
    BY <1>2, JobSets DEF ScanSoFar
  <2>2. Cardinality(Fails(ls, k) \cup {k}) = Cardinality(Fails(ls, k)) + 1
    BY <1>2, <2>1, FS_AddElement, Zenon
  <2> QED
    BY <1>1, <1>2, <2>1, <2>2, Zenon
<1> HIDE DEF t
<1>9. \A n \in 1 .. Len(t.shown) : t.shown[n] \in Shown(ls, k + 1)
  BY <1>5, <1>6 DEF ScanSoFar
<1>10. \A i \in Shown(ls, k + 1) : \E n \in 1 .. Len(t.shown) : t.shown[n] = i
  <2>1. /\ Len(t.shown) \in 1 .. Len(t.shown) /\ t.shown[Len(t.shown)] = k
        /\ 1 .. Len(s.shown) \subseteq 1 .. Len(t.shown)
    BY <1>2, <1>6
  <2>2. ASSUME NEW i \in Shown(ls, k)
        PROVE  \E n \in 1 .. Len(t.shown) : t.shown[n] = i
    <3>1. PICK n \in 1 .. Len(s.shown) : s.shown[n] = i
      BY DEF ScanSoFar
    <3> QED
      BY <1>6, <2>1, <3>1
  <2> QED
    BY <1>5, <2>1, <2>2
<1>11. ASSUME NEW m \in 1 .. Len(t.shown), NEW n \in 1 .. Len(t.shown), m < n
       PROVE  t.shown[m] < t.shown[n]
  <2>1. m \in 1 .. Len(s.shown)
    BY <1>2, <1>6, <1>11
  <2>2. CASE n \in 1 .. Len(s.shown)
    BY <1>6, <1>11, <2>1, <2>2 DEF ScanSoFar
  <2>3. CASE n = Len(s.shown) + 1
    <3>1. s.shown[m] \in Shown(ls, k)
      BY <2>1 DEF ScanSoFar
    <3>2. s.shown[m] < k
      BY <3>1 DEF Shown
    <3> QED
      BY <1>6, <2>1, <2>3, <3>2
  <2> QED
    BY <1>6, <2>2, <2>3
<1>12. \A j \in Fails(ls, k + 1) : \E i \in Firsts(ls, k + 1) : ls[i].cause = ls[j].cause
  <2>1. \A j \in Fails(ls, k) : \E i \in Firsts(ls, k) : ls[i].cause = ls[j].cause
    BY DEF ScanSoFar
  <2> QED
    BY <1>2, <1>5, <2>1
<1>13. Len(t.shown) <= ReportMax /\ Shown(ls, k + 1) = Firsts(ls, k + 1)
  <2>1. Len(s.shown) + 1 <= ReportMax
    BY <1>2, <1>4, JobReportAssumption
  <2> QED
    BY <1>4, <1>5, <1>6, <2>1, Zenon
<1>14. ScanSoFar(ls, k + 1, t)
  BY <1>7, <1>8, <1>9, <1>10, <1>11, <1>12, <1>13 DEF ScanSoFar
<1> QED
  BY <1>14 DEF t

LEMMA ScanStep ==
  ASSUME NEW ls \in [Jobs -> Outcomes], NEW k \in Jobs, NEW s \in Scans, ScanSoFar(ls, k, s)
  PROVE  ScanSoFar(ls, k + 1, ScanJob(ls, k, s))
BY SkipJob, CountFailure, ShowFailure

(* The whole pass: its recursion runs over every job, and the error counts   *)
(* add up to what the same recursion over the counts alone gives.            *)
LEMMA ScanRecursion ==
  ASSUME NEW ls \in [Jobs -> Outcomes]
  PROVE  \E f \in [0 .. JobCount -> Scans] :
           /\ \A k \in 0 .. JobCount :
                f[k] = IF k = 0 THEN [shown |-> <<>>, failures |-> 0, errors |-> 0]
                       ELSE ScanJob(ls, k - 1, f[k - 1])
           /\ ScanLogs(ls) = f[JobCount]
<1> DEFINE zero == [shown |-> <<>>, failures |-> 0, errors |-> 0]
           step == [p \in Nat \X Scans |-> IF p[1] \in Jobs THEN ScanJob(ls, p[1], p[2]) ELSE zero]
           Goes(f) == \A k \in 0 .. JobCount : f[k] = IF k = 0 THEN zero ELSE ScanJob(ls, k - 1, f[k - 1])
<1>1. zero \in Scans
  BY DEF Scans
<1>2. step \in [Nat \X Scans -> Scans]
  <2> HIDE DEF zero
  <2> QED
    BY <1>1, ScanJobType
<1>3. PICK f \in [0 .. JobCount -> Scans] :
        \A k \in 0 .. JobCount : f[k] = IF k = 0 THEN zero ELSE step[<<k - 1, f[k - 1]>>]
  <2> HIDE DEF zero, step
  <2>1. JobCount \in Nat
    BY JobReportAssumption
  <2>2. PICK f \in [0 .. JobCount -> Scans] : Recurs(f, JobCount, zero, step)
    BY <1>1, <1>2, <2>1, Recursion, Zenon
  <2> QED
    BY <2>2 DEF Recurs
<1>4. \A k \in 0 .. JobCount : k # 0 => k - 1 \in Jobs /\ k - 1 \in Nat /\ k - 1 \in 0 .. JobCount
  BY JobReportAssumption DEF Jobs
<1>5. Goes(f)
  <2> SUFFICES ASSUME NEW k \in 0 .. JobCount, k # 0
               PROVE  step[<<k - 1, f[k - 1]>>] = ScanJob(ls, k - 1, f[k - 1])
    BY <1>3, Zenon
  <2>1. <<k - 1, f[k - 1]>> \in Nat \X Scans /\ k - 1 \in Jobs
    BY <1>3, <1>4
  <2> QED
    BY <2>1
<1>6. ScanLogs(ls) = f[JobCount]
  <2> DEFINE Body(g) == [k \in 0 .. JobCount |->
                           IF k = 0 THEN zero ELSE ScanJob(ls, k - 1, g[k - 1])]
             scan == CHOOSE g : g = Body(g)
  <2>1. ScanLogs(ls) = scan[JobCount]
    BY DEF ScanLogs, ScanJob
  <2>2. f = Body(f)
    BY <1>5
  <2>3. scan = Body(scan)
    BY <2>2
  <2>4. \A k \in 0 .. JobCount : scan[k] = IF k = 0 THEN zero ELSE ScanJob(ls, k - 1, scan[k - 1])
    BY <2>3
  <2> HIDE DEF scan, Body, zero
  <2> DEFINE S == {k \in Nat : k \in 0 .. JobCount => scan[k] = f[k]}
  <2>5. S = Nat
    <3>1. 0 \in S
      BY <1>5, <2>4
    <3>2. ASSUME NEW k \in S
          PROVE  k + 1 \in S
      <4>1. k \in Nat /\ k + 1 # 0 /\ k + 1 - 1 = k /\ (k + 1 \in 0 .. JobCount => k \in 0 .. JobCount)
        BY JobReportAssumption
      <4> QED
        BY <1>5, <2>4, <4>1
    <3> HIDE DEF S
    <3>3. S \in SUBSET Nat
      BY DEF S
    <3> QED
      BY <3>1, <3>2, <3>3, SetInduction
  <2>6. JobCount \in 0 .. JobCount /\ JobCount \in Nat
    BY JobReportAssumption
  <2> QED
    BY <2>1, <2>5, <2>6
<1> QED
  BY <1>5, <1>6

TotalOf(ls) ==
  LET total[k \in 0 .. JobCount] == IF k = 0 THEN 0 ELSE total[k - 1] + ls[k - 1].errors
  IN total[JobCount]

LEMMA TotalRecursion ==
  ASSUME NEW ls \in [Jobs -> Outcomes]
  PROVE  \E f \in [0 .. JobCount -> Nat] :
           /\ \A k \in 0 .. JobCount : f[k] = IF k = 0 THEN 0 ELSE f[k - 1] + ls[k - 1].errors
           /\ f[JobCount] = TotalOf(ls)
<1> DEFINE step == [p \in Nat \X Nat |-> IF p[1] \in Jobs THEN p[2] + ls[p[1]].errors ELSE 0]
<1>1. step \in [Nat \X Nat -> Nat]
  BY ScanJobType, JobReportAssumption
<1>2. PICK f \in [0 .. JobCount -> Nat] :
        \A k \in 0 .. JobCount : f[k] = IF k = 0 THEN 0 ELSE step[<<k - 1, f[k - 1]>>]
  <2> HIDE DEF step
  <2>1. JobCount \in Nat /\ 0 \in Nat
    BY JobReportAssumption
  <2>2. PICK f \in [0 .. JobCount -> Nat] : Recurs(f, JobCount, 0, step)
    BY <1>1, <2>1, Recursion, Zenon
  <2> QED
    BY <2>2 DEF Recurs
<1>3. \A k \in 0 .. JobCount : k # 0 => k - 1 \in Jobs /\ k - 1 \in Nat /\ k - 1 \in 0 .. JobCount
  BY JobReportAssumption DEF Jobs
<1>4. \A k \in 0 .. JobCount : f[k] = IF k = 0 THEN 0 ELSE f[k - 1] + ls[k - 1].errors
  <2> SUFFICES ASSUME NEW k \in 0 .. JobCount, k # 0
               PROVE  step[<<k - 1, f[k - 1]>>] = f[k - 1] + ls[k - 1].errors
    BY <1>2, Zenon
  <2>1. <<k - 1, f[k - 1]>> \in Nat \X Nat /\ k - 1 \in Jobs
    BY <1>2, <1>3
  <2> QED
    BY <2>1
<1>5. f[JobCount] = TotalOf(ls)
  <2> DEFINE Body(g) == [k \in 0 .. JobCount |->
                           IF k = 0 THEN 0 ELSE g[k - 1] + ls[k - 1].errors]
             total == CHOOSE g : g = Body(g)
  <2>1. TotalOf(ls) = total[JobCount]
    BY DEF TotalOf
  <2>2. f = Body(f)
    BY <1>4
  <2>3. total = Body(total)
    BY <2>2
  <2>4. \A k \in 0 .. JobCount : total[k] = IF k = 0 THEN 0 ELSE total[k - 1] + ls[k - 1].errors
    BY <2>3
  <2> HIDE DEF total, Body
  <2> DEFINE S == {k \in Nat : k \in 0 .. JobCount => total[k] = f[k]}
  <2>5. S = Nat
    <3>1. 0 \in S
      BY <1>4, <2>4
    <3>2. ASSUME NEW k \in S
          PROVE  k + 1 \in S
      <4>1. k \in Nat /\ k + 1 # 0 /\ k + 1 - 1 = k /\ (k + 1 \in 0 .. JobCount => k \in 0 .. JobCount)
        BY JobReportAssumption
      <4> QED
        BY <1>4, <2>4, <4>1
    <3> HIDE DEF S
    <3>3. S \in SUBSET Nat
      BY DEF S
    <3> QED
      BY <3>1, <3>2, <3>3, SetInduction
  <2>6. JobCount \in 0 .. JobCount /\ JobCount \in Nat
    BY JobReportAssumption
  <2> QED
    BY <2>1, <2>5, <2>6
<1> QED
  BY <1>4, <1>5

LEMMA ScanIsRight ==
  ASSUME NEW ls \in [Jobs -> Outcomes]
  PROVE  /\ ScanLogs(ls) \in Scans /\ ScanSoFar(ls, JobCount, ScanLogs(ls))
         /\ ScanLogs(ls).errors = TotalOf(ls)
<1>1. PICK f \in [0 .. JobCount -> Scans] :
        /\ \A k \in 0 .. JobCount :
             f[k] = IF k = 0 THEN [shown |-> <<>>, failures |-> 0, errors |-> 0]
                    ELSE ScanJob(ls, k - 1, f[k - 1])
        /\ ScanLogs(ls) = f[JobCount]
  BY ScanRecursion
<1>2. PICK g \in [0 .. JobCount -> Nat] :
        /\ \A k \in 0 .. JobCount : g[k] = IF k = 0 THEN 0 ELSE g[k - 1] + ls[k - 1].errors
        /\ g[JobCount] = TotalOf(ls)
  BY TotalRecursion
<1> DEFINE S == {k \in Nat : k \in 0 .. JobCount => ScanSoFar(ls, k, f[k]) /\ f[k].errors = g[k]}
<1>3. 0 \in S
  <2>1. 0 \in 0 .. JobCount
    BY JobReportAssumption
  <2>2. f[0] = [shown |-> <<>>, failures |-> 0, errors |-> 0] /\ g[0] = 0
    BY <1>1, <1>2, <2>1
  <2>3. /\ Fails(ls, 0) = {} /\ Firsts(ls, 0) = {} /\ Shown(ls, 0) = {} /\ Cardinality({}) = 0
        /\ f[0].shown = <<>> /\ f[0].failures = 0 /\ Len(<<>>) = 0 /\ 1 .. 0 = {}
    BY <2>2, NoJobsYet, FS_EmptySet
  <2>4. ScanSoFar(ls, 0, f[0])
    <3> HIDE DEF S
    <3>1. 0 <= ReportMax /\ \A n : n \notin 1 .. 0
      BY JobReportAssumption
    <3> QED
      BY <2>3, <3>1, Zenon DEF ScanSoFar
  <2> QED
    BY <2>2, <2>4
<1>4. ASSUME NEW k \in S
      PROVE  k + 1 \in S
  <2> SUFFICES ASSUME k + 1 \in 0 .. JobCount
               PROVE  ScanSoFar(ls, k + 1, f[k + 1]) /\ f[k + 1].errors = g[k + 1]
    OBVIOUS
  <2>1. k \in Nat /\ k + 1 # 0 /\ k + 1 - 1 = k /\ k \in 0 .. JobCount /\ k \in Jobs
    BY JobReportAssumption DEF Jobs
  <2>2. f[k + 1] = ScanJob(ls, k, f[k]) /\ g[k + 1] = g[k] + ls[k].errors
    BY <1>1, <1>2, <2>1
  <2>3. ScanSoFar(ls, k, f[k]) /\ f[k].errors = g[k] /\ f[k] \in Scans
    BY <2>1
  <2> QED
    BY <2>1, <2>2, <2>3, ScanStep, ScanJobType
<1> HIDE DEF S
<1>5. S = Nat
  <2>1. S \in SUBSET Nat
    BY DEF S
  <2> QED
    BY <1>3, <1>4, <2>1, SetInduction
<1>6. JobCount \in S /\ JobCount \in 0 .. JobCount
  BY <1>5, JobReportAssumption
<1>7. ScanSoFar(ls, JobCount, f[JobCount]) /\ f[JobCount].errors = g[JobCount]
  BY <1>6 DEF S
<1> QED
  BY <1>1, <1>2, <1>6, <1>7

(* What the caller gets once the phase returned.                             *)
ReportInv ==
  main = "returned" =>
    report = IF JobCount > 0 /\ started = 0 THEN ReportCannotStart ELSE SerialReport

LEMMA StepReport == IInv /\ MergeAfterJoin /\ ReportInv /\ [Next]_vars => ReportInv'
<1> SUFFICES ASSUME IInv, MergeAfterJoin, ReportInv, [Next]_vars
             PROVE  ReportInv'
  OBVIOUS
<1>1. CASE MergeLogs
  <2>1. UNCHANGED <<outcome, started>>
    BY <1>1 DEF MergeLogs
  <2>2. SerialReport' = SerialReport
    BY <2>1 DEF SerialReport
  <2>3. report' = IF JobCount > 0 /\ started = 0 THEN ReportCannotStart ELSE SerialReport
    BY <1>1, MergedReport
  <2> QED
    BY <2>1, <2>2, <2>3 DEF ReportInv
<1>2. CASE StartWorker \/ EndCreate \/ JoinWorkers
  <2>1. main' # "returned"
    BY <1>2 DEF StartWorker, EndCreate, JoinWorkers
  <2> QED
    BY <2>1 DEF ReportInv
<1>3. ASSUME NEW w \in Workers, WorkerStep(w)
      PROVE  ReportInv'
  <2>1. main' = main
    BY <1>3 DEF WorkerStep, ClaimJob, RunJob, LockProgress, CountJob, PrintLine, PrintRest,
                UnlockProgress, RecordResult, shared
  <2>2. worker[w] \notin {"unborn", "exited"}
    BY <1>3 DEF WorkerStep, ClaimJob, RunJob, LockProgress, CountJob, PrintLine, PrintRest,
                UnlockProgress, RecordResult
  <2>3. main # "returned"
    BY <2>2, WorkerAlive
  <2> QED
    BY <2>1, <2>3 DEF ReportInv
<1>4. CASE UNCHANGED vars
  BY <1>4 DEF vars, ReportInv, SerialReport
<1> QED
  BY <1>1, <1>2, <1>3, <1>4 DEF Next, MainStep, Returned

(* The serial report says what ReportIsDeterministic asks for.               *)
LEMMA ReportFollows ==
  ASSUME TypeOK, ReportInv
  PROVE  ReportIsDeterministic
<1> SUFFICES ASSUME main = "returned", ~ (JobCount > 0 /\ started = 0)
             PROVE  LET isFailed == \E i \in Jobs : outcome[i].rc # 0 \/ outcome[i].errors > 0
                        isSilent == isFailed /\ FailedJobs = {}
                    IN /\ report.rc = IF isFailed THEN -1 ELSE 0
                       /\ {report.shown[n] : n \in DOMAIN report.shown} = ShownJobs
                       /\ \A m, n \in DOMAIN report.shown : m < n => report.shown[m] < report.shown[n]
                       /\ report.more = Cardinality(FailedJobs) - Cardinality(ShownJobs)
                       /\ report.errors = ErrorTotal + (IF isSilent THEN 1 ELSE 0)
  BY DEF ReportIsDeterministic, ReportInv
<1> DEFINE s == ScanLogs(outcome)
           isFailed == \E i \in Jobs : outcome[i].rc # 0 \/ outcome[i].errors > 0
           rc == IF \E i \in Jobs : outcome[i].rc # 0 THEN -1 ELSE 0
<1>1. outcome \in [Jobs -> Outcomes]
  BY DEF TypeOK
<1>2. s \in Scans /\ ScanSoFar(outcome, JobCount, s) /\ s.errors = TotalOf(outcome)
  BY <1>1, ScanIsRight
<1>3. report = ReportErrors(outcome, rc)
  BY DEF ReportInv, SerialReport
<1>4. /\ report.rc = IF rc # 0 \/ s.failures > 0 THEN -1 ELSE 0
      /\ report.shown = s.shown /\ report.more = s.failures - Len(s.shown)
      /\ report.errors = s.errors + (IF rc # 0 /\ s.failures = 0 THEN 1 ELSE 0)
  BY <1>3 DEF ReportErrors
<1> HIDE DEF s
<1>5. \A i \in Jobs : i < JobCount /\ (FirstOfCause(i) <=> IsFirst(outcome, i))
  BY JobReportAssumption DEF FirstOfCause, IsFirst, Jobs
<1>6. FailedJobs = Fails(outcome, JobCount)
  BY <1>5 DEF FailedJobs, Fails
<1>7. \A i \in Jobs : {j \in Jobs : j < i /\ FirstOfCause(j)} = Firsts(outcome, i)
  BY <1>5 DEF Firsts
<1>8. ShownJobs = Shown(outcome, JobCount)
  BY <1>5, <1>7 DEF ShownJobs, Shown
<1>9. ErrorTotal = TotalOf(outcome)
  BY DEF ErrorTotal, TotalOf
<1>10. s.failures = Cardinality(FailedJobs) /\ (s.failures = 0 <=> FailedJobs = {}) /\ s.failures \in Nat
  <2>1. IsFiniteSet(Fails(outcome, JobCount))
    BY JobSets, JobReportAssumption
  <2>2. s.failures = Cardinality(Fails(outcome, JobCount)) /\ s.failures \in Nat
    BY <1>2 DEF ScanSoFar, Scans
  <2> QED
    BY <1>6, <2>1, <2>2, FS_EmptySet
<1>11. isFailed <=> rc # 0 \/ s.failures > 0
  <2>1. FailedJobs # {} <=> \E i \in Jobs : outcome[i].errors > 0
    BY DEF FailedJobs
  <2>2. s.failures > 0 <=> FailedJobs # {}
    BY <1>10
  <2> QED
    BY <2>1, <2>2
<1>12. report.rc = IF isFailed THEN -1 ELSE 0
  BY <1>4, <1>11
<1>13. DOMAIN report.shown = 1 .. Len(s.shown)
  BY <1>2, <1>4 DEF Scans
<1>14. {report.shown[n] : n \in DOMAIN report.shown} = ShownJobs
  <2>1. \A n \in 1 .. Len(s.shown) : s.shown[n] \in ShownJobs
    BY <1>2, <1>8 DEF ScanSoFar
  <2>2. \A i \in ShownJobs : \E n \in 1 .. Len(s.shown) : s.shown[n] = i
    BY <1>2, <1>8 DEF ScanSoFar
  <2> QED
    BY <1>4, <1>13, <2>1, <2>2
<1>15. \A m, n \in DOMAIN report.shown : m < n => report.shown[m] < report.shown[n]
  BY <1>2, <1>4, <1>13 DEF ScanSoFar
<1>16. report.more = Cardinality(FailedJobs) - Cardinality(ShownJobs)
  <2>1. Len(s.shown) = Cardinality(ShownJobs)
    BY <1>2, <1>8 DEF ScanSoFar
  <2> QED
    BY <1>4, <1>10, <2>1
<1>17. report.errors = ErrorTotal + (IF isFailed /\ FailedJobs = {} THEN 1 ELSE 0)
  <2>1. isFailed /\ FailedJobs = {} <=> rc # 0 /\ s.failures = 0
    BY <1>10, <1>11
  <2> QED
    BY <1>2, <1>4, <1>9, <2>1
<1> HIDE DEF isFailed
<1>18. /\ report.rc = IF isFailed THEN -1 ELSE 0
       /\ {report.shown[n] : n \in DOMAIN report.shown} = ShownJobs
       /\ \A m, n \in DOMAIN report.shown : m < n => report.shown[m] < report.shown[n]
       /\ report.more = Cardinality(FailedJobs) - Cardinality(ShownJobs)
       /\ report.errors = ErrorTotal + (IF isFailed /\ FailedJobs = {} THEN 1 ELSE 0)
  BY <1>12, <1>14, <1>15, <1>16, <1>17
<1> QED
  BY <1>18 DEF isFailed

LEMMA ProgressFollows ==
  ASSUME TypeOK, MergeAfterJoin, ProgressInv
  PROVE  ProgressIsOrdered
<1>1. LineStarts = Starts(printed)
  BY DEF LineStarts, Starts, Starting
<1>2. \A n \in LineStarts : printed[n].count = Cardinality({m \in LineStarts : m <= n})
  BY <1>1 DEF ProgressInv, IsOrdered
<1>3. \A n \in 1 .. Len(printed) : printed[n].part = "rest" =>
        n > 1 /\ printed[n - 1] = [count |-> printed[n].count, part |-> "head"]
  BY DEF ProgressInv, IsOrdered
<1>4. main = "returned" /\ Verbose /\ started > 0 => Cardinality(LineStarts) = JobCount
  <2> SUFFICES ASSUME main = "returned", Verbose, started > 0
               PROVE  Cardinality(LineStarts) = JobCount
    OBVIOUS
  <2>1. completed = JobCount /\ \A w \in Workers : worker[w] # "print"
    BY DEF MergeAfterJoin
  <2>2. completed = Cardinality(Starts(printed)) + 0
    BY <2>1 DEF ProgressInv
  <2>3. Cardinality(Starts(printed)) \in Nat
    BY StartsAreFinite DEF TypeOK
  <2> QED
    BY <1>1, <2>1, <2>2, <2>3
<1> QED
  BY <1>2, <1>3, <1>4 DEF ProgressIsOrdered

(* Whatever the schedule, the report of a phase is that of its jobs in       *)
(* order, and its progress lines come one after the other and count up.      *)
THEOREM OutputOrdered == Spec => []OutputIsOrdered
<1>1. Init => ReportInv
  BY DEF Init, ReportInv
<1>2. Spec => []ReportInv
  BY <1>1, StepReport, Inductive, MergesAfterJoin, PTL DEF Spec
<1>3. Spec => []ProgressInv
  BY InitProgress, StepProgress, Inductive, PTL DEF Spec
<1>4. TypeOK /\ MergeAfterJoin /\ ReportInv /\ ProgressInv => OutputIsOrdered
  BY ReportFollows, ProgressFollows DEF OutputIsOrdered
<1> QED
  BY <1>2, <1>3, <1>4, TypeCorrect, MergesAfterJoin, PTL

=============================================================================
