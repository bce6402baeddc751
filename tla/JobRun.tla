------------------------------- MODULE JobRun -------------------------------
(***************************************************************************)
(* One parallel phase of a build: job_run over pool_run.  The main thread   *)
(* starts worker threads, the workers claim job indexes from a shared       *)
(* atomic counter, run every job and print progress under a lock, and the   *)
(* main thread joins them and merges the jobs' logs in job order.           *)
(***************************************************************************)
EXTENDS JobReport

CONSTANTS WorkerCount, \* worker threads asked for
          Verbose      \* whether finished jobs print progress lines

ASSUME JobRunAssumption ==
  /\ WorkerCount \in Nat \ {0}
  /\ Verbose \in BOOLEAN

(* pool_run never starts more threads than it has jobs. *)
PoolSize == IF WorkerCount < JobCount THEN WorkerCount ELSE JobCount
Workers == 0 .. PoolSize - 1

NoJob == -1
VARIABLES outcome,   \* what each job will do, an input of the phase
          main,      \* where the main thread is
          started,   \* threads that pthread_create started
          indexNext, \* the pool's shared counter
          worker,    \* where each worker thread is
          held,      \* the job a worker claimed last
          logs,      \* the log each job left
          runs,      \* how often each job ran
          hasFailed, \* the pool's shared failure flag
          completed, \* the phase's shared count of finished jobs
          lock,      \* the worker that holds the progress lock, or NoJob
          line,      \* the count a worker formatted into its progress line
          printed,   \* pieces of progress lines, in the order they were printed
          report     \* what job_run leaves for its caller

vars == << outcome, main, started, indexNext, worker, held, logs, runs,
           hasFailed, completed, lock, line, printed, report >>

shared == << outcome, started, logs, runs, report >>

-----------------------------------------------------------------------------
(* What pool_run returns. *)
PoolResult ==
  IF JobCount = 0 THEN 0
  ELSE IF started = 0 \/ hasFailed THEN -1 ELSE 0

-----------------------------------------------------------------------------
Init ==
  /\ outcome \in [Jobs -> Outcomes]
  /\ main = "create"
  /\ started = 0
  /\ indexNext = 0
  /\ worker = [w \in Workers |-> "unborn"]
  /\ held = [w \in Workers |-> NoJob]
  /\ logs = [i \in Jobs |-> NoLog]
  /\ runs = [i \in Jobs |-> 0]
  /\ hasFailed = FALSE
  /\ completed = 0
  /\ lock = NoJob
  /\ line = [w \in Workers |-> 0]
  /\ printed = <<>>
  /\ report = NoReport

(* pthread_create succeeds for the next worker. *)
StartWorker ==
  /\ main = "create"
  /\ started \in Workers
  /\ started' = started + 1
  /\ worker' = [worker EXCEPT ![started] = "claim"]
  /\ UNCHANGED << outcome, main, indexNext, held, logs, runs, hasFailed,
                  completed, lock, line, printed, report >>

(* The creation loop ends: every worker was started, or pthread_create      *)
(* failed and no later thread is attempted.                                 *)
EndCreate ==
  /\ main = "create"
  /\ main' = "join"
  /\ UNCHANGED << outcome, started, indexNext, worker, held, logs, runs, hasFailed,
                  completed, lock, line, printed, report >>

(* Mutant: the join loop stops one worker early. *)
JoinAllButLast ==
  /\ main = "join"
  /\ \A w \in Workers : w < started - 1 => worker[w] = "exited"
  /\ main' = "merge"
  /\ UNCHANGED << outcome, started, indexNext, worker, held, logs, runs, hasFailed,
                  completed, lock, line, printed, report >>

(* pthread_join of every started worker, in pool_run. *)
JoinWorkers ==
  /\ main = "join"
  /\ \A w \in Workers : w < started => worker[w] = "exited"
  /\ main' = "merge"
  /\ UNCHANGED << outcome, started, indexNext, worker, held, logs, runs, hasFailed,
                  completed, lock, line, printed, report >>

(* job_run closes the progress line, and then reports.  A failed pool whose *)
(* jobs never finished had no worker, a failure no job's log explains.      *)
MergeLogs ==
  /\ main = "merge"
  /\ main' = "returned"
  /\ printed' = IF Verbose /\ JobCount > 0
                THEN Append(printed, [count |-> 0, part |-> "newline"]) ELSE printed
  /\ report' = IF PoolResult # 0 /\ completed = 0
               THEN ReportCannotStart
               ELSE ReportErrors(logs, PoolResult)
  /\ UNCHANGED << outcome, started, indexNext, worker, held, logs, runs, hasFailed,
                  completed, lock, line >>

(* Mutant: a load and a store instead of fetch_add, which may lose an update. *)
ClaimLostUpdate(w) ==
  /\ worker[w] = "claim"
  /\ indexNext' \in {indexNext, indexNext + 1}
  /\ held' = [held EXCEPT ![w] = IF indexNext < JobCount THEN indexNext ELSE @]
  /\ worker' = [worker EXCEPT ![w] = IF indexNext < JobCount THEN "run" ELSE "exited"]
  /\ UNCHANGED << shared, main, hasFailed, completed, lock, line, printed >>

(* Mutant: a worker that finds no index keeps looking for one. *)
ClaimForever(w) ==
  /\ worker[w] = "claim"
  /\ IF indexNext < JobCount
     THEN /\ indexNext' = indexNext + 1
          /\ held' = [held EXCEPT ![w] = indexNext]
          /\ worker' = [worker EXCEPT ![w] = "run"]
     ELSE UNCHANGED << indexNext, held, worker >>
  /\ UNCHANGED << shared, main, hasFailed, completed, lock, line, printed >>

(* pool_run_worker: fetch_add hands out one index, or ends the worker. *)
ClaimJob(w) ==
  /\ worker[w] = "claim"
  /\ indexNext' = indexNext + 1
  /\ IF indexNext < JobCount
     THEN /\ held' = [held EXCEPT ![w] = indexNext]
          /\ worker' = [worker EXCEPT ![w] = "run"]
     ELSE /\ worker' = [worker EXCEPT ![w] = "exited"]
          /\ UNCHANGED held
  /\ UNCHANGED << shared, main, hasFailed, completed, lock, line, printed >>

(* job_run_one: the job runs with a log of its own. *)
RunJob(w) ==
  /\ worker[w] = "run"
  /\ logs' = [logs EXCEPT ![held[w]] = outcome[held[w]]]
  /\ runs' = [runs EXCEPT ![held[w]] = @ + 1]
  /\ worker' = [worker EXCEPT ![w] = IF Verbose THEN "lock" ELSE "count"]
  /\ UNCHANGED << outcome, main, started, indexNext, held, hasFailed,
                  completed, lock, line, printed, report >>

(* job_run_one_print_progress takes the lock before it counts. *)
LockProgress(w) ==
  /\ worker[w] = "lock"
  /\ lock = NoJob
  /\ lock' = w
  /\ worker' = [worker EXCEPT ![w] = "count"]
  /\ UNCHANGED << shared, main, indexNext, held, hasFailed, completed, line, printed >>

CountJob(w) ==
  /\ worker[w] = "count"
  /\ completed' = completed + 1
  /\ line' = [line EXCEPT ![w] = completed + 1]
  /\ worker' = [worker EXCEPT ![w] = IF Verbose THEN "print" ELSE "record"]
  /\ UNCHANGED << shared, main, indexNext, held, hasFailed, lock, printed >>

(* os_print writes the whole line, or a short write leaves the rest of it   *)
(* for a retry, or the write fails and the line is lost.                    *)
PrintLine(w) ==
  /\ worker[w] = "print"
  /\ \E part \in {"whole", "head", "lost"} :
       /\ printed' = Append(printed, [count |-> line[w], part |-> part])
       /\ worker' = [worker EXCEPT ![w] = IF part = "head" THEN "retry" ELSE "unlock"]
  /\ UNCHANGED << shared, main, indexNext, held, hasFailed, completed, lock, line >>

PrintRest(w) ==
  /\ worker[w] = "retry"
  /\ printed' = Append(printed, [count |-> line[w], part |-> "rest"])
  /\ worker' = [worker EXCEPT ![w] = "unlock"]
  /\ UNCHANGED << shared, main, indexNext, held, hasFailed, completed, lock, line >>

UnlockProgress(w) ==
  /\ worker[w] = "unlock"
  /\ lock' = NoJob
  /\ worker' = [worker EXCEPT ![w] = "record"]
  /\ UNCHANGED << shared, main, indexNext, held, hasFailed, completed, line, printed >>

(* Mutant: the flag holds the last job's result. *)
RecordLastResult(w) ==
  /\ worker[w] = "record"
  /\ hasFailed' = (outcome[held[w]].rc # 0)
  /\ worker' = [worker EXCEPT ![w] = "claim"]
  /\ UNCHANGED << shared, main, indexNext, held, completed, lock, line, printed >>

(* pool_run_worker notes the failure and goes on: a failed job stops no     *)
(* other job.                                                               *)
RecordResult(w) ==
  /\ worker[w] = "record"
  /\ hasFailed' = (hasFailed \/ outcome[held[w]].rc # 0)
  /\ worker' = [worker EXCEPT ![w] = "claim"]
  /\ UNCHANGED << shared, main, indexNext, held, completed, lock, line, printed >>

WorkerStep(w) ==
  \/ ClaimJob(w)
  \/ RunJob(w)
  \/ LockProgress(w)
  \/ CountJob(w)
  \/ PrintLine(w)
  \/ PrintRest(w)
  \/ UnlockProgress(w)
  \/ RecordResult(w)

MainStep == StartWorker \/ EndCreate \/ JoinWorkers \/ MergeLogs

Returned == main = "returned" /\ UNCHANGED vars

Next == MainStep \/ (\E w \in Workers : WorkerStep(w)) \/ Returned

(* The threads are scheduled by the host, which lets no runnable thread     *)
(* starve.  The progress lock needs no more than that: a worker that waits  *)
(* for it waits for finitely many lines.                                    *)
Fairness ==
  /\ WF_vars(MainStep)
  /\ \A w \in Workers : WF_vars(WorkerStep(w))

Spec == Init /\ [][Next]_vars
FairSpec == Spec /\ Fairness

-----------------------------------------------------------------------------
(* Every variable has its type. *)
WorkerStates == {"unborn", "claim", "run", "lock", "count", "print", "retry",
                 "unlock", "record", "exited"}

Piece == [count : Nat, part : {"whole", "head", "lost", "rest", "newline"}]

TypeOK ==
  /\ outcome \in [Jobs -> Outcomes]
  /\ main \in {"create", "join", "merge", "returned"}
  /\ started \in 0 .. PoolSize
  /\ indexNext \in Nat
  /\ worker \in [Workers -> WorkerStates]
  /\ held \in [Workers -> Jobs \cup {NoJob}]
  /\ logs \in [Jobs -> Outcomes \cup {NoLog}]
  /\ runs \in [Jobs -> Nat]
  /\ hasFailed \in BOOLEAN
  /\ completed \in Nat
  /\ lock \in Workers \cup {NoJob}
  /\ line \in [Workers -> Nat]
  /\ printed \in Seq(Piece)

Busy == WorkerStates \ {"unborn", "claim", "exited"}

(* No index is handed out twice: two workers never hold the same job, and   *)
(* no job runs a second time, however the claims interleave (pool.h: "runs  *)
(* job_fn once for each job index").                                        *)
JobsRunOnce ==
  /\ \A i \in Jobs : runs[i] <= 1
  /\ \A v, w \in Workers :
       v # w /\ worker[v] \in Busy /\ worker[w] \in Busy => held[v] # held[w]

(* Nothing runs any more when the main thread reads the logs, and every job *)
(* has run unless no thread could be started, so the unsynchronized reads   *)
(* after the join see complete logs.                                        *)
MergeAfterJoin ==
  main \in {"merge", "returned"} =>
    /\ \A w \in Workers : worker[w] \in {"unborn", "exited"}
    /\ started > 0 => \A i \in Jobs : runs[i] = 1 /\ logs[i] = outcome[i]
    /\ completed = (IF started > 0 THEN JobCount ELSE 0)

(* What the phase reports is a function of what the jobs did and of whether *)
(* a thread started, and not of the schedule or the worker count: the first *)
(* job of each cause in job order, at most ReportMax of them, the number of *)
(* other failed jobs, and every error counted.                              *)
FirstOfCause(i) ==
  /\ outcome[i].errors > 0
  /\ \A j \in Jobs : j < i /\ outcome[j].errors > 0 => outcome[j].cause # outcome[i].cause

ShownJobs ==
  {i \in Jobs : FirstOfCause(i) /\ Cardinality({j \in Jobs : j < i /\ FirstOfCause(j)}) < ReportMax}

FailedJobs == {i \in Jobs : outcome[i].errors > 0}

ErrorTotal ==
  LET total[k \in 0 .. JobCount] ==
        IF k = 0 THEN 0 ELSE total[k - 1] + outcome[k - 1].errors
  IN total[JobCount]

ReportIsDeterministic ==
  main = "returned" =>
    IF JobCount > 0 /\ started = 0
    THEN report = ReportCannotStart
    ELSE LET isFailed == \E i \in Jobs : outcome[i].rc # 0 \/ outcome[i].errors > 0
             isSilent == isFailed /\ FailedJobs = {}
         IN /\ report.rc = IF isFailed THEN -1 ELSE 0
            /\ {report.shown[n] : n \in DOMAIN report.shown} = ShownJobs
            /\ \A m, n \in DOMAIN report.shown : m < n => report.shown[m] < report.shown[n]
            /\ report.more = Cardinality(FailedJobs) - Cardinality(ShownJobs)
            /\ report.errors = ErrorTotal + (IF isSilent THEN 1 ELSE 0)

(* Progress lines never interleave and count up by one: the rest of a line  *)
(* follows its head directly, and each line names one job more than the     *)
(* line before it (job.c: "the lines print in count order and the last one  *)
(* names every job").                                                       *)
LineStarts == {n \in 1 .. Len(printed) : printed[n].part \in {"whole", "head", "lost"}}

ProgressIsOrdered ==
  /\ \A n \in LineStarts : printed[n].count = Cardinality({m \in LineStarts : m <= n})
  /\ \A n \in 1 .. Len(printed) :
       printed[n].part = "rest" =>
         /\ n > 1
         /\ printed[n - 1] = [count |-> printed[n].count, part |-> "head"]
  /\ main = "returned" /\ Verbose /\ started > 0 => Cardinality(LineStarts) = JobCount

(* What a phase prints does not depend on how its threads were scheduled.   *)
OutputIsOrdered == ReportIsDeterministic /\ ProgressIsOrdered

(* The threads keep the phase's promise: every job runs exactly once in     *)
(* some order, and the report is the one a serial pass would give.  A job   *)
(* counts as finished when its function returned.                           *)
Phase == INSTANCE JobPhase WITH finished <- {i \in Jobs : runs[i] > 0}

ImplementsPhase == Phase!Spec

(* The phase ends: every schedule joins its workers and returns. *)
Terminates == <>(main = "returned")

=============================================================================
