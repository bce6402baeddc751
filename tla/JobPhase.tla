------------------------------ MODULE JobPhase ------------------------------
(***************************************************************************)
(* What pool.h and job.h promise of a parallel phase, without its threads:  *)
(* every job runs exactly once, in some order, and the phase then reports   *)
(* what a serial pass over the jobs' outcomes reports.  The one other end   *)
(* is a phase that could not run at all.                                    *)
(***************************************************************************)
EXTENDS JobReport

VARIABLES outcome,  \* what each job does
          finished, \* the jobs that ran
          report    \* the phase's report

vars == << outcome, finished, report >>

SerialReport ==
  ReportErrors(outcome, IF \E i \in Jobs : outcome[i].rc # 0 THEN -1 ELSE 0)

Init ==
  /\ outcome \in [Jobs -> Outcomes]
  /\ finished = {}
  /\ report = NoReport

FinishJob(i) ==
  /\ report = NoReport
  /\ i \notin finished
  /\ finished' = finished \cup {i}
  /\ UNCHANGED << outcome, report >>

Report ==
  /\ report = NoReport
  /\ finished = Jobs
  /\ report' = SerialReport
  /\ UNCHANGED << outcome, finished >>

CannotStart ==
  /\ report = NoReport
  /\ finished = {}
  /\ JobCount > 0
  /\ report' = ReportCannotStart
  /\ UNCHANGED << outcome, finished >>

Next == (\E i \in Jobs : FinishJob(i)) \/ Report \/ CannotStart

Spec == Init /\ [][Next]_vars

=============================================================================
