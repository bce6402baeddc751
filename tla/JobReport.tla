----------------------------- MODULE JobReport ------------------------------
(***************************************************************************)
(* What a parallel phase reports: job_run_report_errors over the jobs' logs *)
(* and the result of the pool.  What a job does is its outcome: its result  *)
(* and the log it leaves.  Two logs compare equal in the code up to each    *)
(* line's attribution, so a log is a cause, the part before the             *)
(* attribution, and a number of errors.                                     *)
(***************************************************************************)
EXTENDS Integers, Sequences, FiniteSets

CONSTANTS JobCount,    \* jobs of the phase
          ReportMax,   \* JOB_ERROR_REPORT_COUNT_MAX
          Outcomes     \* what a job can return: its rc, its error count, its cause

ASSUME JobReportAssumption ==
  /\ JobCount \in Nat
  /\ ReportMax \in Nat \ {0}
  /\ \A o \in Outcomes : /\ o.rc \in {0, -1}
                         /\ o.errors \in Nat

Jobs == 0 .. JobCount - 1

NoLog == [rc |-> 0, errors |-> 0, cause |-> "none"]
NoReport == [rc |-> 1, shown |-> <<>>, more |-> 0, errors |-> 0, note |-> "none"]

(* Mutant: the errors of a log that is not shown are lost. *)
ScanShownOnly(ls) ==
  LET scan[k \in 0 .. JobCount] ==
        IF k = 0 THEN [shown |-> <<>>, failures |-> 0, errors |-> 0]
        ELSE LET s == scan[k - 1]
                 l == ls[k - 1]
                 isReported == \E n \in 1 .. Len(s.shown) : ls[s.shown[n]].cause = l.cause
             IN IF l.errors = 0 THEN s
                ELSE IF Len(s.shown) = ReportMax \/ isReported
                     THEN [s EXCEPT !.failures = @ + 1]
                     ELSE [shown    |-> Append(s.shown, k - 1),
                           failures |-> s.failures + 1,
                           errors   |-> s.errors + l.errors]
  IN scan[JobCount]

(* One pass over the logs in job order.  A log without errors is skipped, a *)
(* log whose cause was shown already, or that comes after ReportMax shown   *)
(* ones, only adds its error count.                                         *)
ScanLogs(ls) ==
  LET scan[k \in 0 .. JobCount] ==
        IF k = 0 THEN [shown |-> <<>>, failures |-> 0, errors |-> 0]
        ELSE LET s == scan[k - 1]
                 l == ls[k - 1]
                 isReported == \E n \in 1 .. Len(s.shown) : ls[s.shown[n]].cause = l.cause
                 isShown == Len(s.shown) # ReportMax /\ ~ isReported
             IN IF l.errors = 0 THEN s
                ELSE [shown    |-> IF isShown THEN Append(s.shown, k - 1) ELSE s.shown,
                      failures |-> s.failures + 1,
                      errors   |-> s.errors + l.errors]
  IN scan[JobCount]

ReportErrors(ls, poolRc) ==
  LET s == ScanLogs(ls)
      isSilent == poolRc # 0 /\ s.failures = 0
  IN [rc     |-> IF poolRc # 0 \/ s.failures > 0 THEN -1 ELSE 0,
      shown  |-> s.shown,
      more   |-> s.failures - Len(s.shown),
      errors |-> s.errors + (IF isSilent THEN 1 ELSE 0),
      note   |-> IF isSilent THEN "failed without a diagnostic" ELSE "none"]

(* job_run's own error, when no finished job can explain the failure. *)
ReportCannotStart ==
  [rc |-> -1, shown |-> <<>>, more |-> 0, errors |-> 1, note |-> "cannot start worker thread"]

=============================================================================
