------------------------------ MODULE MCJobRun ------------------------------
(* Small instances of JobRun: outcomes of two causes, a job that fails      *)
(* twice in one log, and a job that fails without a diagnostic.             *)
EXTENDS JobRun

MCOutcomes ==
  { [rc |-> 0,  errors |-> 0, cause |-> "none"],
    [rc |-> -1, errors |-> 1, cause |-> "template"],
    [rc |-> -1, errors |-> 2, cause |-> "link"],
    [rc |-> -1, errors |-> 0, cause |-> "none"] }

=============================================================================
