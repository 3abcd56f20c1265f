------------------------------ MODULE ScanJob ------------------------------
(***************************************************************************)
(* The domain entity of a scan job: one row of the scan_jobs table and     *)
(* the transitions ScanJob's methods make on the copy a use case holds     *)
(* (src/backend/src/domain/job.rs).  Nothing here is concurrent: every     *)
(* operator maps the copy that was read to the copy that is written back.  *)
(*                                                                         *)
(* Data is kept to what the lifecycle tells apart.  error, question and    *)
(* completedAt say whether the column is set; answer names the dispatch    *)
(* that carries the user's answer, 0 standing for NULL.                    *)
(***************************************************************************)
EXTENDS Naturals

Statuses ==
    {"pending", "running", "awaiting_input", "completed", "failed"}

\* The statuses a worker is expected to move on from: those the reaper lists.
Unfinished == {"pending", "running"}

Rows(Answers) ==
    [status: Statuses, error: BOOLEAN, question: BOOLEAN,
     answer: Answers, completedAt: BOOLEAN]

\* The job id is not in the table.
NoRow ==
    [status |-> "none", error |-> FALSE, question |-> FALSE,
     answer |-> 0, completedAt |-> FALSE]

\* ScanJob::new
NewJob == [NoRow EXCEPT !.status = "pending"]

\* ScanJob::start: only a pending job starts.
Started(job) ==
    IF job.status = "pending" THEN [job EXCEPT !.status = "running"] ELSE job

\* Mutant of Completed: the error of an earlier failure stays.
CompletedKeepingError(job) ==
    [job EXCEPT !.status = "completed", !.completedAt = TRUE]

\* ScanJob::complete: unconditional, a late completion overwrites a failure.
Completed(job) ==
    [job EXCEPT !.status = "completed", !.error = FALSE, !.completedAt = TRUE]

\* Mutant of Failed: no guard.
FailedAlways(job) ==
    [job EXCEPT !.status = "failed", !.error = TRUE, !.completedAt = TRUE]

\* ScanJob::fail: anything but a completed job fails.
Failed(job) ==
    IF job.status = "completed"
    THEN job
    ELSE [job EXCEPT !.status = "failed", !.error = TRUE, !.completedAt = TRUE]

\* Mutant of AwaitingInput: a question reopens a finished job.
AwaitingInputAlways(job) ==
    [job EXCEPT !.status = "awaiting_input", !.question = TRUE]

\* ScanJob::request_input: only an unfinished job pauses.
AwaitingInput(job) ==
    IF job.status \in Unfinished
    THEN [job EXCEPT !.status = "awaiting_input", !.question = TRUE]
    ELSE job

\* ScanJob::provide_answer, for a job the caller checked to be awaiting input.
Answered(job, answer) ==
    [job EXCEPT !.status = "pending", !.answer = answer]
=============================================================================
