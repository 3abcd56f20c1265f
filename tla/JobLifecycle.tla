---------------------------- MODULE JobLifecycle ----------------------------
(***************************************************************************)
(* The life of scan jobs across the three processes that touch them:       *)
(*                                                                         *)
(*   - the backend's use cases, each of which reads the job's row, applies *)
(*     a method of ScanJob to its copy and writes the whole row back, with *)
(*     no lock or version in between (launch_search.rs,                    *)
(*     answer_clarification.rs, ingest_results.rs);                        *)
(*   - the Celery workers, which run the task of each dispatch, call the   *)
(*     backend back and retry (agent/src/aiagent/tasks.py);                *)
(*   - the reaper, which fails the jobs that outlived the timeout from the *)
(*     copies it listed (fail_stale_jobs.rs).                              *)
(*                                                                         *)
(* A backend request is a record of calls, whose pc is its next access to  *)
(* the database or the agent.  It may outlive the worker that sent it.     *)
(* The time of a job's life is one bit: whether it outlived the timeout.   *)
(***************************************************************************)
EXTENDS ScanJob, FiniteSets

CONSTANTS Jobs,         \* the jobs users may launch
          MaxTasks,     \* bound: dispatches of one job (a launch and answers)
          MaxRetries,   \* max_retries of the Celery task
          MaxFaults     \* bound: crashes, timeouts, losses, aborts in a run

ASSUME ConstantsAssumption ==
    /\ MaxTasks \in Nat \ {0}
    /\ MaxRetries \in Nat
    /\ MaxFaults \in Nat

VARIABLES row,      \* [Jobs -> row of scan_jobs, NoRow before the launch]
          results,  \* [Jobs -> runs whose findings are in approval_findings]
          journal,  \* [Jobs -> task whose run stored seq 1, 0 if none]
          task,     \* [Jobs -> [Tasks -> Celery message and its execution]]
          calls,    \* the backend requests in progress
          batch,    \* [Jobs -> the reaper's copy of the row, NoRow if none]
          old,      \* the jobs created before the reaper's cutoff
          faults    \* how many faults have happened

vars == <<row, results, journal, task, calls, batch, old, faults>>

\* The dispatches of a job: 1 is the launch, the others carry an answer.
Tasks == 1..MaxTasks

\* The executions of one dispatch: its retries, and a redelivery per fault.
Runs == 1..(MaxRetries + 1 + MaxFaults)

\* What a worker waits for is the name of the call it made.
Callbacks == {"start", "step", "question", "results", "failure"}

Message == [pc: {"unsent", "queued", "started", "working", "paused", "done"}
                    \cup Callbacks,
            tries: 0..MaxRetries,   \* retries so far
            run: Runs \cup {0}]     \* executions so far

Unsent == [pc |-> "unsent", tries |-> 0, run |-> 0]

\* A request concerns dispatch by of its job; run is the execution that makes
\* a callback, 0 in a user's request.  copy is the row as it was read.
Call == [job: Jobs,
         op: Callbacks \cup {"launch", "answer"},
         by: Tasks,
         run: Runs \cup {0},
         pc: {"find", "purge", "commit", "append", "clear", "update",
              "dispatch", "refused"},
         copy: Rows({0} \cup Tasks) \cup {NoRow},
         purged: SUBSET (Tasks \X Runs)]

Init == /\ row = [j \in Jobs |-> NoRow]
        /\ results = [j \in Jobs |-> {}]
        /\ journal = [j \in Jobs |-> 0]
        /\ task = [j \in Jobs |-> [k \in Tasks |-> Unsent]]
        /\ calls = {}
        /\ batch = [j \in Jobs |-> NoRow]
        /\ old = {}
        /\ faults = 0

Fault == /\ faults < MaxFaults
         /\ faults' = faults + 1

(***************************************************************************)
(* The worker's side of a callback.                                        *)
(***************************************************************************)
\* The execution that made call c still waits for it.
Waiting(c) ==
    LET t == task[c.job][c.by] IN t.pc = c.op /\ t.run = c.run

Callback(j, k, run, op) ==
    [job |-> j, op |-> op, by |-> k, run |-> run,
     pc |-> "find", copy |-> NoRow, purged |-> {}]

\* Mutant of Retried: one retry too many.
RetriedOnceMore(t) ==
    IF t.tries <= MaxRetries
    THEN [t EXCEPT !.pc = "queued", !.tries = @ + 1]
    ELSE [t EXCEPT !.pc = "done"]

\* self.retry with the tries left, else the exception is final.
Retried(t) ==
    IF t.tries < MaxRetries
    THEN [t EXCEPT !.pc = "queued", !.tries = @ + 1]
    ELSE [t EXCEPT !.pc = "done"]

\* Mutant of AfterReply: a paused run raises to give up its worker.
AfterReplyPauseRequeued(t, o) ==
    CASE o = "start"    -> [t EXCEPT !.pc = "started"]
      [] o = "step"     -> [t EXCEPT !.pc = "working"]
      [] o = "question" -> [t EXCEPT !.pc = "queued"]
      [] o = "results"  -> [t EXCEPT !.pc = "done"]
      [] o = "failure"  -> Retried(t)

\* What the execution t goes on with once its call o answered 2xx...
AfterReply(t, o) ==
    CASE o = "start"    -> [t EXCEPT !.pc = "started"]
      [] o = "step"     -> [t EXCEPT !.pc = "working"]
      [] o = "question" -> [t EXCEPT !.pc = "paused"]
      [] o = "results"  -> [t EXCEPT !.pc = "done"]
      [] o = "failure"  -> Retried(t)

\* ... and once it raised: a lost step is ignored, a lost failure report too,
\* anything else makes the run report a failure.
AfterError(t, o) ==
    CASE o = "step"    -> [t EXCEPT !.pc = "working"]
      [] o = "failure" -> Retried(t)
      [] OTHER         -> [t EXCEPT !.pc = "failure"]

\* Call c ends and answers its worker, if that still waits.
Reply(c) ==
    /\ task' = [task EXCEPT ![c.job][c.by] =
                  IF Waiting(c) THEN AfterReply(@, c.op) ELSE @]
    /\ calls' = calls \ {c}

\* The worker waiting for c, if any, sees an exception; of c, rest goes on.
Raise(c, rest) ==
    LET reports == IF Waiting(c) /\ c.op \in {"start", "question", "results"}
                   THEN {Callback(c.job, c.by, c.run, "failure")} ELSE {}
    IN  /\ task' = [task EXCEPT ![c.job][c.by] =
                      IF Waiting(c) THEN AfterError(@, c.op) ELSE @]
        /\ calls' = (calls \ {c}) \cup rest \cup reports

\* Call c goes on as d; nobody is answered yet.
Continue(c, d) == /\ calls' = (calls \ {c}) \cup {d}
                  /\ UNCHANGED task

Write(j, copy) == row' = [row EXCEPT ![j] = copy]
(***************************************************************************)
(* Requests of the user.                                                   *)
(***************************************************************************)
\* LaunchSearch::execute, up to the insert; the scheduler launches its runs
\* the same way.  The quota check in front of it is not modelled here.
Launch(j) ==
    /\ row[j] = NoRow
    /\ Write(j, NewJob)
    /\ calls' = calls \cup
          {[job |-> j, op |-> "launch", by |-> 1, run |-> 0,
            pc |-> "dispatch", copy |-> NewJob, purged |-> {}]}
    /\ UNCHANGED <<results, journal, task, batch, old, faults>>

\* AnswerClarification::execute reads the job; in any other status than
\* awaiting_input it refuses and changes nothing.  Dispatch k will carry it.
Answer(j, k) ==
    /\ row[j].status = "awaiting_input"
    /\ k \in Tasks \ {1}
    /\ task[j][k] = Unsent
    /\ \A c \in calls : ~(c.job = j /\ c.op = "answer" /\ c.by = k)
    /\ calls' = calls \cup
          {[job |-> j, op |-> "answer", by |-> k, run |-> 0,
            pc |-> "clear", copy |-> row[j], purged |-> {}]}
    /\ UNCHANGED <<row, results, journal, task, batch, old, faults>>

\* Mutant of ClearSteps: the answer keeps the journal of the run that asked.
ClearNothing(c) ==
    /\ c.pc = "clear"
    /\ Continue(c, [c EXCEPT !.pc = "update"])
    /\ UNCHANGED <<row, results, journal, batch, old, faults>>

\* clear_steps
ClearSteps(c) ==
    /\ c.pc = "clear"
    /\ journal' = [journal EXCEPT ![c.job] = 0]
    /\ Continue(c, [c EXCEPT !.pc = "update"])
    /\ UNCHANGED <<row, results, batch, old, faults>>

\* The update of the answered job, whatever its row has become.
UpdateAnswered(c) ==
    /\ c.op = "answer" /\ c.pc = "update"
    /\ LET job == Answered(c.copy, c.by)
       IN  /\ Write(c.job, job)
           /\ Continue(c, [c EXCEPT !.pc = "dispatch", !.copy = job])
    /\ UNCHANGED <<results, journal, batch, old, faults>>

\* JobDispatcher::dispatch: the agent queues the task and says so...
Dispatch(c) ==
    /\ c.pc = "dispatch"
    /\ task' = [task EXCEPT ![c.job][c.by].pc = "queued"]
    /\ calls' = calls \ {c}
    /\ UNCHANGED <<row, results, journal, batch, old, faults>>

\* ... or queues it and the reply is lost on the way...
DispatchReplyLost(c) ==
    /\ c.pc = "dispatch"
    /\ Fault
    /\ task' = [task EXCEPT ![c.job][c.by].pc = "queued"]
    /\ calls' = (calls \ {c}) \cup {[c EXCEPT !.pc = "refused"]}
    /\ UNCHANGED <<row, results, journal, batch, old>>

\* ... or is unreachable or answers with an error status.  The slot of the
\* dispatch is spent.
DispatchFailed(c) ==
    /\ c.pc = "dispatch"
    /\ task' = [task EXCEPT ![c.job][c.by].pc = "done"]
    /\ calls' = (calls \ {c}) \cup {[c EXCEPT !.pc = "refused"]}
    /\ UNCHANGED <<row, results, journal, batch, old, faults>>

\* Mutant of UpdateRefused: the job is written back without fail().
UpdateUnfailed(c) ==
    /\ c.pc = "refused"
    /\ Write(c.job, c.copy)
    /\ calls' = calls \ {c}
    /\ UNCHANGED <<results, journal, task, batch, old, faults>>

\* The launch or the answer fails the job from the copy it still holds.
UpdateRefused(c) ==
    /\ c.pc = "refused"
    /\ Write(c.job, Failed(c.copy))
    /\ calls' = calls \ {c}
    /\ UNCHANGED <<results, journal, task, batch, old, faults>>

(***************************************************************************)
(* IngestResults: the handlers of the worker's callbacks.                  *)
(***************************************************************************)
\* Mutant of Find: complete() writes the status before the findings.
FindAndUpdate(c) ==
    /\ c.pc = "find"
    /\ Continue(c, IF c.op = "step"
                   THEN [c EXCEPT !.pc = "append"]
                   ELSE [c EXCEPT !.copy = row[c.job], !.pc = "update"])
    /\ UNCHANGED <<row, results, journal, batch, old, faults>>

\* jobs.find; record_step only checks that the job exists.
Find(c) ==
    /\ c.pc = "find"
    /\ Continue(c, IF c.op = "step"
                   THEN [c EXCEPT !.pc = "append"]
                   ELSE [c EXCEPT !.copy = row[c.job],
                           !.pc = IF c.op = "results" THEN "purge" ELSE "update"])
    /\ UNCHANGED <<row, results, journal, batch, old, faults>>

\* Mutant of Purge: the DELETE is committed on its own.
PurgeCommitted(c) ==
    /\ c.pc = "purge"
    /\ results' = [results EXCEPT ![c.job] = {}]
    /\ Continue(c, [c EXCEPT !.pc = "commit"])
    /\ UNCHANGED <<row, journal, batch, old, faults>>

\* store_results, the DELETE: it sees the findings committed so far.
Purge(c) ==
    /\ c.pc = "purge"
    /\ Continue(c, [c EXCEPT !.pc = "commit", !.purged = results[c.job]])
    /\ UNCHANGED <<row, results, journal, batch, old, faults>>

\* store_results, the INSERTs and the COMMIT.
Commit(c) ==
    /\ c.pc = "commit"
    /\ results' = [results EXCEPT ![c.job] = (@ \ c.purged) \cup {<<c.by, c.run>>}]
    /\ Continue(c, [c EXCEPT !.pc = "update", !.purged = {}])
    /\ UNCHANGED <<row, journal, batch, old, faults>>

\* append_step: the first step stored under a seq stays.
AppendStep(c) ==
    /\ c.pc = "append"
    /\ journal' = [journal EXCEPT ![c.job] = IF @ = 0 THEN c.by ELSE @]
    /\ Reply(c)
    /\ UNCHANGED <<row, results, batch, old, faults>>

\* The method of ScanJob each callback applies to the copy it found.
Applied(c) ==
    CASE c.op = "start"    -> Started(c.copy)
      [] c.op = "question" -> AwaitingInput(c.copy)
      [] c.op = "results"  -> Completed(c.copy)
      [] c.op = "failure"  -> Failed(c.copy)

\* jobs.update
Update(c) ==
    /\ c.op \in {"start", "question", "results", "failure"} /\ c.pc = "update"
    /\ Write(c.job, Applied(c))
    /\ Reply(c)
    /\ UNCHANGED <<results, journal, batch, old, faults>>

\* Everything the backend does for the requests it has.
Backend(c) ==
    \/ ClearSteps(c) \/ UpdateAnswered(c)
    \/ Dispatch(c) \/ DispatchReplyLost(c) \/ DispatchFailed(c) \/ UpdateRefused(c)
    \/ Find(c) \/ Purge(c) \/ Commit(c) \/ AppendStep(c) \/ Update(c)

\* A database error, or the end of the backend process, drops a request
\* before its next access; what it already did stays.
Abort(c) ==
    /\ Fault
    /\ Raise(c, {})
    /\ UNCHANGED <<row, results, journal, batch, old>>

\* The worker's HTTP client gives up, or the reply is lost, while the backend
\* still works on the request.
Timeout(c) ==
    /\ Waiting(c)
    /\ Fault
    /\ Raise(c, {c})
    /\ UNCHANGED <<row, results, journal, batch, old>>

(***************************************************************************)
(* The worker.                                                             *)
(***************************************************************************)
\* The execution of task k moves to pc, calling the backend if pc is a call.
Proceed(j, k, pc) ==
    /\ task' = [task EXCEPT ![j][k].pc = pc]
    /\ calls' = IF pc \in Callbacks
                THEN calls \cup {Callback(j, k, task[j][k].run, pc)} ELSE calls
    /\ UNCHANGED <<row, results, journal, batch, old, faults>>

\* A worker takes the message and marks the job started, unless it finds
\* itself misconfigured and reports that.
Execute(j, k, pc) ==
    /\ task[j][k].pc = "queued"
    /\ pc \in {"start", "failure"}
    /\ task' = [task EXCEPT ![j][k] = [@ EXCEPT !.pc = pc, !.run = task[j][k].run + 1]]
    /\ calls' = calls \cup {Callback(j, k, task[j][k].run + 1, pc)}
    /\ UNCHANGED <<row, results, journal, batch, old, faults>>

\* The run journals its first step.
ReportStep(j, k) ==
    /\ task[j][k].pc = "started"
    /\ Proceed(j, k, "step")

\* Mutant of Ask: no _ask_guard.
AskAgain(j, k) ==
    /\ task[j][k].pc \in {"started", "working"}
    /\ Proceed(j, k, "question")

\* The policy asks, which _ask_guard only lets a run do that carries no answer.
Ask(j, k) ==
    /\ k = 1
    /\ task[j][k].pc \in {"started", "working"}
    /\ Proceed(j, k, "question")

\* The scan is done; a workflow run may have journalled nothing.
Deliver(j, k) ==
    /\ task[j][k].pc \in {"started", "working"}
    /\ Proceed(j, k, "results")

\* The scan raised.
ScanFailed(j, k) ==
    /\ task[j][k].pc \in {"started", "working"}
    /\ Proceed(j, k, "failure")

Worker(j, k) ==
    \/ \E pc \in {"start", "failure"} : Execute(j, k, pc)
    \/ ReportStep(j, k) \/ Ask(j, k) \/ Deliver(j, k) \/ ScanFailed(j, k)

\* The worker process dies before the late ack: the broker queues the message
\* again, and a call under way goes on without it.
Crash(j, k) ==
    /\ task[j][k].pc \in Callbacks \cup {"started", "working"}
    /\ Fault
    /\ task' = [task EXCEPT ![j][k].pc = "queued"]
    /\ UNCHANGED <<row, results, journal, calls, batch, old>>

\* The broker loses a message.
LoseMessage(j, k) ==
    /\ task[j][k].pc = "queued"
    /\ Fault
    /\ task' = [task EXCEPT ![j][k].pc = "done"]
    /\ UNCHANGED <<row, results, journal, calls, batch, old>>

(***************************************************************************)
(* The reaper, which one leader runs at a time.                            *)
(***************************************************************************)
\* The job's created_at falls behind the cutoff.
Age(j) ==
    /\ row[j] # NoRow /\ j \notin old
    /\ old' = old \cup {j}
    /\ UNCHANGED <<row, results, journal, task, calls, batch, faults>>

\* Mutant of Stale: the reaper forgets the running jobs.
StalePending == {j \in old : row[j].status = "pending"}

Stale == {j \in old : row[j].status \in Unfinished}

Reaping == \E j \in Jobs : batch[j] # NoRow

\* list_unfinished_older_than
ListStale ==
    /\ ~Reaping
    /\ Stale # {}
    /\ batch' = [j \in Jobs |-> IF j \in Stale THEN row[j] ELSE NoRow]
    /\ UNCHANGED <<row, results, journal, task, calls, old, faults>>

\* One turn of the loop: the listed copy is failed and written.
Reap(j) ==
    /\ batch[j] # NoRow
    /\ Write(j, Failed(batch[j]))
    /\ batch' = [batch EXCEPT ![j] = NoRow]
    /\ UNCHANGED <<results, journal, task, calls, old, faults>>

\* The `?` of a failed update, or the leader's end, leaves the rest of the list.
ReaperAbort ==
    /\ Reaping
    /\ Fault
    /\ batch' = [j \in Jobs |-> NoRow]
    /\ UNCHANGED <<row, results, journal, task, calls, old>>

Reaper == ListStale \/ \E j \in Jobs : Reap(j)

Next ==
    \/ \E j \in Jobs : Launch(j) \/ Age(j) \/ Reap(j)
    \/ \E j \in Jobs, k \in Tasks :
          Answer(j, k) \/ Worker(j, k) \/ Crash(j, k) \/ LoseMessage(j, k)
    \/ \E c \in calls : Backend(c) \/ Abort(c) \/ Timeout(c)
    \/ ListStale \/ ReaperAbort

Spec == Init /\ [][Next]_vars

\* The backend's runtime polls the requests it has, its ticker runs the reaper
\* again and again, and time passes.  Users and workers owe nothing.
Fairness ==
    /\ WF_vars(\E c \in calls : Backend(c))
    /\ WF_vars(Reaper)
    /\ \A j \in Jobs : WF_vars(Age(j))

FairSpec == Spec /\ Fairness
(***************************************************************************)
(* Properties.                                                             *)
(***************************************************************************)
\* Every variable has its type.
TypeOK ==
    /\ row \in [Jobs -> Rows({0} \cup Tasks) \cup {NoRow}]
    /\ results \in [Jobs -> SUBSET (Tasks \X Runs)]
    /\ journal \in [Jobs -> {0} \cup Tasks]
    /\ task \in [Jobs -> [Tasks -> Message]]
    /\ calls \subseteq Call
    /\ batch \in [Jobs -> Rows({0} \cup Tasks) \cup {NoRow}]
    /\ old \subseteq Jobs
    /\ faults \in 0..MaxFaults

\* The columns of a row agree with its status: an error exactly when failed, a
\* completion time exactly when finished, a question when one awaits an answer
\* or has one.
Consistent(job) ==
    /\ job.error <=> job.status = "failed"
    /\ job.completedAt <=> job.status \in {"completed", "failed"}
    /\ job.status = "awaiting_input" \/ job.answer # 0 => job.question

\* However the writers of a row interleave, its columns come from one of them:
\* no mix of one writer's status and another's error, answer or time.  It rests
\* on JobRepository::update writing all of them in one statement.
RowsConsistent == \A j \in Jobs : Consistent(row[j])

\* A completed job has its findings in the table: IngestResults::complete
\* stores them before the status, and no stale copy of the row brings
\* "completed" back in front of them.
CompletedHasFindings ==
    \A j \in Jobs : row[j].status = "completed" => results[j] # {}

\* The backend still has to dispatch job j or to record that it could not.
Dispatching(j) ==
    \E c \in calls : c.job = j /\ c.pc \in {"dispatch", "refused"}

\* Some execution of job j is queued or under way.
Carried(j) == \E k \in Tasks : task[j][k].pc \notin {"unsent", "paused", "done"}

\* While nothing was lost, cut off or crashed, a pending or running job always
\* has a worker or a request that will move it on, however callbacks, answers
\* and the reaper interleave: only a fault leaves work for the reaper.
UnfinishedIsCarried ==
    faults = 0 =>
        \A j \in Jobs :
            row[j].status \in Unfinished => Dispatching(j) \/ Carried(j)

\* A job is asked about once (ADR-032): answered, it never awaits input again.
OneQuestionPerJob ==
    \A j \in Jobs : row[j].answer # 0 => row[j].status # "awaiting_input"

\* The journal of an answered job starts fresh (answer_clarification.rs): it
\* holds no step of the run that asked.
JournalStartsFresh ==
    \A j \in Jobs : row[j].answer # 0 => journal[j] # 1

\* A message is executed once, once more per retry and once more per fault:
\* neither a reply nor a redelivery starts an execution of its own.
ExecutionsBounded ==
    \A j \in Jobs, k \in Tasks :
        task[j][k].run <= task[j][k].tries + 1 + faults

(***************************************************************************)
(* What the documents claim of every interleaving.                         *)
(***************************************************************************)
\* job.rs:179, ADR-016: a failure never clobbers a completed job.
FailureNeverClobbersCompleted ==
    [][\A j \in Jobs : row[j].status = "completed" => row'[j].status # "failed"]_row

\* job.rs:12-14, ADR-032: a paused job is not stuck, the reaper leaves it alone.
ReaperLeavesPausedAlone ==
    [][\A j \in Jobs : row[j].status = "awaiting_input" => ~Reap(j)]_vars

\* postgres.rs:744-745, ADR-007: delivering again replaces, never duplicates.
FindingsReplaced == \A j \in Jobs : Cardinality(results[j]) <= 1

\* ADR-032: when the agent asks, the job moves to awaiting input as the task
\* ends.  So a task that ended asking, of a job the reaper never saw, has put
\* its question on the row.
PausedHasQuestion ==
    \A j \in Jobs \ old, k \in Tasks :
        task[j][k].pc = "paused" => row[j].question

(***************************************************************************)
(* What holds of the claims: the job follows the contract in every step    *)
(* but the writes of a copy that is no longer the row.                     *)
(***************************************************************************)
Contract == INSTANCE JobContract WITH
    status <- [j \in Jobs |-> row[j].status],
    delivered <- {j \in Jobs : results[j] # {}}

\* This step writes back a copy made from a row that has changed since.
StaleWrite ==
    /\ row' # row
    /\ \/ \E c \in calls : /\ c.pc \in {"update", "refused"}
                           /\ c \notin calls'
                           /\ c.copy # row[c.job]
       \/ \E j \in Jobs : batch[j] # NoRow /\ batch'[j] # batch[j]
                                           /\ batch[j] # row[j]

\* Every step that is not a stale write is a step of the contract.
FreshStepsKeepContract ==
    [][StaleWrite \/ [Contract!Next]_(Contract!vars)]_vars

\* The behaviours in which no row changes between a use case's read and its
\* write: they implement the contract.
FreshSpec == Init /\ [][Next /\ ~StaleWrite]_vars

ImplementsContract == Contract!Spec

(***************************************************************************)
(* Liveness.                                                               *)
(***************************************************************************)
\* The reaper's promise (ADR-016): no lost message, dead worker, unreachable
\* callback or stale write leaves a job pending or running forever; in the end
\* it is finished, or waits for its user.
EventuallySettled ==
    <>[](\A j \in Jobs : row[j].status \notin Unfinished)
=============================================================================
