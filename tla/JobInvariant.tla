---------------------------- MODULE JobInvariant ----------------------------
(***************************************************************************)
(* The inductive invariant of JobLifecycle: what its safety properties     *)
(* rest on, about the copies in flight as much as about the table.         *)
(***************************************************************************)
EXTENDS JobLifecycle

Requests == {"launch", "answer"}

\* What each kind of request does next to the database or the agent.
CallShape(c) ==
    /\ c.op \in Requests <=> c.pc \in {"clear", "dispatch", "refused"}
                             \/ (c.pc = "update" /\ c.op = "answer")
    /\ c.op = "launch" => c.by = 1 /\ c.pc # "clear"
    /\ c.op = "answer" => c.by # 1
    /\ c.pc \in {"purge", "commit"} => c.op = "results"
    /\ c.pc = "append" => c.op = "step"
    /\ c.pc = "update" => c.op # "step"
    /\ c.op \in Callbacks => c.run \in Runs

CallsShaped == \A c \in calls : CallShape(c)

\* A copy read from the table is a row of a launched job.
Read(c) == c.pc \notin {"find", "append"}

CopiesRead ==
    /\ \A c \in calls : row[c.job] # NoRow /\ (Read(c) => c.copy # NoRow)
    /\ \A j \in Jobs : batch[j] # NoRow => row[j] # NoRow

\* Each dispatch of a job is made by at most one request, for a message that
\* was not sent before.
ToDispatch(c) == c.op \in Requests /\ c.pc # "refused"

DispatchedOnce ==
    /\ \A c \in calls : ToDispatch(c) => task[c.job][c.by] = Unsent
    /\ \A c, d \in calls :
          ToDispatch(c) /\ ToDispatch(d) /\ c.job = d.job /\ c.by = d.by => c = d
    /\ \A j \in Jobs, k \in Tasks : row[j] = NoRow => task[j][k] = Unsent

\* A message has been executed as often as it was retried or a fault had it
\* delivered again, and once more when an execution is under way or over.
Budget(t, f) ==
    /\ t.run <= t.tries + f +
                (IF t.pc \in {"unsent", "queued"} THEN 0 ELSE 1)
    /\ t.pc \in Callbacks \cup {"started", "working"} => t.run # 0

WithinBudget == \A j \in Jobs, k \in Tasks : Budget(task[j][k], faults)

\* The copies are as consistent as the rows they were read from, and an answer
\* is being given to a job that awaits one.
CopyConsistent(c) ==
    /\ Consistent(c.copy)
    /\ c.op = "answer" /\ c.pc \in {"clear", "update"} =>
          c.copy.status = "awaiting_input"

CopiesConsistent ==
    /\ \A c \in calls : CopyConsistent(c)
    /\ \A j \in Jobs : Consistent(batch[j])

\* A copy that says completed, or is about to, has findings in the table.
CopyHasFindings(c) ==
    c.copy.status = "completed" \/ (c.op = "results" /\ c.pc = "update")
        => results[c.job] # {}

CopiesHaveFindings ==
    /\ \A c \in calls : CopyHasFindings(c)
    /\ \A j \in Jobs : batch[j].status = "completed" => results[j] # {}

(***************************************************************************)
(* What holds besides as long as nothing was lost, cut off or crashed.     *)
(***************************************************************************)
\* Only the launch's run asks.
QuestionsAreFirst == \A c \in calls : c.op = "question" => c.by = 1

\* A callback has its execution waiting for it, and is the only one it has.
Synchronous ==
    \A c \in calls : c.op \in Callbacks =>
        /\ Waiting(c)
        /\ \A d \in calls :
              d.op \in Callbacks /\ d.job = c.job /\ d.by = c.by => d = c

\* The run that asked is over, and nothing starts it again.
Asked(j) == task[j][1].pc = "paused"

\* A version of job j that has a question is from after the run that asked, one
\* that has an answer from after its journal was cleared.
Settled(j, job) ==
    /\ job.question => Asked(j)
    /\ job.answer # 0 => /\ job.question /\ job.status # "awaiting_input"
                         /\ journal[j] # 1

VersionsSettled ==
    /\ \A j \in Jobs : Settled(j, row[j]) /\ Settled(j, batch[j])
    /\ \A c \in calls : Settled(c.job, c.copy)

AnswersCleared ==
    \A c \in calls : c.op = "answer" =>
        Asked(c.job) /\ (c.pc # "clear" => journal[c.job] # 1)

\* The inductive invariant of the behaviours without a fault, given the rest.
CalmInv ==
    /\ QuestionsAreFirst
    /\ faults = 0 => /\ Synchronous
                     /\ VersionsSettled
                     /\ AnswersCleared
    /\ UnfinishedIsCarried

\* The inductive invariant.
JobInv ==
    /\ TypeOK
    /\ CallsShaped
    /\ CopiesRead
    /\ DispatchedOnce
    /\ WithinBudget
    /\ RowsConsistent
    /\ CopiesConsistent
    /\ CompletedHasFindings
    /\ CopiesHaveFindings
    /\ CalmInv
=============================================================================
