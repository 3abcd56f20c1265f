--------------------------- MODULE ScanInvariant ---------------------------
(***************************************************************************)
(* The inductive invariant of AgentScan behind its theorems.               *)
(***************************************************************************)
EXTENDS AgentScan

Running == {"decide", "assess", "revoke", "poll", "deliver"}
Delivery == {"revoke", "poll", "deliver"}

\* Every run but the first is the answer's, a retry's or a fault's.
AttemptsPaid ==
    /\ attempt + (IF pc = "queued" THEN 1 ELSE 0)
         <= (IF answered THEN MaxRetries + 1 ELSE 0) + tries + 1 + faults
    /\ pc = "paused" => ~answered
    /\ pc \in Running => attempt # 0

\* What KeeperHub was asked to execute, and what that did to the chain.
ExecutionsJustified ==
    /\ run.todo \subseteq Dangerous
    /\ run.wallet = "scanned" => setting.delegated
    /\ \A e \in executions :
          /\ e.of \in Dangerous
          /\ e.by <= attempt
          /\ setting.delegated
          /\ e.status = "completed" => e.of \notin live

\* What the run says of it.
OutcomesTrue ==
    /\ pc = "poll" => run.at \in Approvals /\ run.wallet = "scanned"
    /\ \A a \in Approvals : run.outcome[a] = "revoked" => a \notin live
    /\ \A e \in executions :
          e.by = attempt /\ pc \in Running =>
              /\ run.wallet = "scanned"
              /\ run.outcome[e.of] = "not_attempted" => pc = "poll" /\ run.at = e.of

\* What was delivered says the same, and the run that delivered has ended.
ResultsTrue ==
    /\ results.by <= attempt
    /\ results.by = attempt => pc \notin Running
    /\ RevokedIsCleared
    /\ NotAttemptedIsUntouched

\* A run, its checkpoint and what was delivered cover the same.
CoverageTrue ==
    /\ Covers(run.found, Scanned(run))
    /\ Covers(saved.found, Scanned(saved))
    /\ DeliveryIsItsCoverage

\* A run that gets to its delivery has looked at something.
SightTrue ==
    /\ pc \in Delivery => ~Blind
    /\ NeverBlind

\* The steps of a run, or of what its checkpoint kept, as a journal has them.
JournalOf(r) == {r.steps[i] : i \in DOMAIN r.steps}

\* They are numbered from 1 on.
Numbered(r) == \A i \in DOMAIN r.steps : r.steps[i].seq = i

\* A first run begins with nothing, and what it reports, while no report is
\* lost, is what it has done.
JournalTrue ==
    /\ Numbered(run) /\ Numbered(saved)
    /\ attempt = 0 => journal = {} /\ saved = NoCheckpoint
    /\ attempt = 1 /\ faults = 0 /\ pc \in Running \cup {"done"} => journal = JournalOf(run)

\* The steps that count against the budget.
InBudget(r) ==
    /\ ~Workflow => Cardinality(StepsOf(r, "scan")) <= MaxSteps
    /\ Loop => Cardinality(StepsOf(r, "scan") \cup StepsOf(r, "degraded")) <= MaxSteps

\* A run and the checkpoint it may go on from are within it.
BudgetKept == InBudget(run) /\ InBudget(saved)

\* While neither a fault nor a retry came between, a run has reported nothing
\* but its own steps, and a delivery is of the chains its run scanned.
JournalWithin ==
    /\ faults = 0 /\ tries = 0 =>
          /\ pc = "queued" => journal = {}
          /\ pc \in Running \cup {"done"} => journal \subseteq JournalOf(run)
    /\ pc = "done" => results.scanned = Scanned(run)

\* What a run has executed it found, as does the delivery of what it executed;
\* and only the graph is asked to revoke with its budget gone.
RecordsTrue ==
    /\ run.todo \subseteq run.found
    /\ pc \notin {"revoke", "poll"} => run.todo = {}
    /\ pc = "poll" => run.at \in run.todo
    /\ ~Graph /\ run.todo # {} => ~run.over
    /\ pc = "done" => results.by = attempt
    /\ \A e \in executions :
          /\ e.by = attempt /\ pc \in Running => e.of \in run.found
          /\ e.by = results.by => e.of \in results.found

ScanInv ==
    /\ TypeOK
    /\ AttemptsPaid
    /\ ExecutionsJustified
    /\ OutcomesTrue
    /\ ResultsTrue
    /\ CoverageTrue
    /\ SightTrue
    /\ JournalTrue
    /\ JournalWithin
    /\ BudgetKept
    /\ RecordsTrue
=============================================================================
