----------------------------- MODULE AgentScan -----------------------------
(***************************************************************************)
(* A scan job as the agent carries it out, from its dispatch to its        *)
(* delivery, with its retries, its one pause for an answer, and the        *)
(* transactions it has KeeperHub send.                                     *)
(*                                                                         *)
(* The agent is one sequential process; what moves beside it is KeeperHub, *)
(* which completes an execution when it likes, also after the agent gave   *)
(* up polling it, and the failures: a dead worker, a callback that did not *)
(* arrive or whose reply did not.  What outlives a run is the journal, the *)
(* delivered findings, LangGraph's checkpoint and the chain.               *)
(***************************************************************************)
EXTENDS ScanRun, FiniteSets

CONSTANTS Settings,     \* the settings a job may run under
          MaxRetries,   \* max_retries of the Celery task
          MaxFaults     \* bound: crashes and callbacks lost in a run

ASSUME SettingsAssumption ==
    /\ Settings \subseteq Setting
    /\ MaxRetries \in Nat
    /\ MaxFaults \in Nat

VARIABLES setting,      \* how the job runs, fixed
          pc,           \* where its task is
          run,          \* the run in memory
          answered,     \* the task carries the user's answer
          tries,        \* retries of the task so far
          attempt,      \* runs so far
          journal,      \* agent_steps: a set of steps, one per seq
          results,      \* the delivered findings, NoResults before
          saved,        \* the graph's checkpoint, NoCheckpoint before
          live,         \* the approvals in force on chain
          executions,   \* what KeeperHub accepted to execute
          faults        \* how many faults have happened

vars == <<setting, pc, run, answered, tries, attempt, journal, results, saved,
          live, executions, faults>>

\* A task starts anew for an answer, a retry or a redelivery.
Attempts == 1..(2 * (MaxRetries + 1) + MaxFaults)

Execution == [of: Approvals, by: Attempts,
              status: {"pending", "completed", "failed"}]

NoResults == [by |-> 0, found |-> {}, outcome |-> NewRun.outcome,
              scanned |-> {}, degraded |-> {}]

Results == [by: Attempts \cup {0}, found: SUBSET Approvals,
            outcome: [Approvals -> Outcomes],
            scanned: SUBSET Chains, degraded: SUBSET Chains]

NoCheckpoint == [kept |-> FALSE, steps |-> <<>>, found |-> {}]
Checkpoint == [kept: BOOLEAN, steps: Seq(Step), found: SUBSET Approvals]

Init == /\ setting \in Settings
        /\ pc = "queued"
        /\ run = NewRun
        /\ answered = FALSE
        /\ tries = 0
        /\ attempt = 0
        /\ journal = {}
        /\ results = NoResults
        /\ saved = NoCheckpoint
        /\ live = Approvals
        /\ executions = {}
        /\ faults = 0

Workflow == setting.orchestrator = "workflow"
Loop == setting.orchestrator = "loop"
Graph == setting.orchestrator = "graph"

Fault == /\ faults < MaxFaults
         /\ faults' = faults + 1

(***************************************************************************)
(* Callbacks and failures of a run.                                        *)
(***************************************************************************)
\* append_step: the first step stored under a seq stays.
Appended(step) ==
    IF \E s \in journal : s.seq = step.seq THEN journal ELSE journal \cup {step}

\* report_step, best effort: a step that is lost is a fault, never an error.
Report(step) ==
    \/ journal' = Appended(step) /\ UNCHANGED faults
    \/ Fault /\ UNCHANGED journal

\* LangGraph saves the state of the graph after every node.
Save(r) ==
    saved' = IF Graph
             THEN [kept |-> TRUE, steps |-> r.steps, found |-> r.found]
             ELSE saved

\* A paid call may be the one that takes the cost over the cap.
Costs(over) == IF Workflow THEN {over} ELSE {over, TRUE}

\* Mutant of Raise: one retry too many.
RaiseOnceMore ==
    /\ run' = NewRun
    /\ IF tries <= MaxRetries
       THEN pc' = "queued" /\ tries' = tries + 1
       ELSE pc' = "failed" /\ UNCHANGED tries

\* The run raises: Celery retries the task while it may.
Raise ==
    /\ run' = NewRun
    /\ IF tries < MaxRetries
       THEN pc' = "queued" /\ tries' = tries + 1
       ELSE pc' = "failed" /\ UNCHANGED tries

(***************************************************************************)
(* The scan.                                                               *)
(***************************************************************************)
\* Mutant of Start: the resumed graph forgets the steps it was paused with.
StartWithoutSteps ==
    /\ pc = "queued"
    /\ LET from == IF Graph /\ answered /\ saved.kept THEN saved ELSE NoCheckpoint
       IN  /\ run' = [NewRun EXCEPT !.found = from.found]
           /\ pc' = "decide"
           /\ Save(run')
    /\ attempt' = attempt + 1
    /\ UNCHANGED <<setting, answered, tries, journal, results, live, executions, faults>>

\* A worker takes the message.  A graph that carries an answer goes on from its
\* checkpoint, if there is one; anything else starts over.
Start ==
    /\ pc = "queued"
    /\ LET from == IF Graph /\ answered /\ saved.kept THEN saved ELSE NoCheckpoint
       IN  /\ run' = [NewRun EXCEPT !.steps = from.steps, !.found = from.found]
           /\ pc' = IF Ended(from.steps) THEN "assess" ELSE "decide"
           /\ Save(run')
    /\ attempt' = attempt + 1
    /\ UNCHANGED <<setting, answered, tries, journal, results, live, executions, faults>>

\* A run that ends as it begins: the providers cannot be built, or mark_started
\* does not get through.
StartFails ==
    /\ pc = "queued" /\ Fault
    /\ Raise
    /\ attempt' = attempt + 1
    /\ UNCHANGED <<setting, answered, journal, results, saved, live, executions>>

\* Mutant of Spent: one step too many.
SpentLate ==
    CASE Workflow -> FALSE
      [] Loop  -> Len(run.steps) > MaxSteps
      [] Graph -> Cardinality(StepsOf(run, "scan")) > MaxSteps

\* The step budget: the loop counts its iterations, the graph its scans.
Spent ==
    CASE Workflow -> FALSE
      [] Loop  -> Len(run.steps) >= MaxSteps
      [] Graph -> Cardinality(StepsOf(run, "scan")) >= MaxSteps

\* The graph has no decision left: GraphRecursionError.
Looped == Graph /\ run.left = 0

\* Both budgets end the scan before the policy is asked.
Deciding == pc = "decide" /\ ~Looped
MayScan == Deciding /\ ~Spent /\ ~run.over

\* The chains that may be scanned next: the workflow takes one after the other,
\* DeterministicAgentPolicy the first it has not scanned, a model any.
FirstOf(S) ==
    {ChainIds[i] : i \in {i \in DOMAIN ChainIds :
        ChainIds[i] \in S /\ \A k \in 1..(i - 1) : ChainIds[k] \notin S}}

NextChains ==
    CASE Workflow -> {ChainIds[i] : i \in {Len(run.steps) + 1} \cap DOMAIN ChainIds}
      [] ~Workflow /\ setting.policy = "inorder" -> FirstOf(Chains \ Scanned(run))
      [] OTHER -> Chains

\* What GoPlus may report of chain c: what is live, and approvals that were
\* revoked but that it has not dropped yet.
Reports(c) ==
    {S \in SUBSET {a \in Approvals : ChainOf[a] = c} :
        \A a \in live : ChainOf[a] = c => a \in S}

\* fetch_approvals answers: the new approvals are kept, the chain is journalled.
Scan(c) ==
    /\ MayScan /\ c \in NextChains
    /\ \E found \in Reports(c), over \in Costs(run.over) :
          /\ run' = [run EXCEPT !.steps = Append(@, NextStep(run, "scan", c)),
                                !.found = @ \cup found,
                                !.over = over,
                                !.left = IF Graph THEN @ - 1 ELSE @]
          /\ Save(run')
    /\ Report(NextStep(run, "scan", c))
    /\ UNCHANGED <<setting, pc, answered, tries, attempt, results, live, executions>>

\* fetch_approvals raises: the gap is journalled and the run goes on.
ScanFails(c) ==
    /\ MayScan /\ c \in NextChains
    /\ \E over \in Costs(run.over) :
          /\ run' = [run EXCEPT !.steps = Append(@, NextStep(run, "degraded", c)),
                                !.over = over,
                                !.left = IF Graph THEN @ - 1 ELSE @]
          /\ Save(run')
    /\ Report(NextStep(run, "degraded", c))
    /\ UNCHANGED <<setting, pc, answered, tries, attempt, results, live, executions>>

\* The model asks, which it may once per job: the job pauses with what the
\* graph has saved, and nothing is delivered.
Ask ==
    /\ MayScan /\ ~Workflow
    /\ setting.policy = "model" /\ ~answered
    /\ pc' = "paused"
    /\ run' = NewRun
    /\ UNCHANGED <<setting, answered, tries, attempt, journal, results, saved,
                   live, executions, faults>>

\* A budget, the policy, or an Ask that _ask_guard turned down ends the scan.
Finish ==
    /\ Deciding /\ ~Workflow
    /\ Spent \/ run.over \/ setting.policy = "model" \/ NextChains = {}
    /\ run' = [run EXCEPT !.steps = Append(@, NextStep(run, "finish", None))]
    /\ Save(run')
    /\ pc' = "assess"
    /\ Report(NextStep(run, "finish", None))
    /\ UNCHANGED <<setting, answered, tries, attempt, results, live, executions>>

\* The workflow has tried every chain, or the agent ended its scan.
Assessing ==
    \/ pc = "assess"
    \/ Workflow /\ pc = "decide" /\ NextChains = {}

\* The graph ran into its recursion limit; or the model raises, as a policy or
\* explaining what was found, or the question does not get through.
Errs ==
    /\ \/ pc = "decide" /\ Looped
       \/ setting.policy = "model" /\ (Assessing \/ (MayScan /\ ~Workflow))
    /\ Raise
    /\ UNCHANGED <<setting, answered, attempt, journal, results, saved, live,
                   executions, faults>>

(***************************************************************************)
(* The tail: assess, revoke, deliver.                                      *)
(***************************************************************************)
\* Every chain it tried was out of reach.
Blind == Degraded(run) # {} /\ Scanned(run) = {}

\* A wallet nobody looked at is not reported clean.
RefuseToDeliver ==
    /\ Assessing /\ Blind
    /\ Raise
    /\ UNCHANGED <<setting, answered, attempt, journal, results, saved, live,
                   executions, faults>>

\* Mutant of ToAutoRevoke: whatever was found goes.
ToAutoRevokeAll(found) == found

\* approvals_to_auto_revoke
ToAutoRevoke(found) == found \cap Dangerous

\* The workflow has no revoker; the loop spares it once over budget.
Revokes(over) == Graph \/ (Loop /\ ~over)

\* Mutant of Assess: whatever was found is delivered.
AssessBlindly ==
    /\ Assessing
    /\ \E over \in IF setting.policy = "model" THEN Costs(run.over) ELSE {run.over} :
          run' = [run EXCEPT !.over = over,
                             !.todo = IF Revokes(over)
                                      THEN ToAutoRevoke(run.found) ELSE {}]
    /\ pc' = "revoke"
    /\ UNCHANGED <<setting, answered, tries, attempt, journal, results, saved,
                   live, executions, faults>>

\* resolve_approvals, then the dangerous ones are queued for revocation.
Assess ==
    /\ Assessing /\ ~Blind
    /\ \E over \in IF setting.policy = "model" THEN Costs(run.over) ELSE {run.over} :
          run' = [run EXCEPT !.over = over,
                             !.todo = IF Revokes(over)
                                      THEN ToAutoRevoke(run.found) ELSE {}]
    /\ pc' = "revoke"
    /\ UNCHANGED <<setting, answered, tries, attempt, journal, results, saved,
                   live, executions, faults>>

\* delegated_wallet, read once per run before its first revocation.
ReadWallet ==
    /\ pc = "revoke" /\ run.todo # {} /\ run.wallet = "unread"
    /\ \E wallet \in {"unknown", IF setting.delegated THEN "scanned" ELSE "other"} :
          run' = [run EXCEPT !.wallet = wallet]
    /\ UNCHANGED <<setting, pc, answered, tries, attempt, journal, results, saved,
                   live, executions, faults>>

\* The attempt to revoke a ended with outcome o: folded back and journalled.
Outcome(a, o) ==
    /\ run' = [run EXCEPT !.outcome[a] = o,
                          !.todo = @ \ {a},
                          !.at = None,
                          !.steps = Append(@, NextStep(run, "revoke", a))]
    /\ pc' = "revoke"
    /\ Report(NextStep(run, "revoke", a))
    /\ UNCHANGED <<setting, answered, tries, attempt, results, saved>>

\* Mutant of MayExecute: an unknown wallet is taken for permission.
MayExecuteUnlessOther(a) ==
    pc = "revoke" /\ a \in run.todo /\ run.wallet \in {"scanned", "unknown", "other"}

\* The key executes as the scanned wallet, and as far as is known only then.
MayExecute(a) == pc = "revoke" /\ a \in run.todo /\ run.wallet = "scanned"

\* Any other wallet's approve(spender, 0) would clear nothing: not attempted.
Refuse(a) ==
    /\ pc = "revoke" /\ a \in run.todo /\ run.wallet \in {"unknown", "other"}
    /\ Outcome(a, "not_attempted")
    /\ UNCHANGED <<live, executions>>

\* Mutant of Simulate: a dry run that would succeed is a revocation.
SimulateAsRevoked(a) ==
    /\ MayExecute(a) /\ setting.simulate
    /\ \E o \in {"revoked", "failed"} : Outcome(a, o)
    /\ UNCHANGED <<live, executions>>

\* A dry run answers at once, and never says revoked.
Simulate(a) ==
    /\ MayExecute(a) /\ setting.simulate
    /\ \E o \in {"simulated", "failed"} : Outcome(a, o)
    /\ UNCHANGED <<live, executions>>

\* KeeperHub refuses the call or answers without an execution id...
PostFails(a) ==
    /\ MayExecute(a) /\ ~setting.simulate
    /\ Outcome(a, "failed")
    /\ UNCHANGED <<live, executions>>

Accepted(a) == executions \cup {[of |-> a, by |-> attempt, status |-> "pending"]}

\* Mutant of PostReplyLost: what has no answer was not attempted.
PostReplyLostUnattempted(a) ==
    /\ MayExecute(a) /\ ~setting.simulate
    /\ executions' = Accepted(a)
    /\ Outcome(a, "not_attempted")
    /\ UNCHANGED live

\* ... or accepts it and the answer is lost...
PostReplyLost(a) ==
    /\ MayExecute(a) /\ ~setting.simulate
    /\ executions' = Accepted(a)
    /\ Outcome(a, "failed")
    /\ UNCHANGED live

\* ... or accepts it, and the agent polls.
Post(a) ==
    /\ MayExecute(a) /\ ~setting.simulate
    /\ executions' = Accepted(a)
    /\ run' = [run EXCEPT !.at = a]
    /\ pc' = "poll"
    /\ UNCHANGED <<setting, answered, tries, attempt, journal, results, saved,
                   live, faults>>

\* Mutant of PollEnds: a status that is terminal is a success.
PollEndsRevoked ==
    /\ pc = "poll"
    /\ \E e \in executions :
          /\ e.of = run.at /\ e.by = attempt /\ e.status # "pending"
          /\ Outcome(run.at, "revoked")
    /\ UNCHANGED <<live, executions>>

\* A terminal status: revoked is one that completed with a transaction's hash.
PollEnds ==
    /\ pc = "poll"
    /\ \E e \in executions :
          /\ e.of = run.at /\ e.by = attempt /\ e.status # "pending"
          /\ \E o \in IF e.status = "completed" THEN {"revoked", "failed"} ELSE {"failed"} :
                Outcome(run.at, o)
    /\ UNCHANGED <<live, executions>>

\* Mutant of PollGivesUp: the agent polls as long as it takes.
PollEndlessly == FALSE /\ UNCHANGED vars

\* The deadline passes, or a poll raises; the execution goes on.
PollGivesUp ==
    /\ pc = "poll"
    /\ Outcome(run.at, "failed")
    /\ UNCHANGED <<live, executions>>

Reporting == setting.recurring /\ ~Workflow

\* Mutant of ReportDelta: numbered after the steps the graph knows of.
ReportDeltaFromGraph ==
    /\ pc = "revoke" /\ run.todo = {} /\ Reporting
    /\ LET known == SelectSeq(run.steps, LAMBDA s : s.kind # "revoke")
           step == [seq |-> Len(known) + 1, kind |-> "report", detail |-> None]
       IN  /\ run' = [run EXCEPT !.steps = Append(@, step)]
           /\ Report(step)
    /\ pc' = "deliver"
    /\ UNCHANGED <<setting, answered, tries, attempt, results, saved, live, executions>>

\* A recurring scan journals what is new before it delivers.
ReportDelta ==
    /\ pc = "revoke" /\ run.todo = {} /\ Reporting
    /\ run' = [run EXCEPT !.steps = Append(@, NextStep(run, "report", None))]
    /\ pc' = "deliver"
    /\ Report(NextStep(run, "report", None))
    /\ UNCHANGED <<setting, answered, tries, attempt, results, saved, live, executions>>

Delivering ==
    \/ pc = "deliver"
    \/ pc = "revoke" /\ run.todo = {} /\ ~Reporting

\* store_results replaces what an earlier run delivered.
Stored == [by |-> attempt, found |-> run.found, outcome |-> run.outcome,
           scanned |-> Scanned(run), degraded |-> Degraded(run)]

Deliver ==
    /\ Delivering
    /\ results' = Stored
    /\ pc' = "done"
    /\ UNCHANGED <<setting, run, answered, tries, attempt, journal, saved, live,
                   executions, faults>>

\* The findings are stored, but the reply does not arrive...
DeliverReplyLost ==
    /\ Delivering /\ Fault
    /\ results' = Stored
    /\ Raise
    /\ UNCHANGED <<setting, answered, attempt, journal, saved, live, executions>>

\* ... or they are not stored.
DeliverFails ==
    /\ Delivering /\ Fault
    /\ Raise
    /\ UNCHANGED <<setting, answered, attempt, journal, results, saved, live, executions>>

Agent ==
    \/ Start \/ Ask \/ Finish \/ Errs
    \/ \E c \in Chains : Scan(c) \/ ScanFails(c)
    \/ RefuseToDeliver \/ Assess \/ ReadWallet
    \/ \E a \in Approvals :
          Refuse(a) \/ Simulate(a) \/ PostFails(a) \/ PostReplyLost(a) \/ Post(a)
    \/ PollEnds \/ PollGivesUp \/ ReportDelta \/ Deliver

(***************************************************************************)
(* The surroundings.                                                       *)
(***************************************************************************)
\* The user answers: the journal is cleared and a new task dispatched.
Answer ==
    /\ pc = "paused"
    /\ pc' = "queued"
    /\ answered' = TRUE
    /\ tries' = 0
    /\ journal' = {}
    /\ UNCHANGED <<setting, run, attempt, results, saved, live, executions, faults>>

\* Redis loses the checkpoint of a paused graph.
LoseCheckpoint ==
    /\ pc = "paused" /\ saved.kept /\ Fault
    /\ saved' = NoCheckpoint
    /\ UNCHANGED <<setting, pc, run, answered, tries, attempt, journal, results,
                   live, executions>>

\* The worker process dies and the broker delivers the message again.
Crash ==
    /\ pc \in {"decide", "assess", "revoke", "poll", "deliver"}
    /\ Fault
    /\ pc' = "queued"
    /\ run' = NewRun
    /\ UNCHANGED <<setting, answered, tries, attempt, journal, results, saved,
                   live, executions>>

\* KeeperHub's transaction of execution e is confirmed: it clears the allowance
\* of the wallet its key is delegated to.
Complete(e) ==
    /\ e.status = "pending"
    /\ executions' = (executions \ {e}) \cup {[e EXCEPT !.status = "completed"]}
    /\ live' = IF setting.delegated THEN live \ {e.of} ELSE live
    /\ UNCHANGED <<setting, pc, run, answered, tries, attempt, journal, results,
                   saved, faults>>

\* ... or reverts.
Fail(e) ==
    /\ e.status = "pending"
    /\ executions' = (executions \ {e}) \cup {[e EXCEPT !.status = "failed"]}
    /\ UNCHANGED <<setting, pc, run, answered, tries, attempt, journal, results,
                   saved, live, faults>>

Next ==
    \/ Agent \/ StartFails \/ DeliverReplyLost \/ DeliverFails \/ Crash
    \/ Answer \/ LoseCheckpoint
    \/ \E e \in executions : Complete(e) \/ Fail(e)

Spec == Init /\ [][Next]_vars

\* The worker runs, and every call it waits for has a timeout.  KeeperHub and
\* the user owe nothing.
FairSpec == Spec /\ WF_vars(Agent)

(***************************************************************************)
(* Properties.                                                             *)
(***************************************************************************)
\* Every variable has its type.
TypeOK ==
    /\ setting \in Setting
    /\ pc \in {"queued", "decide", "assess", "revoke", "poll", "deliver",
              "paused", "done", "failed"}
    /\ run \in Run
    /\ answered \in BOOLEAN
    /\ tries \in 0..MaxRetries
    /\ attempt \in Attempts \cup {0}
    /\ journal \subseteq Step
    /\ results \in Results
    /\ saved \in Checkpoint
    /\ live \subseteq Approvals
    /\ executions \subseteq Execution
    /\ faults \in 0..MaxFaults

\* "Revoked means one thing only" (models.py:28): a delivered finding that says
\* revoked is no longer in force on chain, whatever was simulated, refused,
\* polled in vain or executed by another run.
RevokedIsCleared ==
    \A a \in results.found : results.outcome[a] = "revoked" => a \notin live

\* "Nothing was tried" (ADR-065): of a finding delivered as not attempted, the
\* run that delivered it sent nothing to KeeperHub.
NotAttemptedIsUntouched ==
    \A e \in executions :
        e.by = results.by => results.outcome[e.of] # "not_attempted"

\* These findings are about these chains and leave out nothing in force there.
Covers(found, scanned) ==
    \A a \in Approvals :
        /\ a \in found => ChainOf[a] \in scanned
        /\ a \in live /\ ChainOf[a] \in scanned => a \in found

\* A delivery is about the chains its run covered and leaves out nothing there
\* (ADR-064, ADR-066): its findings are on scanned chains, and no approval in
\* force on one of them is missing, also when the run was resumed.
DeliveryIsItsCoverage == Covers(results.found, results.scanned)

\* A wallet is not reported on when every chain that was tried was out of reach
\* (ADR-064).
NeverBlind == results.degraded # {} => results.scanned # {}

\* The step budget bounds what an agent scans, over a pause too: the loop's
\* attempts, the graph's scans.
ScansBounded ==
    /\ ~Workflow => Cardinality(StepsOf(run, "scan")) <= MaxSteps
    /\ Loop => Cardinality(StepsOf(run, "scan") \cup StepsOf(run, "degraded"))
                  <= MaxSteps

\* The journal of a scan that needed one run, with no callback lost, is that
\* run's steps, every one of them: none of the three ways of running a scan
\* numbers two steps alike.
JournalIsTheRun ==
    pc = "done" /\ attempt = 1 /\ faults = 0 =>
        journal = {run.steps[i] : i \in DOMAIN run.steps}

\* What the agent does about an allowance, and says of it.
Contract == INSTANCE RevocationContract WITH
    cleared <- Approvals \ live,
    claimed <- {a \in results.found : results.outcome[a] = "revoked"}

\* Only dangerous allowances are ever cleared, and a delivery only claims those
\* that were.
ImplementsContract == Contract!Spec

\* Every task comes to an end, or pauses for its user, although KeeperHub may
\* never complete anything and a chain may stay out of reach.
EventuallyEnds == <>(pc \in {"done", "failed", "paused"})

(***************************************************************************)
(* What the documents claim.                                               *)
(***************************************************************************)
Covered == {s.detail : s \in {s \in journal : s.kind = "scan"}}

\* ARCHITECTURE.md:2384, ADR-064: "Partial coverage is reportable; zero coverage
\* is not."
ZeroCoverageNotReported == results.by # 0 => results.scanned # {}

\* ARCHITECTURE.md:2377, ADR-064: "All three paths continue to the next chain."
\* A run without a model that gives up for want of a reachable chain has tried
\* them all, unless its money ran out.
OutageSinksNoScan ==
    Assessing /\ Blind /\ setting.policy = "inorder" /\ ~run.over
        => Degraded(run) = Chains

\* ARCHITECTURE.md:2534-2535, ADR-067: the coverage the console states "is derived from
\* the journal steps, so it cannot drift from what actually ran".
CoverageIsWhatRan == pc = "done" => Covered \subseteq results.scanned

\* run_agent_scan.py:195, ADR-048: execution is skipped once over budget.
NoExecutionOverBudget == pc = "poll" => ~run.over

\* keeperhub.py:133-135: every attempt is in a durable row of findings.
AttemptsAreRecorded == pc = "done" => \A e \in executions : e.of \in results.found
=============================================================================
