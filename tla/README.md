# Verification of sever: TLA+ models, model checking and proofs

sever scans the token approvals of a wallet, grades their risk and, in agent
mode, revokes the dangerous ones. A Rust backend (`src/backend`) keeps the
system of record in PostgreSQL and serves a web console (`src/web`); a Python
agent (`src/agent`) runs the scans as Celery tasks and reports back over HTTP.

This directory holds TLA+ models of the parts whose correctness is a matter of
interleavings, retries and crashes, TLC configurations that check them on small
instances, and proofs checked by TLAPS for every instance.

## The system

| part | state it keeps | operations | what is hard |
|---|---|---|---|
| Scan job (`domain/job.rs`) | status, error, question, answer, completion time | new, start, complete, fail, request_input, provide_answer | its guards look at a copy of the row |
| Job use cases (`launch_search.rs`, `answer_clarification.rs`, `ingest_results.rs`) | none; rows of `scan_jobs`, `approval_findings`, `agent_steps` | launch, answer, started, step, question, results, failure, usage | read, change and write the whole row without a lock |
| Job reaper (`fail_stale_jobs.rs`) | the list it read | list, fail each | races every callback |
| Dispatch (`adapters/dispatch`, `adapters/api/app.py`) | none | POST /tasks | accepted with the answer lost |
| Celery task (`tasks.py`, `celery_app.py`) | the message in Redis, its retries | run, retry, redelivery on worker loss | runs again at any point |
| Agent loop (`run_agent_scan.py`, `langgraph_agent.py`, `run_scan.py`) | approvals, steps, chains scanned, spend | decide, scan, ask, finish, revoke, deliver | budgets, partial coverage, one question |
| Revocation (`execute_revocations.py`, `keeperhub.py`) | KeeperHub's executions | execute, poll | repeated by a retry; confirmed but not recorded |
| Scheduler (`run_due_searches.rs`, `recurring_searches.rs`) | `recurring_searches`, last run | create, delete, launch due, mark ran | crash between launch and mark, quota races |
| Leader lock (`leader_lock.rs`, `postgres.rs`) | a session advisory lock | acquire, release | the session outlives the tick |
| Recurring memory and digests (`ingest_results.rs`, `digest.rs`) | what earlier runs delivered | read the memory, deliver, notify | runs overlap, are delivered again, fail between storing and telling |
| Sessions (`refresh_session.rs`, `session.rs`) | refresh tokens in families | issue, rotate, detect reuse, log out | double use, revocation against rotation |
| E-mail codes (`verify_email.rs`, `password_reset.rs`) | codes, attempts, cooldown | request, confirm, reset, purge | parallel guesses, two live codes |
| KeeperHub keys (`keeperhub_key.rs`) | one sealed key per user | connect, status, disconnect | against dispatches and each other |
| Queries and the event stream (`queries.rs`, `sse.rs`) | last state sent | poll, send, end | three reads without a lock; ends at the first terminal status |
| Rate limiter (`rate_limit.rs`) | counters per window | check | window edges, late requests, Redis down |
| Repositories (`postgres.rs`, `in_memory.rs`) | the tables, and their double for tests | every statement, every method | a test on the double must say something of PostgreSQL |
| Web console, authentication adapters, LLM policies, configuration, telemetry, evaluation | little or none | | see *Not modelled* |

The parts meet in three places. The backend dispatches a job to the agent
(`POST /tasks`) and the worker calls it back (`/internal/jobs/{id}/...`); every
backend request, the reaper and the scheduler meet in the rows of PostgreSQL;
and the owner sees the result through the event stream.

### What makes each part correct

- **Job**: its owner always gets an outcome: it is completed with its findings,
  failed with an error, or waits for an answer; a verdict is not silently
  replaced by a worse one; it is asked about once.
- **Agent loop and revocation**: a wallet nobody looked at is never reported
  clean; a delivery covers the chains it says it covers; only dangerous
  approvals are revoked, and *revoked* is only said of what was cleared on chain.
- **Scheduler**: at most one run per interval and scan, however many replicas; a
  due scan gets its turn; quota and limit are exceeded by what is in flight only.
- **Recurring runs**: what was found is told, once; a key that is used is audited.
- **Sessions**: of a family at most one token is usable, none after a reuse.
- **Codes**: at most the allowed guesses, a code works once, one works at a time.
- **Stream**: what is sent last is the whole result.
- **Limiter**: how much more than its limit it may let through around a window.

## Modules

| module | models |
|---|---|
| `ScanJob` | the entity: one row of `scan_jobs` and the methods on a copy of it, each the operator of its name |
| `JobLifecycle` | the rows, findings and journal, the backend's requests, the Celery messages and their executions, the reaper and its clock; EXTENDS `ScanJob` |
| `JobContract` | the abstract promise: each operation one atomic step on a job's status |
| `JobInvariant` | the inductive invariant of `JobLifecycle` |
| `MCJobLifecycle` | `JobLifecycle` for TLC: its jobs |
| `JobLifecycleProofs` | type correctness and the bound on executions |
| `JobContractProofs` | rows and findings, jobs and streams without faults, and the contract |
| `ScanRun` | one run of a scan in the agent's memory: steps, approvals found, outcomes, and what is computed from them |
| `AgentScan` | a scan task: its runs as workflow, loop or graph, the pause, revocation with KeeperHub, delivery; EXTENDS `ScanRun` |
| `RevocationContract` | the abstract promise: only dangerous allowances are cleared, only cleared ones are claimed |
| `ScanInvariant` | the inductive invariant of `AgentScan` |
| `MCAgentScan` | `AgentScan` for TLC: chains, approvals and settings |
| `AgentScanProofs` | type correctness, truth and coverage of deliveries, journal, budget, and the contract |
| `EmailCodes`, `RefreshTokens` | the tables of verification codes and refresh tokens: rows, statements and what they select, as operators |
| `Accounts` | registration, sign-in, password reset, refresh and logout, request by request; EXTENDS both |
| `AccountContract` | the abstract promise: one usable code per purpose, one answer, one fresh token per session |
| `MCAccounts`, `AccountProofs` | `Accounts` for TLC; its types, safety invariants and contract proved |
| `LeaderLock` | the advisory lock of PostgreSQL on pooled sessions, as operators |
| `Scheduler` | recurring scans, the loops of the replicas, the quota; EXTENDS `LeaderLock` |
| `SchedulerInvariant`, `MCScheduler`, `SchedulerProofs` | its inductive invariants, TLC, proofs |
| `KeeperHubKeys` | the key of an account: connect, replace, disconnect, rotation of the encryption key |
| `RecurringRuns` | runs of one recurring scan: memory, key, delivery, digest; EXTENDS `KeeperHubKeys` |
| `MCRecurringRuns`, `RecurringRunsProofs` | TLC and proofs |
| `JobStream`, `MCJobStream` | details and event streams on the running lifecycle; EXTENDS `JobLifecycle` |
| `Tables` | the statements of `postgres.rs` on the tables the others only have in part |
| `InMemory`, `InMemoryProofs` | the in-memory repositories, and when they do what the statements do |
| `RateLimit`, `RateLimitProofs` | the fixed-window limiter in memory and on Redis, and what it lets through |

### JobLifecycle

`row` is `scan_jobs`: the columns a transition touches. Whether `error`,
`question` and `completed_at` are set is a Boolean, `answer` names the dispatch
that carries it. `results` is `approval_findings`, as the set of executions
whose findings are in it, and `journal` the first entry of `agent_steps`: the
task that stored sequence number 1.

A backend request is a record in `calls`. Its `pc` is its next access: `find`,
then `update` for a callback that changes the row; `find`, `append` for a step;
`find`, `purge`, `commit`, `update` for a delivery (the transaction of
`store_results` is split at what it reads: the `DELETE` sees what is committed
then, and its effect is visible at the commit); `clear`, `update`, `dispatch`
for an answer; `dispatch` for a launch (the insert is the step that creates the
request); `refused` when the dispatch failed. `copy` is the row as it was read.
Every access is one action, so that requests interleave as they do on separate
connections. `Update` writes the whole copy, as `JobRepository::update` does.

`task[j][k]` is the Celery message of dispatch `k` of job `j`. Its `pc` is
where its execution is: `queued`, inside one of the callbacks, between them
(`started`, `working`), `paused` or `done`. An execution decides
nondeterministically: it journals a step, asks, delivers or fails, in the order
`run_agent_scan` and `run_scan` allow; only the first dispatch may ask
(`_ask_guard`). A reply moves it on only if that execution still waits
(`Waiting`): after a client timeout or a crash the request goes on by itself.

Faults: an aborted request (`Abort`, a database error or the end of the
process), a client timeout (`Timeout`), a dispatch whose reply is lost
(`DispatchReplyLost`), a worker's death (`Crash`, after which the broker queues
the message again), a lost message (`LoseMessage`), an aborted list of the reaper
(`ReaperAbort`). A refused dispatch and a failing scan are ordinary steps.

The reaper's clock is one bit per job: `Age` puts it past the cutoff. The
quota in front of a launch, usage, digests and wallet addresses are left out.

### AgentScan

`JobLifecycle` leaves open what an execution does; `AgentScan` is one task from
its dispatch to its delivery. `setting` is how the job runs: `workflow`
(`run_scan`), `loop` (`run_agent_scan`) or `graph` (LangGraph), with a model or
`DeterministicAgentPolicy`, live or simulated, once or recurring. `pc` is where
the task is, `run` the state of the run in memory (`GraphState` and the locals of
the loop), `journal` the rows of `agent_steps`, `results` the delivered findings,
together with what the code does not deliver but a property is about (which run
delivered them and the chains it covered), `saved` LangGraph's checkpoint,
`executions` what KeeperHub accepted, `live` the allowances in force on chain.

| action | code |
|---|---|
| `Start`, `StartFails` | `run_scan_task`, the entry of each orchestrator, the graph's resumption |
| `Scan`, `ScanFails` | an iteration of the loop, `decide` and `do_scan` of the graph, a chain of the workflow |
| `Ask`, `Answer` | the pause; the backend's answer, which clears the journal and dispatches a new task |
| `Finish`, `Errs`, `RefuseToDeliver` | a budget or the policy ends the scan; it raises; nothing was seen |
| `Assess`, `ReadWallet`, `Refuse`, `Simulate`, `PostFails`, `PostReplyLost`, `Post`, `PollEnds`, `PollGivesUp` | `resolve_approvals`, `revoke_dangerous` and the branches of `KeeperHubApprovalRevoker` |
| `ReportDelta`, `Deliver`, `DeliverReplyLost`, `DeliverFails` | the recurring report, `store_results` |
| `Crash`, `LoseCheckpoint` | worker death with redelivery; Redis without the checkpoint |
| `Complete`, `Fail` | a transaction is confirmed or reverts |

The agent is sequential, so a step takes what one await of its code does, the
state it changes and the callback that reports it. A journal callback is best
effort (`_report`): losing it is a fault, not an error. Every step journalled is
numbered after the run's last (`NextStep`); `append_step` keeps the first stored
under a number. A raise retries the task while it may (`Raise`).

Assumed of what lies outside `src`: GoPlus reports at least the approvals in
force on a chain it answers for, and may still report revoked ones (`Reports`);
KeeperHub may accept a call and lose the reply, completes or fails an accepted
execution at any time, executes as the one wallet its key is delegated to, and
sends no transaction for a dry run;
LangGraph saves after every node and its recursion limit is a number of
decisions that are left (`GraphLimit`), fewer than which a run may take.
Abstracted: approvals are keyed and so deduplicated; prices and tokens are
whether the cap was crossed, by any paid call; a model decides anything a policy
may and may raise; a chain a model names that the adapter does not know is one
that fails. Left out: the in-memory fakes, prompts, the wording of findings.

### Accounts

`account`, `codes` and `tokens` are `users`, `email_verifications` and
`refresh_tokens`. Codes and tokens are numbers in the order they were issued,
their hashes injective; time passes by the oldest one expiring (`ExpireCode`,
`ExpireToken`), since both have one lifetime. A request is a record in
`requests` whose `pc` is its next access:

| requests | accesses, in the order of the code |
|---|---|
| `Register` | `insert`, `lookup`, then as `Resend` |
| `Resend`, `Login`, `Forgot` | `supersede` (the `UPDATE`, which sees what is committed), `commit`, `send` |
| verify | `compare`, then `attempt`, or `consume`, `verified`, `open` |
| reset | `compare`, then `attempt`, or `consume`, `password`, `verified`, `close`, `open` |
| refresh | `rotate` and `renew`, `revoke` for a reuse, `discard` for an expired token |
| logout | `revoke` |

What a request found travels in its record (`code`, `superseded`, `parent`,
`family`), so every later access acts on what was read before. Any request may
end at any access (`Abort`). `PurgeCodes` and `PurgeTokens` are the tick's. A
request that the first look or a throttle refuses leaves no trace and is no
action; the resend cooldown is such a refusal.

`AccountContract` does each thing at once. `StepsKeepContract` says that every
step of `Accounts` is one of the contract, or is `ActsOnStale`: one of four races
it names, in which a request acts on what it read and is no longer so.

### Scheduler

`search` is `recurring_searches` with the age of `last_run_at` in place of the
time, `used` what `count_created_since` counts, `loop[p]` the loop of replica `p`:
`acquire`, `list_due`, and of each search the count, the insert, the dispatch,
perhaps the failure, and `mark_ran`. Launches and creations of users are
requests of two accesses, the check and the insert. `lock` belongs to a session
of a replica's pool, and `acquire` may take any session that is not in use, the
one of a lock that was not released included. Faults: an error anywhere in a
tick, a failed unlock, a replica's crash, the end of the session that holds the
lock. Ghosts: `ranAge` is the age of the latest launch, `cut` the launches a
fault left unmarked, `torn` that a tick went on without its session.

### RecurringRuns and KeeperHubKeys

The runs of one scan that has a webhook. A launch or an answer reads the memory
and then the key; the worker finds any set of approvals, may ask, and delivers;
the delivery stores, writes the row, looks the webhook up and sends. A task is
run again up to `MaxTries` times, from any point of its delivery. `silent` are the
runs that ended without telling, by a failure. Of a key there is what opens
its ciphertext; a connection asks KeeperHub, upserts, and records its event, and
a failure between the last two is in `missed`. Which of several events comes
first, and when a credential was created, are left out here (`Tables` has them).

### JobStream

`SearchQueries::get` on top of every step of `JobLifecycle`: the row, the
findings and the journal are read one after the other. The same reads make the
answer to a GET and each turn of the stream, which ends with the first terminal
status. Events equal to the last sent are not told apart from none.

### Tables, InMemory

A table is a function of the ids in it, each statement an operator from the
table before to the table after, a constraint that refuses, a foreign key
included, leaves the table as it is. What is only stored and read back is left out.
`InMemory` has one operator for each method of the hash maps the unit tests run on.

### RateLimit

Time in seconds. A request reads its clock, and is counted up to `Lag` later:
it waits for the mutex of the map, or for Redis, whose answer is given up after
a second. Redis is assumed to keep keys until they expire, and the clocks of the
replicas to agree. Requests let through because Redis did not answer are not
among those the bounds count.

## Runs

| run | instance | shows |
|---|---|---|
| `job_faultless` | 1 job with an open stream, 3 dispatches, 1 retry, no fault | every detail the console is shown is coherent; unfinished work is always carried by a message or a request; one question per job; a fresh journal after an answer |
| `job_faults` | 1 job, 2 dispatches, 1 retry, 1 fault, fair | types, consistent rows, findings of completed jobs, bounded executions, the inductive invariant; every step but a stale write follows the contract; the reaper settles every job |
| `job_fresh` | 2 jobs, 2 dispatches each, without stale writes | the lifecycle implements `JobContract` |
| `scan_faults` | loop and graph, recurring, 2 chains, budget 2, 1 fault | what is delivered is true and covers its chains, over a resumption too; the budget holds; `RevocationContract` is implemented |
| `scan_ends` | all settings, 2 revocations on one chain, 1 retry, fair | every task ends or pauses; no delivery is blind; the journal is the run; the inductive invariant |
| `accounts` | 1 account, 2 requests at a time, 2 codes, 2 tokens, 1 attempt | sessions only of verified accounts, bounded guesses, passwords only by reset codes, mailed codes stored; every step but four races follows `AccountContract` |
| `scheduler` | 2 replicas with 2 sessions each, 2 searches, 1 request, quota and limit 1, 1 fault, fair | at most one launch per interval; launches are marked; quota and limit exceeded only by what is in flight; a due search gets its turn |
| `recurring_runs` | 2 runs that may overlap, 1 approval, each task twice, 2 keys, 1 request, 1 rotation | what is found is told, and told once; a key in use is audited |
| `job_clobbered` | no fault | **violated**: "a failure never clobbers a completed job" |
| `job_findings_doubled` | 1 fault | **violated**: a delivery replaces the findings of another |
| `scan_outage` | no model, no fault | **violated**: a chain out of reach does not sink the scan |
| `scan_drift` | workflow, 1 fault | **violated**: coverage derived from the journal cannot drift |

Bounds. Jobs share nothing but the reaper's list, so one job is enough for
everything but the list. Two dispatches give a launch and an answer, three a
second answer, which is what two answers racing to one question need. One retry
lets a retry follow a reported failure; one fault of any kind at any point
gives a client timeout with the late write behind it, a redelivery of an
execution whose callback is still under way, a lost reply.

Of a scan, two chains let one be scanned and one not, before and after a pause;
two approvals one be dangerous and one not (`scan_faults`), or two be sent for
revocation one after the other (`scan_ends`). `MaxSteps` 2 lets the budget end a
scan in the middle of the chains and after a pause; `GraphLimit` 3 is above it,
so that the limit strikes only when chains fail. A fault of `scan_faults` starts
a second run, against executions of the first that are still pending; with the
answer that makes three runs. `scan_ends` has retries instead.
`scan_faults` takes recurring settings only: they take every step the others take
and one more.

Of accounts, two requests at a time are what every race of two requests needs;
two codes let one supersede the other or both stay live, of one purpose or two;
two tokens are a parent and its successor, or two families. One attempt is where
the check and the count come apart. Accounts share no row, so one is enough.

Of the scheduler, two replicas contend for the lock, two sessions each let a
lock be left behind on one and the next tick come on the other; with a quota and
a limit of 1 each check fails after one insert; one fault of any kind anywhere.
Ages are capped at the interval: the longest one a guard tells from another. The
day's count is unbounded in the model and bounded by what `QuotaBounded` says.

Of recurring runs, two runs overlap, pause, and deliver twice; the memory is
within its limit there. `RunsMemory` has one that is not; with its approvals and
limit, retries and no recognised key the invariants of the run were checked as well.

Deadlock is not checked where the system may settle: the runs of jobs and scans.

### The violated claims

`job_clobbered`: `ScanJob::fail` guards against a completed job, and the reaper's
query against a paused one, but both look at a copy, and
`JobRepository::update` writes it back without asking whether the row is still
the one that was read. `FreshStepsKeepContract` says that this is the only cause:
any step that leaves the contract is such a write. An update that names the
expected status in its `WHERE` clause would make `job_fresh` the system.

`job_findings_doubled`: without a unique key or a lock on the job, the `DELETE`
of one transaction does not see the rows another is about to commit.

`scan_outage`: `DeterministicAgentPolicy` asks for the first chain without a
`scan` step. A chain out of reach leaves a `degraded` one, so it is asked for
again until the budget is spent, and the chains behind it are never tried.

`scan_drift`: the redelivered run numbers its steps from 1 and `append_step`
drops those whose numbers the dead run has used, so the journal may claim a
chain that was out of reach for the run that delivers.

Configurations kept for reading counterexamples, not among the runs. TLC refutes
each of these claims (`tlc -config X.cfg M`):

| configuration | claim | why it fails |
|---|---|---|
| `JobPausedReaped` | the reaper leaves a paused job alone | the same stale copy as `job_clobbered` |
| `JobQuestionLost` | a task that ends asking has paused its job | a failed attempt reports the failure and retries, and on a failed job a question is a no-op that answers 2xx |
| `JobAskedTwice` | one question per job, with a fault | a redelivered first execution carries no answer |
| `ScanUnseen` | zero coverage is not reportable | a model may finish at once, having tried no chain |
| `ScanOverBudget` | execution is skipped once over budget | the graph does not ask before it revokes |
| `ScanUnrecorded` | every attempt is in a durable row of findings | a delivery fails after an execution; the retry may no longer see the approval |
| `SessionForked` | a token is "single use" and the next of its family takes its place (`refresh_session.rs:41`) | the consumed check and `mark_consumed` are two accesses: a token presented twice at once is rotated twice, and both successors live on undetected |
| `AccountsTwoCodes` | "a reader must never see two live codes" (`postgres.rs:416`) | two transactions at once each supersede only what was committed before their `UPDATE` |
| `AccountsResetSurvived` | "every existing session dies with the old password" (`password_reset.rs:194`) | a rotation under way puts its token in after `delete_for_user`; it lives on in a family without parents |
| `RunsMemory` | the memory has the most recent first (`ports.rs:195`) | the query orders by key, so the limit cuts an arbitrary part |

`SchedulerRequests` is `scheduler` with two requests, so that two creations or
launches race with each other; its invariants hold.

Other sentences the models do not bear out, each by a behaviour of a run above:
`leader_lock.rs:7` ("exactly one instance runs it") fails once a session
ends under a tick, which goes on (`torn`); `keeperhub_credential.rs:25` says a
key is saved though KeeperHub was out of reach, `keeperhub_key.rs:90` does not
save it; `keeperhub_key.rs:166` and `:192` log "scanning without revoke", but a
worker with a key in its environment falls back to that (`tasks.py:148`);
`job.rs:189` says that only a running job pauses, its guard also lets a pending one.

### Fairness

Of `JobLifecycle`, `FairSpec` assumes that the backend's runtime polls its requests, that the
ticker runs the reaper again and again (`main.rs` spawns the loop for the life of
the process) and that time passes. It assumes nothing of users and workers: a
message may stay queued forever and a worker may hang, which is what the reaper
is for. Faults are finite in a run.

Of `Scheduler`, `FairSpec` assumes that some replica goes on trying for the lock
whenever it can have it, and that a tick that began goes on: the ticker never
stops, and each access of a tick ends in an answer or an error. A lock left on a
pooled session is had again by that session, so somebody can always lead. It
assumes nothing of users, and nothing that keeps a session from being lost.

Of `AgentScan`, `FairSpec` is weak fairness of the agent: the worker process
runs, and every call it waits for has a timeout (`PollGivesUp`, and the clients'
timeouts behind `ScanFails` and `PostFails`). KeeperHub need not complete
anything, a chain may stay out of reach and the user need not answer.

## Proofs

`JobLifecycleProofs` and `JobContractProofs` prove, for every set of jobs and
every bound:

- `TypeCorrect`: `Spec => []TypeOK`;
- `ExecutionsAreBounded`, `RowsStayConsistent`, `CompletedJobsHaveFindings`;
- `UnfinishedJobsAreCarried`, and, as long as there was no fault, `JobsAreAskedOnce`
  and `JournalsStartFresh`;
- of the streams, `CompletedDetailsDeliver`, and without a fault `DetailsAreCoherent`;
- `JobInvAlways`: the inductive invariant;
- `FreshStepsFollowContract`: `Spec => FreshStepsKeepContract`;
- `FreshJobsImplementContract`: `FreshSpec => ImplementsContract`, a refinement;
- `FreshFailuresNeverClobber`: `FreshSpec => FailureNeverClobbersCompleted`, the claim
  that `job_clobbered` refutes for `Spec`.

They rest on `ConstantsAssumption` only. The invariant has three layers, each
inductive given the one before. `TypeInv` adds to the types that requests have the shape
of their kind (`CallShape`), that copies are of launched jobs, that no two requests
dispatch the same message (`DispatchedOnce`, without which a second dispatch
would restart a message under way) and that a message's executions are paid for by
its retries and the faults (`WithinBudget`, which keeps `run` in its type).
`RowInv` adds that the copies in flight are as consistent as the rows:
`RowsConsistent` alone is not inductive, since a row is replaced by a copy.
`FindingsInv` likewise adds that a copy which says *completed*, or is about to, has
findings in the table; nothing ever empties `results`. For the contract, each
action is mapped to an operation or a stutter; the case that fails is the write
of a copy that differs from the row, which is `StaleWrite`.

`CalmInv` is a fourth layer, for what holds while nothing failed: a worker waits
for its callback and is the only one that writes for its message (`Synchronous`);
the run that asked is over and stays so; a row or a copy with a question is from after
it, one with an answer from after its journal was cleared (`VersionsSettled`,
`AnswersCleared`). None of the three properties is inductive without it: a callback
that outlives its worker is all it takes to ask twice or to journal a step for a
run that is over. `QuestionsAreFirst` needs no such condition: only the first
message of a job may ask. A stream reads row, findings and journal in turn; what it
has read of a job that is completed or asked stays so until it reads the next,
which makes the detail coherent.

`AgentScanProofs` proves, for every list of chains, set of approvals, set of
settings and every bound:

- `ScanTypeCorrect`: `Spec => []TypeOK`;
- `RevokedMeansCleared`, `NotAttemptedMeansUntouched`: the delivered outcomes
  are true of the chain and of KeeperHub;
- `DeliveriesCoverTheirChains`, `DeliveriesAreNeverBlind`;
- `JournalsAreRuns`, `ScansStayInBudget`;
- `CoverageDriftsByAnotherRun`, `OnlyTheGraphOverspends`,
  `OnlyAnotherRunIsUnrecorded`: three violated claims of the documents
  (`CoverageIsWhatRan`, `NoExecutionOverBudget`, `AttemptsAreRecorded`) under the
  condition that makes each hold, which says exactly what it takes to break them:
  a retry or a fault, the graph, another run of the job;
- `ScanInvAlways`: the inductive invariant;
- `AgentImplementsContract`: `Spec => ImplementsContract`, a refinement.

They rest on `ScanAssumption` and `SettingsAssumption`. Again in layers.
`TypeInv` adds `AttemptsPaid`: `attempt` only stays in its type because every
run after the first is paid for by a retry, the answer or a fault. `TruthInv`
adds what a delivery inherits: executions are of dangerous approvals, of
no later run than the current one, and only for a key that is delegated to the
scanned wallet, so that a completed one has cleared its allowance
(`ExecutionsJustified`); the run's own outcomes are already true, and only an
approval being polled is both executed and still *not attempted*
(`OutcomesTrue`); and the run that delivered has ended, so that no execution of
its number can follow its delivery (`ResultsTrue`). That KeeperHub confirms a
transaction late keeps all of it, since confirming only removes allowances.
`CoverageTrue` says the same of the run, its checkpoint and the delivery,
because a resumed run takes over the checkpoint's half and a delivery the run's.
`SightTrue` adds that a run past its assessment is not blind. The steps of a run
are a sequence, and `ChainsOfAppend` is what appending one does to the chains.
`JournalTrue` adds that the steps of a run and of its checkpoint are numbered in their
order and that a first attempt finds neither journal nor checkpoint, so that no
number is ever taken twice without a fault. `BudgetKept` is the budget of the run
and of the checkpoint it may go on from; that a step leaves it is shown once for
appending a step and cited by every action that does. `JournalWithin` and
`RecordsTrue` are for the last three: a run with no fault or retry before it finds
no journal and reports its own steps only; what a run revokes it has found, and
without the graph nothing is left to revoke once the cost is over the cap.

`AccountProofs` proves, for any accounts, requests, codes, tokens and attempts:

- `AccountTypes`, `AccountSessionsVerified`, `AccountMailsStored`,
  `AccountPasswords`, `AccountAttempts`;
- `AccountStepsKeepContract`: `Spec => StepsKeepContract`;
- under the condition that no access is one of the four races (`InTime`),
  `AccountsImplementContract`, a refinement, `AccountOneFreshToken`, the claim
  that `SessionForked` refutes, and `AccountOneUsableCode`.

They rest on `UsersAssumption`, `RequestsAssumption`, `CodesAssumption` and
`TokensAssumption`. In layers again. `Types` adds what a request has in hand at each
access (`Shaped`) and that rows are of issued codes. `VerifiedInv` adds that a
request past `mark_email_verified` has a verified account, for its session is
opened later. `CodesInv` adds what the code in a request's hand is, whatever was
superseded, burnt or purged since (`AllFit`), and that no other request has a code
that is not stored yet (`Apart`). `AttemptsInv` counts a code's attempts together
with the guesses that were checked and may yet be counted: the sum only grows
when a guess is checked against a code that is not exhausted.

The contract needs three more. `AnswersInv`: the row a request is about to burn is
of its account and purpose if it is there (`AnswersFit`), and what a new code
supersedes is too (`Replaces`). `TokensInv`: a token that is not stored yet was handed
to nobody (`TokensFit`) and is brought by one request (`TokensApart`), and a family, whatever
is left of it, belongs to one account (`FamiliesOwned`; without it a revocation
could close a session of somebody else). `DiscardsLate`: what is deleted as expired is
expired, so deleting it takes no session away. Then each access is one operation
of the contract: the commit of a code is `Issue`, or `Withdraw` if the code was
already late; `consume` is `Answer`, `close` is `CloseAll`, `rotate` and `renew` are
`Turn` and `Renew`, or `Drop` if the new token was already late; a purge and an abort
are `Drop`. The four accesses for which this fails, for want of the operation's guard, are the
disjuncts of `ActsOnStale`.

`SchedulerProofs` proves `SchedulerTypes`, `SchedulerMarks`,
`SchedulerLaunchesOnce`, `SchedulerBoundsQuota` and `SchedulerBoundsSearches` from
`SchedulerAssumption`. `TickInv` is what the lock is for: who ticks holds it
(`LeaderHoldsLock`), so nothing a tick has listed was launched by a later one
(`NoLaterLaunch`), and what is listed is due, hence not launched for an interval,
unless a fault kept its launch from being marked. `QuotaInv` and `LimitInv` count
what is inserted together with what was checked and is about to be.

`RecurringRunsProofs` proves `RunsTypes`, `RunsTellFindings`, `RunsNotifyOnce` and
`RunsAuditKeys` from `RunsAssumption` and `KeysAssumption`. `TellInv` says of everything a run
has stored or remembers that some run answers for it: has told it, is not over
and does not know it, or was silenced. A memory hands that on, since what it
holds was stored by a run. `MemoryInv` says that a run knows only runs that are over,
which tell no more, and was sent what they told, unless a second delivery dropped it
or the limit cut it from the memory. `Crowded` therefore counts everything that was ever
delivered before an approval, dropped or not: what cut it may be dropped by a later
delivery, after which less than the limit is left. `AuditInv` and `KeysInv` say of a stored key, and of
one that was read, that its event is written or that the request that connected
it is about to write it, or failed to.

`RateLimitProofs` proves, for every limit, window and number of clients and
replicas, the types (`LimiterTypes`) and that of the requests whose clocks are within a window at most
`3 * Limit` are let through by one replica if `4 * Lag <= Window + 1`
(`LocalBursts`), `2 * Limit` if nothing is late (`PunctualBursts`), and
`2 * Limit` by all replicas on Redis if `Lag <= 1` (`SharedBursts`). A late request
may open a window that begins before the end of the last one, which is where the
third limit comes from; on Redis a request counts in the window of its own clock, and
the second that `EXPIRE` adds keeps that bucket from starting again under it.
`IdsInv` makes the size of a burst the number of its requests, `SharedInv` and
`LocalInv` give each request its own number in its window.

`InMemoryProofs` compares the two repositories, so that it is known what a test on
the double shows. They agree on codes inserted one at a time (`CodesInsertedAlike`),
users, tokens and jobs (`UsersAlike`, `TokensAlike`, `JobsAlike`), KeeperHub keys
(`CredentialsAlike`), what is read of jobs (`JobsReadAlike`), journals and findings
(`JournalsAlike`, `FindingsAlike`), searches and their memory
(`SearchesAlike`, `MemoriesAlike`, `MemoryEndsWithSearch`), events (`EventsAlike`), and
on the history as the console is shown it (`ConsoleAlike`); `SpendSurvivesUpdates` shows that no order of a
lifecycle update and a usage loses spend, in either. The assumptions of the
others are where they part: an address registered twice; a job whose search the
owner deletes between the list of a tick and the insert, or another row that refers to
one that is gone, which PostgreSQL refuses and the double takes; a copy written back to a
job that is gone or was unlinked; a memory of more keys than the limit, or a limit of 0;
a search deleted after its runs, whose jobs PostgreSQL unlinks; events recorded
in another order than created. `ColumnsReadBack` is about the
columns that hold an enum. `DoubleHasOneCode`: no sequence of methods of the
double leaves two codes outstanding, so no test on it can meet the race
`AccountsTwoCodes` shows. `Tables`, `InMemory` and `RateLimit` have no run: their operators
are judged by theorems, and `RateLimit` was explored with small bounds.

Only model-checked: `EventuallySettled`, `EventuallyEnds` and `DueIsReached`, since
liveness under fairness is out of the prover's reach; the claims that are
violated, of which a counterexample is all there is to have.

## Plan

Done: jobs, scans, accounts, scheduler, recurring runs, streams, stores, limiter, each
with its proofs. Left:

1. `RiskModel`: the tiers, sorting, deduplication and change detection of
   `models.py` as pure operators against reference definitions.
2. A composition of `Scheduler` with `JobLifecycle`: the launch of a tick as a
   dispatch whose job is then reaped, answered or completed.
3. `ZeroCoverageNotReported` and `OutageSinksNoScan` under the condition that makes
   them hold, as `CoverageDriftsByAnotherRun` does for the coverage.

## Not modelled

The web console renders and keeps no protocol state but the event stream,
which `JobStream` has from the server's side. The rendering of digests, the check of which
hosts are public, and the texts and the provider of e-mails have no state that
matters to what is told. Authentication adapters wrap libraries; access tokens
are not stored. Request ids and headers only decorate answers. What an LLM
decides or writes is a nondeterministic choice. Configuration and telemetry are
read once or only observe. The evaluation harness is offline. Passkeys are a type
no use case uses. Token counts and prices of a run are whether its cap was
crossed.
