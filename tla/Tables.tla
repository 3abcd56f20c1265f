------------------------------- MODULE Tables -------------------------------
(***************************************************************************)
(* The statements adapters/persistence/postgres.rs makes on the tables     *)
(* whose rows the other modules only have in part: users, scan_jobs with   *)
(* its findings, journal and spend, recurring_searches, security_events    *)
(* and keeperhub_credentials.  A table is a function of the ids that are   *)
(* in it, and an operator maps the table before a statement to its answer  *)
(* or to the table after it.  A statement a constraint refuses, and one    *)
(* whose WHERE finds nothing, leaves the table as it is.  The tables its   *)
(* foreign keys refer to come after the table of a statement.              *)
(*                                                                         *)
(* What is only stored and read back is left out: addresses, names,        *)
(* explanations.  Times are numbers, and no two rows of a table have the   *)
(* same created; 0 stands for NULL.                                        *)
(***************************************************************************)
EXTENDS Naturals, FiniteSets, Functions

CONSTANTS Ids,        \* the uuids
          Texts,      \* e-mail addresses, password hashes, kinds
          SpendOf,    \* the counters of JobUsage
          Keys,       \* approvals: a chain, a token and a spender
          Rank,       \* [Keys -> Nat], their order in the database
          FetchLimit, \* HISTORY_FETCH_LIMIT
          HistoryLimit \* HISTORY_LIMIT

\* The table with the row of id put in.
With(table, id, row) ==
    [x \in DOMAIN table \cup {id} |-> IF x = id THEN row ELSE table[x]]

(***************************************************************************)
(* Columns that hold an enum as text.                                      *)
(***************************************************************************)
\* The values a column may get from this version of the code, as the CHECKs of
\* the migrations have them; "other" is one a newer version has written.
JobStatuses        == {"pending", "running", "awaiting_input", "completed", "failed"}
Modes              == {"workflow", "agent"}
Tiers              == {"safe", "watch", "dangerous"}
RevocationStatuses == {"not_attempted", "pending", "simulated", "revoked", "failed"}

\* status_from_str and tier_from_str make a row of another value unreadable.
Readable(job)       == job.status \in JobStatuses
FindingReadable(fi) == fi.tier \in Tiers

\* mode_from_str and revocation_status_from_str degrade it.
ModeRead(text)       == IF text = "agent" THEN "agent" ELSE "workflow"
RevocationRead(text) ==
    IF text \in RevocationStatuses THEN text ELSE "not_attempted"

(***************************************************************************)
(* users                                                                   *)
(***************************************************************************)
UserRow == [email: Texts, password: Texts, verified: Nat]

UsersOf(users, email) == {u \in DOMAIN users : users[u].email = email}

\* The address is UNIQUE.
UserInserted(users, id, user) ==
    IF id \in DOMAIN users \/ UsersOf(users, user.email) # {}
    THEN users ELSE With(users, id, user)

UserVerified(users, id, at) ==
    IF id \in DOMAIN users /\ users[id].verified = 0
    THEN [users EXCEPT ![id].verified = at] ELSE users

PasswordUpdated(users, id, hash) ==
    IF id \in DOMAIN users
    THEN [users EXCEPT ![id].password = hash] ELSE users

(***************************************************************************)
(* scan_jobs                                                               *)
(***************************************************************************)
\* JobUsage
Usage == [SpendOf -> Nat]

NoUsage == [n \in SpendOf |-> 0]

\* JobUsage::add
Sum(a, b) == [n \in SpendOf |-> a[n] + b[n]]

\* status, answered and finished stand for the columns update writes; owner,
\* search and created are written once, and usage by add_usage alone.
JobRow == [owner: Ids, search: Ids \cup {"none"}, created: Nat \ {0},
           status: JobStatuses, answered: BOOLEAN, finished: Nat, usage: Usage]

\* The account and the search that the job names must be there.
JobRefers(users, searches, job) ==
    job.owner \in DOMAIN users /\ job.search \in DOMAIN searches \cup {"none"}

\* The usage columns have their DEFAULT.
JobInserted(jobs, users, searches, id, job) ==
    IF id \notin DOMAIN jobs /\ JobRefers(users, searches, job)
    THEN With(jobs, id, [job EXCEPT !.usage = NoUsage]) ELSE jobs

JobUpdated(jobs, id, job) ==
    IF id \in DOMAIN jobs
    THEN [jobs EXCEPT ![id] = [jobs[id] EXCEPT !.status = job.status,
                                               !.answered = job.answered,
                                               !.finished = job.finished]]
    ELSE jobs

UsageAdded(jobs, id, usage) ==
    IF id \in DOMAIN jobs
    THEN [jobs EXCEPT ![id] = [jobs[id] EXCEPT !.usage = Sum(jobs[id].usage, usage)]]
    ELSE jobs

JobsOf(jobs, u) == {j \in DOMAIN jobs : jobs[j].owner = u}

\* list_for_user: the newest, up to the limit.
History(jobs, u) ==
    {j \in JobsOf(jobs, u) :
        Cardinality({k \in JobsOf(jobs, u) : jobs[k].created > jobs[j].created}) < FetchLimit}

\* SearchQueries::list: of what the store has listed, what the console is shown.
Shown(jobs, listed) ==
    {j \in listed :
        Cardinality({k \in listed : jobs[k].created > jobs[j].created}) < HistoryLimit}

CreatedSince(jobs, u, since) ==
    Cardinality({j \in JobsOf(jobs, u) : jobs[j].created >= since})

UnfinishedBefore(jobs, cutoff) ==
    {j \in DOMAIN jobs : jobs[j].status \in {"pending", "running"} /\ jobs[j].created < cutoff}

(***************************************************************************)
(* approval_findings and agent_steps                                       *)
(***************************************************************************)
\* Findings are kept as the keys they have; a job that is not in the table has
\* none.
FindingsStored(findings, jobs, job, keys) ==
    IF job \in DOMAIN jobs THEN With(findings, job, keys) ELSE findings

FindingsOf(findings, job) == IF job \in DOMAIN findings THEN findings[job] ELSE {}

\* A row of agent_steps; what it tells is in text.
StepRow == [job: Ids, seq: Nat, text: Texts]

\* ON CONFLICT (job_id, seq) DO NOTHING
StepAppended(steps, jobs, step) ==
    IF /\ step.job \in DOMAIN jobs
       /\ \A s \in steps : s.job = step.job => s.seq # step.seq
    THEN steps \cup {step} ELSE steps

StepsOf(steps, job) == {s \in steps : s.job = job}

StepsCleared(steps, job) == {s \in steps : s.job # job}

RunsOf(jobs, search) == {j \in DOMAIN jobs : jobs[j].search = search}

\* What the runs of a search have found.
FoundBy(jobs, findings, search) ==
    UNION {FindingsOf(findings, j) : j \in RunsOf(jobs, search)}

\* recent_approval_keys_for_recurring: the first keys in the order of the keys.
RecentKeys(jobs, findings, search, limit) ==
    LET found == FoundBy(jobs, findings, search)
    IN  {k \in found : Cardinality({l \in found : Rank[l] < Rank[k]}) < limit}

(***************************************************************************)
(* recurring_searches                                                      *)
(***************************************************************************)
SearchRow == [owner: Ids, interval: Nat \ {0}, ran: Nat]

SearchInserted(searches, users, id, search) ==
    IF id \notin DOMAIN searches /\ search.owner \in DOMAIN users
    THEN With(searches, id, search) ELSE searches

\* list_for_user, in whatever order.
SearchesOf(searches, u) == {s \in DOMAIN searches : searches[s].owner = u}

\* Only by its owner.
SearchDeleted(searches, u, id) ==
    IF id \in DOMAIN searches /\ searches[id].owner = u
    THEN Restrict(searches, DOMAIN searches \ {id}) ELSE searches

\* ON DELETE SET NULL, of the column that names the search a job belongs to.
JobsUnlinked(jobs, id) ==
    [j \in DOMAIN jobs |->
        IF jobs[j].search = id THEN [jobs[j] EXCEPT !.search = "none"] ELSE jobs[j]]

DueAt(searches, now) ==
    {s \in DOMAIN searches :
        searches[s].ran = 0 \/ searches[s].ran + searches[s].interval <= now}

SearchRan(searches, id, at) ==
    IF id \in DOMAIN searches
    THEN [searches EXCEPT ![id] = [searches[id] EXCEPT !.ran = at]] ELSE searches

(***************************************************************************)
(* keeperhub_credentials and security_events                               *)
(***************************************************************************)
\* The account is the key; the date of the first connection is kept.
CredentialRow == [sealed: Texts, created: Nat]

CredentialUpserted(credentials, users, u, row) ==
    IF u \in DOMAIN users
    THEN With(credentials, u,
              IF u \in DOMAIN credentials
              THEN [row EXCEPT !.created = credentials[u].created] ELSE row)
    ELSE credentials

CredentialDeleted(credentials, u) == Restrict(credentials, DOMAIN credentials \ {u})

\* SecurityEvent, without the account it names; nr is the order in which events
\* were recorded.
EventRow == [nr: Nat, kind: Texts, created: Nat]

Recorded(events, event) == events \cup {event}

\* list_recent: the newest by created.
RecentEvents(events, limit) ==
    {e \in events : Cardinality({f \in events : f.created > e.created}) < limit}

EventsPurged(events, cutoff) == {e \in events : e.created >= cutoff}
=============================================================================
