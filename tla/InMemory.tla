------------------------------ MODULE InMemory ------------------------------
(***************************************************************************)
(* The repositories the unit and HTTP tests run on                         *)
(* (adapters/persistence/in_memory.rs): hash maps behind a mutex, so a     *)
(* method is one step, which nothing refuses: no map knows another, so a   *)
(* row may refer to one that is not there.  They are stated on the         *)
(* tables of Tables, EmailCodes and RefreshTokens, to be compared with     *)
(* what the statements of postgres.rs do there (InMemoryProofs).           *)
(*                                                                         *)
(* A hash map is searched in any order: an operator that finds one of      *)
(* several says which rows it may find.                                    *)
(***************************************************************************)
EXTENDS Tables, EmailCodes, RefreshTokens

(***************************************************************************)
(* InMemoryUserRepository                                                  *)
(***************************************************************************)
\* No address is refused.
MemUserInserted(users, id, user) == With(users, id, user)

MemUserFound(users, email, id) == id \in DOMAIN users /\ users[id].email = email

\* get_or_insert
MemUserVerified(users, id, at) ==
    [u \in DOMAIN users |->
        IF u = id /\ users[u].verified = 0
        THEN [users[u] EXCEPT !.verified = at] ELSE users[u]]

MemPasswordUpdated(users, id, hash) ==
    [u \in DOMAIN users |->
        IF u = id THEN [users[u] EXCEPT !.password = hash] ELSE users[u]]

(***************************************************************************)
(* InMemoryEmailVerificationRepository                                     *)
(***************************************************************************)
MemCodeInserted(table, c, row) ==
    [d \in Codes |->
        CASE d = c -> row
          [] d # c /\ d \in Outstanding(table, row.user, row.purpose)
               -> [table[d] EXCEPT !.consumed = TRUE]
          [] OTHER -> table[d]]

\* active_for_user may find any code that is not consumed.
MemCodeActive(table, u, p, c) == c \in Outstanding(table, u, p)

MemCodeIssued(table, u, p, guess) ==
    \E c \in Codes : c = guess /\ table[c].user = u /\ table[c].purpose = p

MemCodeAttempted(table, c) ==
    [d \in Codes |->
        IF d = c /\ table[d] # NoCode
        THEN [table[d] EXCEPT !.attempts = @ + 1] ELSE table[d]]

MemCodeBurnt(table, c) ==
    [d \in Codes |->
        IF d = c /\ table[d] # NoCode
        THEN [table[d] EXCEPT !.consumed = TRUE] ELSE table[d]]

\* retain(expires_at > now)
MemCodesPurged(table, late) ==
    [d \in Codes |-> IF d > late THEN table[d] ELSE NoCode]

(***************************************************************************)
(* InMemoryRefreshTokenRepository                                          *)
(***************************************************************************)
MemTokenConsumed(table, t) ==
    [d \in Tokens |->
        IF d = t /\ table[d] # NoToken
        THEN [table[d] EXCEPT !.consumed = TRUE] ELSE table[d]]

MemTokenDeleted(table, t) == [d \in Tokens |-> IF d = t THEN NoToken ELSE table[d]]

\* retain(user_id != user_id) and retain(family_id != family_id)
MemTokensClosed(table, u) ==
    [d \in Tokens |-> IF table[d].user # u THEN table[d] ELSE NoToken]

MemFamilyDeleted(table, f) ==
    [d \in Tokens |-> IF table[d].family # f THEN table[d] ELSE NoToken]

\* retain(! is_expired)
MemTokensPurged(table, late) ==
    [d \in Tokens |-> IF ~ (d <= late) THEN table[d] ELSE NoToken]

(***************************************************************************)
(* InMemoryKeeperHubCredentialRepository                                   *)
(***************************************************************************)
\* The row takes the place of the one before, date and all.
MemCredentialUpserted(credentials, u, row) == With(credentials, u, row)

MemCredentialDeleted(credentials, u) ==
    [v \in DOMAIN credentials \ {u} |-> credentials[v]]

(***************************************************************************)
(* InMemoryJobRepository                                                   *)
(***************************************************************************)
\* Neither its account nor its search is looked for.
MemJobInserted(jobs, id, job) == With(jobs, id, job)

\* The whole copy is put in, but for the usage of the job it replaces.
MemJobUpdated(jobs, id, job) ==
    With(jobs, id, IF id \in DOMAIN jobs
                   THEN [job EXCEPT !.usage = jobs[id].usage] ELSE job)

\* JobUsage::add on the job in the map.
MemUsageAdded(jobs, id, usage) ==
    [j \in DOMAIN jobs |->
        IF j = id THEN [jobs[j] EXCEPT !.usage = Sum(jobs[j].usage, usage)]
        ELSE jobs[j]]

\* Without a limit.
MemHistory(jobs, u) == {j \in DOMAIN jobs : jobs[j].owner = u}

MemCreatedSince(jobs, u, since) ==
    Cardinality({j \in DOMAIN jobs : jobs[j].owner = u /\ jobs[j].created >= since})

MemUnfinishedBefore(jobs, cutoff) ==
    {j \in DOMAIN jobs : /\ jobs[j].status = "pending" \/ jobs[j].status = "running"
                         /\ jobs[j].created < cutoff}

MemFindingsStored(findings, job, keys) == With(findings, job, keys)

MemFindingsOf(findings, job) == IF job \in DOMAIN findings THEN findings[job] ELSE {}

\* The journal of the job, whatever was pushed before it.
MemStepAppended(steps, step) ==
    LET journal == {s \in steps : s.job = step.job}
    IN  IF step.seq \notin {s.seq : s \in journal}
        THEN (steps \ journal) \cup (journal \cup {step}) ELSE steps

MemStepsOf(steps, job) == {s \in steps : s.job = job}

MemStepsCleared(steps, job) == steps \ {s \in steps : s.job = job}

\* When a run that found key was created, at the latest.
FoundAt(jobs, findings, search, key) ==
    {jobs[j].created : j \in {r \in RunsOf(jobs, search) : key \in FindingsOf(findings, r)}}

Since(jobs, findings, search, key, other) ==
    \A a \in FoundAt(jobs, findings, search, other) :
        \E b \in FoundAt(jobs, findings, search, key) : a <= b

\* recent_approval_keys_for_recurring goes through the runs from the newest,
\* and stops as soon as it has as many keys as the limit; it looks at the limit
\* after it took a key.  keys is what it may have then.
MemRecentKeys(jobs, findings, search, limit, keys) ==
    LET found == FoundBy(jobs, findings, search)
        most  == IF limit = 0 THEN 1 ELSE limit
    IN  /\ keys \subseteq found
        /\ Cardinality(keys) <= most
        /\ keys = found \/ Cardinality(keys) = most
        /\ \A k \in keys, l \in found \ keys : Since(jobs, findings, search, k, l)

(***************************************************************************)
(* InMemoryRecurringSearchRepository, InMemorySecurityAudit                *)
(***************************************************************************)
\* No id is refused.
MemSearchInserted(searches, id, search) == With(searches, id, search)

MemSearchesOf(searches, u) == {s \in DOMAIN searches : searches[s].owner = u}

\* The jobs of the search keep its id.
MemSearchDeleted(searches, u, id) ==
    IF id \in DOMAIN searches /\ searches[id].owner = u
    THEN [s \in DOMAIN searches \ {id} |-> searches[s]] ELSE searches

\* RecurringSearch::is_due
MemDueAt(searches, now) ==
    {s \in DOMAIN searches : searches[s].ran # 0 => searches[s].ran + searches[s].interval <= now}

MemSearchRan(searches, id, at) ==
    [s \in DOMAIN searches |->
        IF s = id THEN [searches[s] EXCEPT !.ran = at] ELSE searches[s]]

\* The last in the order they were pushed.
MemRecentEvents(events, limit) ==
    {e \in events : Cardinality({f \in events : f.nr > e.nr}) < limit}

MemEventsPurged(events, cutoff) == {e \in events : e.created >= cutoff}
=============================================================================
