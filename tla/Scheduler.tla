----------------------------- MODULE Scheduler ------------------------------
(***************************************************************************)
(* Recurring scans: the rows their owners create and delete                *)
(* (application/recurring_searches.rs), the background loop of each        *)
(* replica that launches the due ones while it leads (main.rs,             *)
(* application/run_due_searches.rs), and the daily quota those launches    *)
(* share with the ones users make (application/launch_search.rs).          *)
(*                                                                         *)
(* Time is counted since events: an age is capped at Interval, the longest *)
(* one that matters.  A job is only counted here; what becomes of it is    *)
(* the business of JobLifecycle.                                           *)
(***************************************************************************)
EXTENDS LeaderLock, FiniteSets

CONSTANTS Users,       \* the accounts
          Searches,    \* the recurring scans there may ever be
          Replicas,    \* the backend processes
          PoolSize,    \* the database sessions of a replica's pool
          Requests,    \* the slots of the users' requests in progress
          Quota,       \* daily_quota: scans per user in 24 hours
          MaxPerUser,  \* MAX_PER_USER: recurring scans per user
          Interval,    \* interval_minutes, in units of the clock
          MaxFaults    \* bound: crashes, errors and lost sessions in a run

ASSUME SchedulerAssumption ==
    /\ IsFiniteSet(Searches) /\ "none" \notin Searches
    /\ IsFiniteSet(Replicas)
    /\ IsFiniteSet(Requests)
    /\ PoolSize \in Nat \ {0}
    /\ Quota \in Nat \ {0}
    /\ MaxPerUser \in Nat \ {0}
    /\ Interval \in Nat \ {0}
    /\ MaxFaults \in Nat

VARIABLES search,    \* [Searches -> row of recurring_searches, or where it is]
          used,      \* [Users -> scan_jobs of the last 24 hours]
          lock,      \* the advisory lock
          loop,      \* [Replicas -> the background loop]
          requests,  \* [Requests -> a user's request, Idle if none]
          ranAge,    \* [Searches -> age of the latest tick that launched it]
          cut,       \* the searches a fault kept from being marked as ran
          torn,      \* whether a tick has gone on without its session
          faults     \* how many faults have happened

vars == <<search, used, lock, loop, requests, ranAge, cut, torn, faults>>

Ages     == 0..Interval
Sessions == Replicas \X (1..PoolSize)

\* An id is "none" until its row is inserted and "deleted" after it.  age is
\* how long ago last_run_at is, Interval for NULL.
Row == [state: {"none", "stored", "deleted"}, owner: Users, age: Ages]

\* session is the connection the lock was taken on, todo the listed searches
\* that are left, now the one in work, age how long ago the tick began.
Loop == [pc: {"idle", "list", "next", "count", "insert", "dispatch", "fail",
              "mark", "release"},
         session: Sessions \cup {<<>>},
         todo: SUBSET Searches,
         now: Searches \cup {"none"},
         age: Ages]

Resting == [pc |-> "idle", session |-> <<>>, todo |-> {}, now |-> "none", age |-> 0]

Request == [op: {"launch", "create"}, user: Users]

Idle == [op |-> "none"]

Init == /\ \E owner \in [Searches -> Users] :
              search = [r \in Searches |->
                          [state |-> "none", owner |-> owner[r], age |-> Interval]]
        /\ used = [u \in Users |-> 0]
        /\ lock = Unlocked
        /\ loop = [p \in Replicas |-> Resting]
        /\ requests = [s \in Requests |-> Idle]
        /\ ranAge = [r \in Searches |-> Interval]
        /\ cut = {}
        /\ torn = FALSE
        /\ faults = 0

Stored(r) == search[r].state = "stored"

\* RecurringSearch::new: it has never run.
NewSearch(u) == [state |-> "stored", owner |-> u, age |-> Interval]

\* RecurringSearch::is_due.
Due(r) == Stored(r) /\ search[r].age >= Interval

\* list_due and list_for_user.
ListedDue == {r \in Searches : Due(r)}
OwnedBy(u) == {r \in Searches : Stored(r) /\ search[r].owner = u}

\* count_created_since, 24 hours ago.
UsedToday(u) == used[u]

UnderQuota(u) == UsedToday(u) < Quota
UnderLimit(u) == Cardinality(OwnedBy(u)) < MaxPerUser

(***************************************************************************)
(* Requests of the users.                                                  *)
(***************************************************************************)
\* Mutant of Launch: the quota itself is let through.
LaunchOneMore(s, u) ==
    /\ requests[s] = Idle
    /\ UsedToday(u) <= Quota
    /\ requests' = [requests EXCEPT ![s] = [op |-> "launch", user |-> u]]
    /\ UNCHANGED <<search, used, lock, loop, ranAge, cut, torn, faults>>

\* POST /api/searches: LaunchSearch::execute counts the jobs of the day ...
Launch(s, u) ==
    /\ requests[s] = Idle
    /\ UnderQuota(u)
    /\ requests' = [requests EXCEPT ![s] = [op |-> "launch", user |-> u]]
    /\ UNCHANGED <<search, used, lock, loop, ranAge, cut, torn, faults>>

\* ... and inserts another one.
InsertJob(s) ==
    /\ requests[s].op = "launch"
    /\ used' = [used EXCEPT ![requests[s].user] = @ + 1]
    /\ requests' = [requests EXCEPT ![s] = Idle]
    /\ UNCHANGED <<search, lock, loop, ranAge, cut, torn, faults>>

\* Mutant of Create: one more than the limit.
CreateOneMore(s, u) ==
    /\ requests[s] = Idle
    /\ Cardinality(OwnedBy(u)) <= MaxPerUser
    /\ requests' = [requests EXCEPT ![s] = [op |-> "create", user |-> u]]
    /\ UNCHANGED <<search, used, lock, loop, ranAge, cut, torn, faults>>

\* POST /api/recurring: RecurringSearches::create lists the user's scans ...
Create(s, u) ==
    /\ requests[s] = Idle
    /\ UnderLimit(u)
    /\ requests' = [requests EXCEPT ![s] = [op |-> "create", user |-> u]]
    /\ UNCHANGED <<search, used, lock, loop, ranAge, cut, torn, faults>>

\* ... and inserts another one, which has never run.
InsertSearch(s, r) ==
    /\ requests[s].op = "create"
    /\ search[r].state = "none" /\ search[r].owner = requests[s].user
    /\ search' = [search EXCEPT ![r] = NewSearch(requests[s].user)]
    /\ requests' = [requests EXCEPT ![s] = Idle]
    /\ UNCHANGED <<used, lock, loop, ranAge, cut, torn, faults>>

\* DELETE /api/recurring/{id}, one statement; what is known of the row ends.
Delete(r) ==
    /\ Stored(r)
    /\ search' = [search EXCEPT ![r].state = "deleted", ![r].age = Interval]
    /\ ranAge' = [ranAge EXCEPT ![r] = Interval]
    /\ cut' = cut \ {r}
    /\ UNCHANGED <<used, lock, loop, requests, torn, faults>>

\* A request ends before its insert.
GiveUp(s) ==
    /\ requests[s] # Idle
    /\ requests' = [requests EXCEPT ![s] = Idle]
    /\ UNCHANGED <<search, used, lock, loop, ranAge, cut, torn, faults>>

(***************************************************************************)
(* The background loop of a replica.                                       *)
(***************************************************************************)
At(p, pc) == loop[p].pc = pc

\* The sessions of p that are not out of its pool.
Pooled(p) == ({p} \X (1..PoolSize)) \ {loop[p].session}

\* Mutant of Acquire: the answer of the lock is not looked at.
AcquireAnyway(p, n) ==
    /\ At(p, "idle")
    /\ <<p, n>> \in Pooled(p)
    /\ lock' = IF Lockable(lock, <<p, n>>) THEN Locked(lock, <<p, n>>) ELSE lock
    /\ loop' = [loop EXCEPT ![p] = [Resting EXCEPT !.pc = "list", !.session = <<p, n>>]]
    /\ UNCHANGED <<search, used, requests, ranAge, cut, torn, faults>>

\* PostgresLeaderLock::acquire on any session of the pool; when it is not
\* granted the tick is skipped.  The reaper, which comes next, is in
\* JobLifecycle, and the purges that come last are in Accounts.
Acquire(p, n) ==
    /\ At(p, "idle")
    /\ <<p, n>> \in Pooled(p)
    /\ Lockable(lock, <<p, n>>)
    /\ lock' = Locked(lock, <<p, n>>)
    /\ loop' = [loop EXCEPT ![p] = [Resting EXCEPT !.pc = "list", !.session = <<p, n>>]]
    /\ UNCHANGED <<search, used, requests, ranAge, cut, torn, faults>>

\* RunDueSearches::execute: list_due at the time the tick is at.
ListDue(p) ==
    /\ At(p, "list")
    /\ loop' = [loop EXCEPT ![p].pc = "next", ![p].age = 0,
                            ![p].todo = ListedDue]
    /\ UNCHANGED <<search, used, lock, requests, ranAge, cut, torn, faults>>

\* The next of the listed searches, in no order, or the end of the list.
Take(p, r) ==
    /\ At(p, "next")
    /\ r \in loop[p].todo
    /\ loop' = [loop EXCEPT ![p].pc = "count", ![p].now = r, ![p].todo = @ \ {r}]
    /\ UNCHANGED <<search, used, lock, requests, ranAge, cut, torn, faults>>

ListDone(p) ==
    /\ At(p, "next")
    /\ loop[p].todo = {}
    /\ loop' = [loop EXCEPT ![p].pc = "release"]
    /\ UNCHANGED <<search, used, lock, requests, ranAge, cut, torn, faults>>

\* Mutant of CountUsed: a search over the quota is left as it is.
CountUsedOnly(p) ==
    /\ At(p, "count")
    /\ loop' = IF UnderQuota(search[loop[p].now].owner)
               THEN [loop EXCEPT ![p].pc = "insert"]
               ELSE [loop EXCEPT ![p].pc = "next", ![p].now = "none"]
    /\ UNCHANGED <<search, used, lock, requests, ranAge, cut, torn, faults>>

\* count_created_since: over the quota the search is only marked as ran.
CountUsed(p) ==
    /\ At(p, "count")
    /\ loop' = [loop EXCEPT ![p].pc =
                  IF UnderQuota(search[loop[p].now].owner) THEN "insert" ELSE "mark"]
    /\ UNCHANGED <<search, used, lock, requests, ranAge, cut, torn, faults>>

\* The rest of the list is dropped, and with it the search in work: if its job
\* was launched it is not marked as ran.
Drop(p, to) ==
    /\ loop' = [loop EXCEPT ![p] = to]
    /\ cut' = IF loop[p].pc \in {"dispatch", "fail", "mark"} /\ ranAge[loop[p].now] < search[loop[p].now].age
              THEN cut \cup {loop[p].now} ELSE cut

Dropped(p) == [loop[p] EXCEPT !.pc = "release", !.todo = {}, !.now = "none"]

\* The insert of the job, which names the search: its owner may have deleted
\* it since, and the foreign key then ends the tick for those behind it too.
InsertRun(p) ==
    LET r == loop[p].now
    IN  /\ At(p, "insert")
        /\ IF Stored(r)
           THEN /\ used' = [used EXCEPT ![search[r].owner] = @ + 1]
                /\ loop' = [loop EXCEPT ![p].pc = "dispatch"]
                /\ ranAge' = [ranAge EXCEPT ![r] = loop[p].age]
                /\ UNCHANGED cut
           ELSE Drop(p, Dropped(p)) /\ UNCHANGED <<used, ranAge>>
        /\ UNCHANGED <<search, lock, requests, torn, faults>>

\* Mutant of DispatchRun: a run that cannot be dispatched is not marked.
DispatchRunOrRetry(p) ==
    /\ At(p, "dispatch")
    /\ \E pc \in {"mark", "next"} :
          loop' = [loop EXCEPT ![p].pc = pc,
                               ![p].now = IF pc = "next" THEN "none" ELSE @]
    /\ UNCHANGED <<search, used, lock, requests, ranAge, cut, torn, faults>>

\* The dispatch, with the owner's key if it can be read; a job the agent does
\* not take is failed.
DispatchRun(p) ==
    /\ At(p, "dispatch")
    /\ \E pc \in {"mark", "fail"} : loop' = [loop EXCEPT ![p].pc = pc]
    /\ UNCHANGED <<search, used, lock, requests, ranAge, cut, torn, faults>>

FailRun(p) ==
    /\ At(p, "fail")
    /\ loop' = [loop EXCEPT ![p].pc = "mark"]
    /\ UNCHANGED <<search, used, lock, requests, ranAge, cut, torn, faults>>

\* mark_ran; nothing for a deleted search.
Ran(r, age) == IF Stored(r) THEN [search EXCEPT ![r].age = age] ELSE search

\* The search has run when the tick began.
MarkRan(p) ==
    LET r == loop[p].now
    IN  /\ At(p, "mark")
        /\ search' = Ran(r, loop[p].age)
        /\ loop' = [loop EXCEPT ![p].pc = "next", ![p].now = "none"]
        /\ UNCHANGED <<used, lock, requests, ranAge, cut, torn, faults>>

\* PostgresLeaderLock::release.
Release(p) ==
    /\ At(p, "release")
    /\ lock' = Released(lock, loop[p].session)
    /\ loop' = [loop EXCEPT ![p] = Resting]
    /\ UNCHANGED <<search, used, requests, ranAge, cut, torn, faults>>

(***************************************************************************)
(* Time and faults.                                                        *)
(***************************************************************************)
Older(age) == IF age < Interval THEN age + 1 ELSE age

\* The clock advances.
Pass ==
    /\ search' = [r \in Searches |-> [search[r] EXCEPT !.age = Older(search[r].age)]]
    /\ loop' = [p \in Replicas |->
                  IF At(p, "idle") THEN loop[p]
                  ELSE [loop[p] EXCEPT !.age = Older(loop[p].age)]]
    /\ ranAge' = [r \in Searches |-> Older(ranAge[r])]
    /\ UNCHANGED <<used, lock, requests, cut, torn, faults>>

\* A job of u is 24 hours old.
Forget(u) ==
    /\ used[u] > 0
    /\ used' = [used EXCEPT ![u] = @ - 1]
    /\ UNCHANGED <<search, lock, loop, requests, ranAge, cut, torn, faults>>

Fault == /\ faults < MaxFaults
         /\ faults' = faults + 1

\* A database error: the rest of the tick is skipped.
Error(p) ==
    /\ ~ At(p, "idle") /\ ~ At(p, "release")
    /\ Fault
    /\ Drop(p, Dropped(p))
    /\ UNCHANGED <<search, used, lock, requests, ranAge, torn>>

\* The unlock fails, and the session goes back to the pool with the lock.
UnlockFailed(p) ==
    /\ At(p, "release")
    /\ Fault
    /\ loop' = [loop EXCEPT ![p] = Resting]
    /\ UNCHANGED <<search, used, lock, requests, ranAge, cut, torn>>

\* The replica dies, its sessions with it, and starts again.
Crash(p) ==
    /\ Fault
    /\ lock' = Freed(lock, {p} \X (1..PoolSize))
    /\ Drop(p, Resting)
    /\ UNCHANGED <<search, used, requests, ranAge, torn>>

\* The session that holds the lock ends; the tick does not notice.
LoseSession ==
    /\ lock.holder # <<>>
    /\ Fault
    /\ lock' = Unlocked
    /\ torn' = (torn \/ \E p \in Replicas : loop[p].session = lock.holder)
    /\ UNCHANGED <<search, used, loop, requests, ranAge, cut>>

(***************************************************************************)
(* The specification.                                                      *)
(***************************************************************************)
User == \/ \E s \in Requests, u \in Users : Launch(s, u) \/ Create(s, u)
        \/ \E s \in Requests : InsertJob(s) \/ GiveUp(s)
        \/ \E s \in Requests, r \in Searches : InsertSearch(s, r)
        \/ \E r \in Searches : Delete(r)

Lead(p) == \E n \in 1..PoolSize : Acquire(p, n)

Tick(p) == \/ ListDue(p) \/ (\E r \in Searches : Take(p, r)) \/ ListDone(p)
           \/ CountUsed(p) \/ InsertRun(p) \/ DispatchRun(p) \/ FailRun(p) \/ MarkRan(p)
           \/ Release(p)

Faulty == \/ \E p \in Replicas : Error(p) \/ UnlockFailed(p) \/ Crash(p)
          \/ LoseSession

Next == \/ User
        \/ \E p \in Replicas : Lead(p) \/ Tick(p)
        \/ Pass \/ (\E u \in Users : Forget(u))
        \/ Faulty

Spec == Init /\ [][Next]_vars

\* Every replica's ticker goes off again and again, and its loop goes on.
Fairness == /\ WF_vars(\E p \in Replicas : Lead(p))
            /\ \A p \in Replicas : WF_vars(Tick(p))

FairSpec == Spec /\ Fairness

\* Every variable is of its kind.
TypeOK ==
    /\ search \in [Searches -> Row]
    /\ used \in [Users -> Nat]
    /\ lock \in [holder: Sessions \cup {<<>>}, times: Nat]
    /\ loop \in [Replicas -> Loop]
    /\ requests \in [Requests -> Request \cup {Idle}]
    /\ ranAge \in [Searches -> Ages]
    /\ cut \subseteq Searches
    /\ torn \in BOOLEAN
    /\ faults \in 0..MaxFaults

\* "A schedule cannot outspend a user": the quota of execute counts before the
\* insert, so what is between the two exceeds it, and nothing else does: one
\* scan for each request and each replica at that point (ADR-017).
QuotaBounded ==
    \A u \in Users : used[u] < Quota + Cardinality(Requests) + Cardinality(Replicas)

\* "A user cannot hoard schedules": create checks the limit before the insert,
\* and only the requests between the two exceed it.
SearchesBounded ==
    \A u \in Users : Cardinality(OwnedBy(u)) < MaxPerUser + Cardinality(Requests)

Launched(p) == loop[p].pc \in {"dispatch", "fail", "mark"}

\* "Every outcome marks the scan as ran": last_run_at is no older than the
\* latest tick that launched the search, but while a loop is between the two
\* or a fault came between them.
RunsAreMarked ==
    \A r \in Searches :
        \/ search[r].age <= ranAge[r]
        \/ ~ Stored(r)
        \/ r \in cut
        \/ torn
        \/ \E p \in Replicas : loop[p].now = r /\ Launched(p)

\* The searches a loop is still going to launch.
Planned(p) == loop[p].todo \cup (IF Launched(p) THEN {} ELSE {loop[p].now} \ {"none"})

\* "With several replicas the scheduler would otherwise launch duplicate
\* recurring jobs": what a loop is going to launch has not been launched for an
\* interval, whichever replica did, however ticks and requests interleave and
\* wherever the lock was left, but for the launches a fault kept unmarked and
\* the ticks that go on without their session.
LaunchedOncePerInterval ==
    \A p \in Replicas : \A r \in Planned(p) :
        ranAge[r] >= Interval \/ r \in cut \/ torn

\* A due search is launched or skipped in the end, unless its owner deletes
\* it: neither an error, a crash, a lock left on a pooled session nor the
\* searches before it in the list keep it from its turn for ever.
DueIsReached ==
    \A r \in Searches :
        Due(r) ~> \/ ~ Due(r)
                  \/ \E p \in Replicas : At(p, "mark") /\ loop[p].now = r
=============================================================================
