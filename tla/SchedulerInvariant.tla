------------------------- MODULE SchedulerInvariant -------------------------
(***************************************************************************)
(* The invariant behind Scheduler's safety properties, strong enough to be *)
(* inductive.                                                              *)
(***************************************************************************)
EXTENDS Scheduler

\* The accesses at which a loop has a search in work.
Working == {"count", "insert", "dispatch", "fail", "mark"}

\* The searches of a loop's tick, now or later.
Listed(p) == loop[p].todo \cup ({loop[p].now} \ {"none"})

\* A loop has a session of its own pool from its lock to its release, a list
\* from its query to its release, and a search in work in between.
LoopsShaped ==
    \A p \in Replicas :
        /\ At(p, "idle") => loop[p] = Resting
        /\ ~ At(p, "idle") => loop[p].session \in {p} \X (1..PoolSize)
        /\ loop[p].pc \in Working <=> loop[p].now \in Searches
        /\ loop[p].pc \in {"list", "release"} => loop[p].todo = {}
        /\ loop[p].now \notin loop[p].todo

\* A lock that somebody holds was taken at least once.
LockCounts == lock.holder # <<>> => lock.times >= 1

\* Until a tick goes on without its session, who ticks holds the lock: so two
\* never do at a time.
LeaderHoldsLock ==
    torn \/ \A p \in Replicas : ~ At(p, "idle") => lock.holder = loop[p].session

\* Nothing a tick listed was launched by a later tick.
NoLaterLaunch ==
    torn \/ \A p \in Replicas : \A r \in Listed(p) : loop[p].age <= ranAge[r]

\* A search that is not there yet has not run.
UnbornNeverRan == \A r \in Searches : search[r].state = "none" => ranAge[r] = Interval

TickInv == /\ TypeOK
           /\ LoopsShaped
           /\ LockCounts
           /\ LeaderHoldsLock
           /\ NoLaterLaunch
           /\ UnbornNeverRan
           /\ RunsAreMarked
           /\ LaunchedOncePerInterval

\* The requests and the loops that have counted u's jobs and not inserted yet.
Launching(u) == {s \in Requests : requests[s].op = "launch" /\ requests[s].user = u}
Inserting(u) == {p \in Replicas : At(p, "insert") /\ search[loop[p].now].owner = u}

\* What is inserted and what is about to be, together.
QuotaInv ==
    \A u \in Users : used[u] + Cardinality(Launching(u)) + Cardinality(Inserting(u))
                         < Quota + Cardinality(Requests) + Cardinality(Replicas)

Creating(u) == {s \in Requests : requests[s].op = "create" /\ requests[s].user = u}

LimitInv ==
    \A u \in Users : Cardinality(OwnedBy(u)) + Cardinality(Creating(u))
                         < MaxPerUser + Cardinality(Requests)
=============================================================================
